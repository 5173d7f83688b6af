---------------------------- MODULE TreeFileProofs ----------------------------
(***************************************************************************)
(* Proofs about TreeFile, for files of any number of pages of any size:    *)
(* where unsigned long is as wide as unsigned int, the files that one      *)
(* object creates, closes and reopens keep every page in use, account for  *)
(* every page, and implement the page store that the trees rely on.        *)
(***************************************************************************)
EXTENDS TreeFile, FiniteSetTheorems, SequenceTheorems, TLAPS

\* unsigned long has the width of unsigned int.
SameWidth == LMod = UMod

-------------------------------------------------------------------------------
(* Offsets. *)

\* Where page p begins, and the free pages area of a file of `last' pages, as
\* integers that do not wrap.
PageOfs(p) == FIRST_PAGE_OFS + NodePageSize * (p - 1)
AreaOfs(last) == FIRST_PAGE_OFS + NodePageSize * last

\* Pages lie one behind the other, and the free pages area behind the last one.
LEMMA Layout ==
    /\ FIRST_PAGE_OFS = 16
    /\ NodePageSize \in Nat \ {0} /\ MaxPages \in Nat \ {0} /\ UMod \in Nat \ {0}
    /\ \A p \in 1..MaxPages + 1 :
          /\ PageOfs(p) \in Nat /\ PageOfs(p) >= 16
          /\ PageOfs(p) <= AreaOfs(MaxPages)
    /\ \A p \in 1..MaxPages : PageOfs(p) + NodePageSize = AreaOfs(p)
    /\ \A n \in 0..MaxPages :
          /\ AreaOfs(n) \in Nat /\ AreaOfs(n) >= 16 /\ AreaOfs(n) <= AreaOfs(MaxPages)
          /\ AreaOfs(n) = PageOfs(n + 1)
    /\ \A p, q \in 1..MaxPages + 1 : p < q => PageOfs(p) + NodePageSize <= PageOfs(q)
    /\ AreaOfs(MaxPages) + 4 + MaxPages * 4 < UMod
<1>1. FIRST_PAGE_OFS = 16 /\ WORD_SZ = 4
  BY DEF FIRST_PAGE_OFS, ROOT_PAGE_NUM_OFS, PAGE_COUNTER_OFS, HEADER_SIZE, WORD_SZ
<1>2. NodePageSize \in Nat \ {0} /\ MaxPages \in Nat \ {0} /\ UMod \in Nat \ {0}
  BY SizesAssumption
<1>3. \A i, j \in Nat : i <= j => /\ NodePageSize * i \in Nat
                                  /\ NodePageSize * i <= NodePageSize * j
  BY <1>2
<1>4. \A i \in Nat : NodePageSize * (i + 1) = NodePageSize * i + NodePageSize
  BY <1>2
<1>5. AreaOfs(MaxPages) + 4 + MaxPages * 4 < UMod
  BY <1>1, <1>2, FitsAssumption DEF AreaOfs
<1>6. \A n \in 0..MaxPages :
          /\ AreaOfs(n) \in Nat /\ AreaOfs(n) >= 16 /\ AreaOfs(n) <= AreaOfs(MaxPages)
          /\ AreaOfs(n) = PageOfs(n + 1)
  <2> TAKE n \in 0..MaxPages
  <2>1. NodePageSize * n \in Nat /\ NodePageSize * n <= NodePageSize * MaxPages
    BY <1>2, <1>3
  <2>2. (n + 1) - 1 = n
    BY <1>2
  <2>3. NodePageSize * MaxPages \in Nat
    BY <1>2, <1>3
  <2> QED BY <1>1, <2>1, <2>2, <2>3 DEF AreaOfs, PageOfs
<1>7. \A p \in 1..MaxPages + 1 :
          /\ PageOfs(p) \in Nat /\ PageOfs(p) >= 16
          /\ PageOfs(p) <= AreaOfs(MaxPages)
  <2> TAKE p \in 1..MaxPages + 1
  <2>1. p - 1 \in 0..MaxPages /\ (p - 1) + 1 = p
    BY <1>2
  <2> QED BY <1>6, <2>1
<1>8. \A p \in 1..MaxPages : PageOfs(p) + NodePageSize = AreaOfs(p)
  <2> TAKE p \in 1..MaxPages
  <2>1. p - 1 \in Nat /\ (p - 1) + 1 = p
    BY <1>2
  <2>2. NodePageSize * p = NodePageSize * (p - 1) + NodePageSize
    BY <1>4, <2>1
  <2>3. NodePageSize * (p - 1) \in Nat
    BY <1>3, <2>1
  <2> QED BY <1>1, <1>2, <2>2, <2>3 DEF PageOfs, AreaOfs
<1>9. \A p, q \in 1..MaxPages + 1 : p < q => PageOfs(p) + NodePageSize <= PageOfs(q)
  <2> SUFFICES ASSUME NEW p \in 1..MaxPages + 1, NEW q \in 1..MaxPages + 1, p < q
               PROVE  PageOfs(p) + NodePageSize <= PageOfs(q)
    OBVIOUS
  <2>1. p \in Nat /\ q - 1 \in Nat /\ p <= q - 1 /\ p \in 1..MaxPages
    BY <1>2
  <2>2. NodePageSize * p <= NodePageSize * (q - 1) /\ NodePageSize * p \in Nat
        /\ NodePageSize * (q - 1) \in Nat
    BY <1>3, <2>1
  <2>3. PageOfs(p) + NodePageSize = AreaOfs(p)
    BY <1>8, <2>1
  <2> QED BY <1>1, <2>2, <2>3 DEF PageOfs, AreaOfs
<1> QED BY <1>1, <1>2, <1>5, <1>6, <1>7, <1>8, <1>9

\* ULong arithmetic is then UInt arithmetic.
LEMMA OneWidth == SameWidth => \A n : ULongOf(n) = n % UMod
BY Zenon DEF SameWidth, ULongOf

\* gotoPage() and getPageOfs() give the place of a page.
LEMMA PageOffsets ==
    ASSUME SameWidth, NEW p \in 1..MaxPages + 1
    PROVE  gotoPage(p) = PageOfs(p) /\ getPageOfs(p) = PageOfs(p)
<1>1. /\ UMod \in Nat \ {0} /\ NodePageSize \in Nat \ {0} /\ MaxPages \in Nat \ {0}
      /\ FIRST_PAGE_OFS = 16 /\ AreaOfs(MaxPages) + 4 + MaxPages * 4 < UMod
  BY Layout
<1>2. AreaOfs(MaxPages) \in Nat
  BY <1>1, Layout
<1>3. PageOfs(p) \in Nat /\ PageOfs(p) >= 16 /\ PageOfs(p) <= AreaOfs(MaxPages)
  BY Layout
<1>4. PageOfs(p) < UMod
  BY <1>1, <1>2, <1>3
<1>5. /\ (p - 1) * NodePageSize = PageOfs(p) - 16
      /\ FIRST_PAGE_OFS + NodePageSize * (p - 1) = PageOfs(p)
  BY <1>1 DEF PageOfs
<1>6. PageOfs(p) % UMod = PageOfs(p) /\ (PageOfs(p) - 16) % UMod = PageOfs(p) - 16
  BY ONLY <1>1, <1>3, <1>4
<1>7. gotoPage(p) = PageOfs(p)
  BY <1>5, <1>6 DEF gotoPage, UIntOf
<1>8. getPageOfs(p) = (FIRST_PAGE_OFS + ((PageOfs(p) - 16) % UMod)) % UMod
  <2>1. getPageOfs(p) = (FIRST_PAGE_OFS + (((p - 1) * NodePageSize) % UMod)) % UMod
    <3>1. getPageOfs(p) = ULongOf(FIRST_PAGE_OFS + (((p - 1) * NodePageSize) % UMod))
      BY Zenon DEF getPageOfs, UIntOf
    <3> QED BY <3>1, OneWidth, Zenon
  <2> QED BY <2>1, <1>5, Zenon
<1>9. FIRST_PAGE_OFS + (PageOfs(p) - 16) = PageOfs(p)
  BY <1>1, <1>3
<1> QED BY <1>6, <1>7, <1>8, <1>9, Zenon

\* The free pages area begins behind the last page, its i-th number 4 * i bytes
\* behind its counter; for i = 0, where (i - 1) * 4 wraps, the sum wraps back.
LEMMA AreaOffsets ==
    ASSUME SameWidth, NEW last \in 0..MaxPages
    PROVE  /\ getFreePagesInfoAreaOfs(last) = AreaOfs(last)
           /\ \A i \in 0..MaxPages : getLastFreePageNumOfs(last, i) = AreaOfs(last) + 4 * i
           /\ \A i \in 0..MaxPages - 1 :
                 NextFreePageNumOfs(last, i) = AreaOfs(last) + 4 * (i + 1)
<1>1. /\ UMod \in Nat \ {0} /\ MaxPages \in Nat \ {0} /\ AreaOfs(MaxPages) \in Nat
      /\ AreaOfs(MaxPages) + 4 + MaxPages * 4 < UMod
      /\ AreaOfs(last) \in Nat /\ AreaOfs(last) = PageOfs(last + 1)
      /\ AreaOfs(last) <= AreaOfs(MaxPages)
  BY Layout
<1>2. AreaOfs(last) + 4 + MaxPages * 4 < UMod /\ WORD_SZ = 4
  BY <1>1 DEF WORD_SZ
<1>3. getFreePagesInfoAreaOfs(last) = AreaOfs(last)
  <2>1. last + 1 \in 1..MaxPages + 1
    BY <1>1
  <2> QED BY <1>1, <2>1, PageOffsets DEF getFreePagesInfoAreaOfs
<1>4. ASSUME NEW i \in 0..MaxPages
      PROVE  getLastFreePageNumOfs(last, i) = AreaOfs(last) + 4 * i
  <2>1. getLastFreePageNumOfs(last, i) = (AreaOfs(last) + 4 + (((i - 1) * 4) % UMod)) % UMod
    <3>1. getLastFreePageNumOfs(last, i)
             = (getFreePagesInfoAreaOfs(last) + WORD_SZ + (((i - 1) * WORD_SZ) % UMod)) % UMod
      <4>1. getLastFreePageNumOfs(last, i)
               = ULongOf(getFreePagesInfoAreaOfs(last) + WORD_SZ + (((i - 1) * WORD_SZ) % UMod))
        BY Zenon DEF getLastFreePageNumOfs, UIntOf
      <4> QED BY <4>1, OneWidth, Zenon
    <3> QED BY <1>2, <1>3, <3>1, Zenon
  <2>2. CASE i = 0
    <3>1. ((i - 1) * 4) % UMod = UMod - 4
      <4>1. (i - 1) * 4 = -4 /\ -4 \in Int /\ 4 < UMod
        BY <1>1, <1>2, <2>2
      <4>2. (-4) % UMod = UMod - 4
        BY ONLY <4>1, <1>1
      <4> QED BY <4>1, <4>2, Zenon
    <3>2. (AreaOfs(last) + UMod) % UMod = AreaOfs(last)
      <4>1. AreaOfs(last) < UMod
        BY <1>1, <1>2
      <4> QED BY ONLY <1>1, <4>1
    <3>3. AreaOfs(last) + 4 + (UMod - 4) = AreaOfs(last) + UMod
      BY <1>1, <1>2
    <3>4. AreaOfs(last) + 4 * i = AreaOfs(last)
      BY <1>1, <2>2
    <3>5. getLastFreePageNumOfs(last, i) = (AreaOfs(last) + 4 + (UMod - 4)) % UMod
      BY <2>1, <3>1, Zenon
    <3>6. getLastFreePageNumOfs(last, i) = (AreaOfs(last) + UMod) % UMod
      BY <3>3, <3>5, Zenon
    <3> QED BY <3>2, <3>4, <3>6, Zenon
  <2>3. CASE i # 0
    <3>1. (i - 1) * 4 \in Nat /\ (i - 1) * 4 < UMod
      BY <1>1, <1>2, <2>3
    <3>2. ((i - 1) * 4) % UMod = (i - 1) * 4
      BY ONLY <1>1, <3>1
    <3>3. AreaOfs(last) + 4 + (i - 1) * 4 = AreaOfs(last) + 4 * i
      BY <1>1
    <3>4. AreaOfs(last) + 4 * i \in Nat /\ AreaOfs(last) + 4 * i < UMod
      BY <1>1, <1>2
    <3>5. (AreaOfs(last) + 4 * i) % UMod = AreaOfs(last) + 4 * i
      BY ONLY <1>1, <3>4
    <3> QED BY <2>1, <3>2, <3>3, <3>5, Zenon
  <2> QED BY <2>2, <2>3
<1>5. ASSUME NEW i \in 0..MaxPages - 1
      PROVE  NextFreePageNumOfs(last, i) = AreaOfs(last) + 4 * (i + 1)
  <2>1. i \in 0..MaxPages
    BY <1>1
  <2>2. NextFreePageNumOfs(last, i) = (AreaOfs(last) + 4 * i + 4) % UMod
    BY <1>2, <1>4, <2>1, Zenon DEF NextFreePageNumOfs, ULongOf, SameWidth
  <2>3. /\ AreaOfs(last) + 4 * i + 4 \in Nat /\ AreaOfs(last) + 4 * i + 4 < UMod
        /\ AreaOfs(last) + 4 * i + 4 = AreaOfs(last) + 4 * (i + 1)
    BY <1>1, <1>2
  <2>4. (AreaOfs(last) + 4 * i + 4) % UMod = AreaOfs(last) + 4 * i + 4
    BY ONLY <1>1, <2>3
  <2> QED BY <2>2, <2>3, <2>4
<1> QED BY <1>3, <1>4, <1>5

-------------------------------------------------------------------------------
(* The stream. *)

\* The extents of a file are not empty and do not overlap.
Sound(f) ==
    /\ \A e \in f : e.ofs \in Nat /\ e.len \in Nat \ {0}
    /\ \A e, g \in f : e = g \/ Apart(e, g.ofs, g.len)

\* A write leaves a sound file, with what was written in it.
LEMMA WriteIsSound ==
    ASSUME NEW f, Sound(f), NEW o \in Nat, NEW n \in Nat \ {0}, NEW v
    PROVE  Sound(WriteAt(f, o, n, v)) /\ Extent(o, n, v) \in WriteAt(f, o, n, v)
<1> DEFINE x == Extent(o, n, v)
           w == WriteAt(f, o, n, v)
<1>1. x.ofs = o /\ x.len = n
  BY DEF Extent
<1>2. x \in w /\ \A e \in w : e = x \/ (e \in f /\ Apart(e, o, n))
  BY DEF WriteAt
<1>3. \A e \in w : e.ofs \in Nat /\ e.len \in Nat \ {0}
  BY <1>1, <1>2 DEF Sound
<1>4. ASSUME NEW e \in w, NEW g \in w
      PROVE  e = g \/ Apart(e, g.ofs, g.len)
  <2>1. CASE e = x /\ g # x
    BY <1>1, <1>2, <1>3, <2>1 DEF Apart
  <2>2. CASE g = x
    BY <1>1, <1>2, <2>2
  <2>3. CASE e # x /\ g # x
    BY <1>2, <2>3 DEF Sound
  <2> QED BY <2>1, <2>2, <2>3
<1> QED BY <1>2, <1>3, <1>4 DEF Sound

\* A write keeps the extents that lie apart from it.
LEMMA WriteKeeps ==
    ASSUME NEW f, NEW o, NEW n, NEW v, NEW o1, NEW n1, NEW v1,
           Extent(o1, n1, v1) \in f, o1 + n1 <= o \/ o + n <= o1
    PROVE  Extent(o1, n1, v1) \in WriteAt(f, o, n, v)
BY DEF WriteAt, Apart, Extent

\* A read returns what the extent at its place holds.
LEMMA ReadReturns ==
    ASSUME NEW f, Sound(f), NEW o \in Nat, NEW n \in Nat \ {0}, NEW v, Extent(o, n, v) \in f
    PROVE  ReadAt(f, o, n) = {v}
<1> DEFINE x == Extent(o, n, v)
<1>1. x \in f /\ x.ofs = o /\ x.len = n /\ x.val = v
  BY DEF Extent
<1>2. \A e \in f : e.ofs = o /\ e.len = n => e = x
  BY <1>1 DEF Sound, Apart
<1>3. {e \in f : e.ofs = o /\ e.len = n} = {x}
  BY <1>1, <1>2
<1>4. ReadAt(f, o, n) = {e.val : e \in {e \in f : e.ofs = o /\ e.len = n}}
  BY <1>1 DEF ReadAt
<1>5. ReadAt(f, o, n) = {e.val : e \in {x}}
  BY <1>3, <1>4
<1> QED BY <1>1, <1>5

-------------------------------------------------------------------------------
(* The inductive invariant. *)

\* File f holds the page counter, the root page number, the pages h in use and,
\* behind the last page, the stack S of free page numbers.
Laid(f, last, root, h, S) ==
    /\ Sound(f)
    /\ Extent(8, 4, last) \in f
    /\ Extent(12, 4, root) \in f
    /\ \A p \in DOMAIN h : Extent(PageOfs(p), NodePageSize, h[p]) \in f
    /\ \A i \in 1..Len(S) : Extent(AreaOfs(last) + 4 * i, 4, S[i]) \in f

\* The free pages counter in front of them tells how many there are.
Stored(f, last, root, h, S) ==
    /\ Laid(f, last, root, h, S)
    /\ Extent(AreaOfs(last), 4, Len(S)) \in f

\* Each page from first to last is either in use or on the stack S, once.
Accounted(first, last, h, S) ==
    /\ first \in 1..MaxPages /\ last \in first..MaxPages
    /\ h \in [DOMAIN h -> Contents] /\ DOMAIN h \subseteq first..last
    /\ S \in Seq(first..last)
    /\ \A i, j \in 1..Len(S) : i # j => S[i] # S[j]
    /\ \A i \in 1..Len(S) : S[i] \notin DOMAIN h
    /\ \A p \in first..last : p \in DOMAIN h \/ \E i \in 1..Len(S) : S[i] = p

FileInv ==
    /\ good = TRUE
    /\ rootPageNum \in DOMAIN held
    /\ freePagesCounter = Len(FreePageNums)
    /\ Stored(file, lastPageNum, rootPageNum, held, FreePageNums)
    /\ Accounted(firstPage, lastPageNum, held, FreePageNums)

-------------------------------------------------------------------------------
(* What the writes of the operations do to the file. *)

\* Where the records of the file lie: both counters in front of the pages, the
\* pages in front of the free pages area.
LEMMA Places ==
    ASSUME NEW last \in 0..MaxPages
    PROVE  /\ AreaOfs(last) \in Nat /\ AreaOfs(last) >= 16
           /\ NodePageSize \in Nat \ {0}
           /\ \A p \in 1..last : /\ PageOfs(p) \in Nat /\ PageOfs(p) >= 16
                                 /\ PageOfs(p) + NodePageSize <= AreaOfs(last)
<1>1. AreaOfs(last) \in Nat /\ AreaOfs(last) >= 16 /\ AreaOfs(last) = PageOfs(last + 1)
      /\ NodePageSize \in Nat \ {0} /\ MaxPages \in Nat
  BY Layout
<1>2. ASSUME NEW p \in 1..last
      PROVE  /\ PageOfs(p) \in Nat /\ PageOfs(p) >= 16
             /\ PageOfs(p) + NodePageSize <= AreaOfs(last)
  <2>1. last + 1 \in 1..MaxPages + 1 /\ p \in 1..MaxPages + 1 /\ p < last + 1
    BY <1>1
  <2>2. PageOfs(p) + NodePageSize <= PageOfs(last + 1)
    BY <2>1, Layout
  <2> QED BY <1>1, <2>1, <2>2, Layout
<1> QED BY <1>1, <1>2

\* A page is rewritten in place; the free pages area stays.
LEMMA StoredPage ==
    ASSUME NEW f, NEW last \in 1..MaxPages, NEW root, NEW h, NEW S \in Seq(Int),
           Stored(f, last, root, h, S), DOMAIN h \subseteq 1..last,
           NEW p \in 1..last, NEW c
    PROVE  Stored(WriteAt(f, PageOfs(p), NodePageSize, c), last, root, Put(h, p, c), S)
<1> DEFINE g == WriteAt(f, PageOfs(p), NodePageSize, c)
<1>1. /\ PageOfs(p) \in Nat /\ PageOfs(p) >= 16 /\ NodePageSize \in Nat \ {0}
      /\ PageOfs(p) + NodePageSize <= AreaOfs(last) /\ AreaOfs(last) \in Nat
  <2>1. last \in 0..MaxPages
    BY SizesAssumption
  <2> QED BY <2>1, Places
<1>2. Sound(g) /\ Extent(PageOfs(p), NodePageSize, c) \in g
  BY <1>1, WriteIsSound DEF Stored, Laid
<1>3. Extent(8, 4, last) \in g /\ Extent(12, 4, root) \in g
  BY <1>1, WriteKeeps DEF Stored, Laid
<1>4. ASSUME NEW q \in DOMAIN Put(h, p, c)
      PROVE  Extent(PageOfs(q), NodePageSize, Put(h, p, c)[q]) \in g
  <2>1. CASE q = p
    BY <1>2, <2>1 DEF Put
  <2>2. CASE q # p
    <3>1. q \in DOMAIN h /\ Put(h, p, c)[q] = h[q]
      BY <2>2 DEF Put
    <3>2. q \in 1..MaxPages + 1 /\ p \in 1..MaxPages + 1 /\ (q < p \/ p < q)
      BY <2>2, <3>1, Layout
    <3>3. PageOfs(q) + NodePageSize <= PageOfs(p) \/ PageOfs(p) + NodePageSize <= PageOfs(q)
      BY <3>2, Layout
    <3> QED BY <3>1, <3>3, WriteKeeps DEF Stored, Laid
  <2> QED BY <2>1, <2>2
<1>5. ASSUME NEW i \in 1..Len(S)
      PROVE  Extent(AreaOfs(last) + 4 * i, 4, S[i]) \in g
  <2>1. PageOfs(p) + NodePageSize <= AreaOfs(last) + 4 * i
    BY <1>1
  <2> QED BY <2>1, WriteKeeps DEF Stored, Laid
<1>6. Extent(AreaOfs(last), 4, Len(S)) \in g
  BY <1>1, WriteKeeps DEF Stored
<1> QED BY <1>2, <1>3, <1>4, <1>5, <1>6 DEF Stored, Laid

\* The root page number is rewritten in place.
LEMMA StoredRoot ==
    ASSUME NEW f, NEW last \in 0..MaxPages, NEW root, NEW h, NEW S \in Seq(Int),
           Laid(f, last, root, h, S), DOMAIN h \subseteq 1..last, NEW r
    PROVE  /\ Laid(writeRootPageNum(f, r), last, r, h, S)
           /\ Stored(f, last, root, h, S) => Stored(writeRootPageNum(f, r), last, r, h, S)
<1> DEFINE g == WriteAt(f, 12, 4, r)
<1>1. writeRootPageNum(f, r) = g
  BY DEF writeRootPageNum, ROOT_PAGE_NUM_OFS, PAGE_COUNTER_OFS, HEADER_SIZE, WORD_SZ
<1>2. Sound(g) /\ Extent(12, 4, r) \in g
  BY WriteIsSound DEF Laid
<1>3. Extent(8, 4, last) \in g
  BY WriteKeeps DEF Laid
<1>4. ASSUME NEW q \in DOMAIN h
      PROVE  Extent(PageOfs(q), NodePageSize, h[q]) \in g
  <2>1. 12 + 4 <= PageOfs(q)
    BY Places
  <2> QED BY <2>1, WriteKeeps DEF Laid
<1>5. ASSUME NEW i \in 1..Len(S)
      PROVE  Extent(AreaOfs(last) + 4 * i, 4, S[i]) \in g
  <2>1. 12 + 4 <= AreaOfs(last) + 4 * i
    BY Places
  <2> QED BY <2>1, WriteKeeps DEF Laid
<1>6. Extent(AreaOfs(last), 4, Len(S)) \in f => Extent(AreaOfs(last), 4, Len(S)) \in g
  <2>1. 12 + 4 <= AreaOfs(last)
    BY Places
  <2> QED BY <2>1, WriteKeeps
<1>7. Laid(g, last, r, h, S)
  BY <1>2, <1>3, <1>4, <1>5 DEF Laid
<1> QED BY <1>1, <1>6, <1>7 DEF Stored

\* writeFreePagesCounter() completes the free pages area.
LEMMA StoredCounter ==
    ASSUME SameWidth,
           NEW f, NEW last \in 0..MaxPages, NEW root, NEW h, NEW S \in Seq(Int),
           Laid(f, last, root, h, S), DOMAIN h \subseteq 1..last
    PROVE  Stored(writeFreePagesCounter(f, last, Len(S)), last, root, h, S)
<1> DEFINE g == WriteAt(f, AreaOfs(last), 4, Len(S))
<1>1. writeFreePagesCounter(f, last, Len(S)) = g
  BY AreaOffsets DEF writeFreePagesCounter, WORD_SZ
<1>2. AreaOfs(last) \in Nat /\ AreaOfs(last) >= 16
  BY Places
<1>3. Sound(g) /\ Extent(AreaOfs(last), 4, Len(S)) \in g
  BY <1>2, WriteIsSound DEF Laid
<1>4. Extent(8, 4, last) \in g /\ Extent(12, 4, root) \in g
  BY <1>2, WriteKeeps DEF Laid
<1>5. ASSUME NEW q \in DOMAIN h
      PROVE  Extent(PageOfs(q), NodePageSize, h[q]) \in g
  <2>1. PageOfs(q) + NodePageSize <= AreaOfs(last)
    BY Places
  <2> QED BY <2>1, WriteKeeps DEF Laid
<1>6. ASSUME NEW i \in 1..Len(S)
      PROVE  Extent(AreaOfs(last) + 4 * i, 4, S[i]) \in g
  <2>1. AreaOfs(last) + 4 <= AreaOfs(last) + 4 * i
    BY <1>2
  <2> QED BY <2>1, WriteKeeps DEF Laid
<1> QED BY <1>1, <1>3, <1>4, <1>5, <1>6 DEF Stored, Laid

\* allocPageInternal() puts a page over an empty free pages area, whatever page
\* counter the file had before.
LEMMA LaidGrown ==
    ASSUME SameWidth,
           NEW f, NEW last \in 0..MaxPages - 1, NEW root, NEW h, Sound(f),
           Extent(12, 4, root) \in f, DOMAIN h \subseteq 1..last,
           \A p \in DOMAIN h : Extent(PageOfs(p), NodePageSize, h[p]) \in f,
           NEW c
    PROVE  Laid(allocPageInternal(f, last, c), last + 1, root, Put(h, last + 1, c), <<>>)
<1> DEFINE g1 == WriteAt(f, AreaOfs(last), NodePageSize, c)
           g == WriteAt(g1, 8, 4, last + 1)
<1>1. last \in 0..MaxPages
  BY Layout
<1>2. allocPageInternal(f, last, c) = g
  BY <1>1, AreaOffsets
  DEF allocPageInternal, writePageCounter, PAGE_COUNTER_OFS, HEADER_SIZE, WORD_SZ
<1>3. AreaOfs(last) \in Nat /\ AreaOfs(last) >= 16 /\ NodePageSize \in Nat \ {0}
  BY <1>1, Places
<1>4. Sound(g1) /\ Extent(AreaOfs(last), NodePageSize, c) \in g1
  BY <1>3, WriteIsSound
<1>5. Sound(g) /\ Extent(8, 4, last + 1) \in g
  BY <1>4, WriteIsSound
<1>6. Extent(12, 4, root) \in g
  <2>1. Extent(12, 4, root) \in g1
    BY <1>3, WriteKeeps
  <2> QED BY <2>1, WriteKeeps
<1>7. ASSUME NEW q \in DOMAIN Put(h, last + 1, c)
      PROVE  Extent(PageOfs(q), NodePageSize, Put(h, last + 1, c)[q]) \in g
  <2>1. CASE q = last + 1
    <3>1. PageOfs(q) = AreaOfs(last) /\ Put(h, last + 1, c)[q] = c
      BY <1>1, <2>1, Layout DEF Put
    <3>2. 8 + 4 <= AreaOfs(last)
      BY <1>3
    <3>3. Extent(AreaOfs(last), NodePageSize, c) \in g
      BY <1>4, <3>2, WriteKeeps
    <3> QED BY <3>1, <3>3
  <2>2. CASE q # last + 1
    <3>1. q \in DOMAIN h /\ Put(h, last + 1, c)[q] = h[q]
      BY <2>2 DEF Put
    <3>2. PageOfs(q) + NodePageSize <= AreaOfs(last) /\ 8 + 4 <= PageOfs(q)
      BY <1>1, <3>1, Places
    <3>3. Extent(PageOfs(q), NodePageSize, h[q]) \in g1
      BY <3>1, <3>2, WriteKeeps
    <3> QED BY <3>1, <3>2, <3>3, WriteKeeps
  <2> QED BY <2>1, <2>2
<1> QED BY <1>2, <1>5, <1>6, <1>7 DEF Laid

\* markPageFree() records a page number behind the others.
LEMMA LaidPushed ==
    ASSUME SameWidth,
           NEW f, NEW last \in 1..MaxPages, NEW root, NEW h, NEW S \in Seq(Int),
           Laid(f, last, root, h, S), DOMAIN h \subseteq 1..last, Len(S) < MaxPages,
           NEW x \in Int
    PROVE  Laid(WriteAt(f, NextFreePageNumOfs(last, Len(S)), WORD_SZ, x),
                last, root, [q \in DOMAIN h \ {x} |-> h[q]], Append(S, x))
<1> DEFINE o == AreaOfs(last) + 4 * (Len(S) + 1)
           g == WriteAt(f, o, 4, x)
           k == [q \in DOMAIN h \ {x} |-> h[q]]
<1>1. last \in 0..MaxPages /\ Len(S) \in 0..MaxPages - 1
  <2>1. Len(S) \in Nat
    OBVIOUS
  <2> QED BY <2>1, SizesAssumption
<1>2. WriteAt(f, NextFreePageNumOfs(last, Len(S)), WORD_SZ, x) = g
  BY <1>1, AreaOffsets DEF WORD_SZ
<1>3. AreaOfs(last) \in Nat /\ AreaOfs(last) >= 16 /\ o \in Nat /\ o >= AreaOfs(last) + 4
  BY <1>1, Places
<1>4. Sound(g) /\ Extent(o, 4, x) \in g
  BY <1>3, WriteIsSound DEF Laid
<1>5. Extent(8, 4, last) \in g /\ Extent(12, 4, root) \in g
  BY <1>3, WriteKeeps DEF Laid
<1>6. ASSUME NEW q \in DOMAIN k
      PROVE  Extent(PageOfs(q), NodePageSize, k[q]) \in g
  <2>1. q \in DOMAIN h /\ k[q] = h[q]
    OBVIOUS
  <2>2. PageOfs(q) \in Nat /\ PageOfs(q) + NodePageSize <= AreaOfs(last)
        /\ NodePageSize \in Nat
    BY <1>1, <2>1, Places
  <2>3. PageOfs(q) + NodePageSize <= o
    BY <1>3, <2>2
  <2> QED BY <2>1, <2>3, WriteKeeps DEF Laid
<1>7. ASSUME NEW i \in 1..Len(Append(S, x))
      PROVE  Extent(AreaOfs(last) + 4 * i, 4, Append(S, x)[i]) \in g
  <2>1. CASE i = Len(S) + 1
    BY <1>4, <2>1
  <2>2. CASE i # Len(S) + 1
    <3>1. i \in 1..Len(S) /\ Append(S, x)[i] = S[i]
      BY <2>2
    <3>2. AreaOfs(last) + 4 * i + 4 <= o
      BY <1>3, <3>1
    <3> QED BY <3>1, <3>2, WriteKeeps DEF Laid
  <2> QED BY <2>1, <2>2
<1> QED BY <1>2, <1>4, <1>5, <1>6, <1>7 DEF Laid

-------------------------------------------------------------------------------
(* What the operations do to the accounts. *)

\* The stack of free pages fits into the file, and has room for a page in use.
LEMMA StackFits ==
    ASSUME NEW first, NEW last, NEW h, NEW S, Accounted(first, last, h, S)
    PROVE  Len(S) \in 0..MaxPages /\ (DOMAIN h # {} => Len(S) < MaxPages)
<1>1. /\ first \in 1..MaxPages /\ last \in first..MaxPages /\ MaxPages \in Nat
      /\ S \in Seq(first..last) /\ Len(S) \in Nat
      /\ DOMAIN h \subseteq first..last
  BY SizesAssumption DEF Accounted
<1>2. ASSUME NEW n \in Nat
      PROVE  IsFiniteSet(1..n) /\ Cardinality(1..n) = n
  <2>1. /\ IsFiniteSet(1..n)
        /\ Cardinality(1..n) = IF 1 > n THEN 0 ELSE n - 1 + 1
    BY FS_Interval
  <2> QED BY <2>1
<1>3. IsFiniteSet(1..MaxPages) /\ Cardinality(1..MaxPages) = MaxPages
  BY <1>1, <1>2
<1>4. ~ \E i, j \in 1..Len(S) : i # j /\ S[i] = S[j]
  BY DEF Accounted
<1>5. Len(S) <= MaxPages
  <2>1. S \in [1..Len(S) -> 1..MaxPages]
    BY <1>1
  <2>2. IsFiniteSet(1..Len(S)) /\ Cardinality(1..Len(S)) = Len(S)
    BY <1>1, <1>2
  <2>3. ~ Cardinality(1..MaxPages) < Cardinality(1..Len(S))
    BY <1>3, <1>4, <2>1, <2>2, FS_PigeonHole
  <2> QED BY <1>1, <1>3, <2>2, <2>3
<1>6. ASSUME NEW p \in DOMAIN h
      PROVE  Len(S) < MaxPages
  <2>1. p \in 1..MaxPages
    BY <1>1
  <2>2. IsFiniteSet((1..MaxPages) \ {p}) /\ Cardinality((1..MaxPages) \ {p}) = MaxPages - 1
    BY <1>3, <2>1, FS_RemoveElement
  <2>3. S \in [1..Len(S) -> (1..MaxPages) \ {p}]
    BY <1>1 DEF Accounted
  <2>4. IsFiniteSet(1..Len(S)) /\ Cardinality(1..Len(S)) = Len(S)
    BY <1>1, <1>2
  <2>5. ~ Cardinality((1..MaxPages) \ {p}) < Cardinality(1..Len(S))
    BY <1>4, <2>2, <2>3, <2>4, FS_PigeonHole
  <2> QED BY <1>1, <2>2, <2>4, <2>5
<1> QED BY <1>1, <1>5, <1>6

\* A page in use moves to the stack.
LEMMA AccountedPush ==
    ASSUME NEW first, NEW last, NEW h, NEW S, Accounted(first, last, h, S),
           NEW p \in DOMAIN h
    PROVE  Accounted(first, last, [q \in DOMAIN h \ {p} |-> h[q]], Append(S, p))
<1> DEFINE k == [q \in DOMAIN h \ {p} |-> h[q]]
           T == Append(S, p)
<1>1. /\ S \in Seq(first..last) /\ p \in first..last /\ Len(S) \in Nat
      /\ h \in [DOMAIN h -> Contents]
  BY DEF Accounted
<1>2. /\ T \in Seq(first..last) /\ Len(T) = Len(S) + 1
      /\ \A i \in 1..Len(S) : T[i] = S[i]
      /\ T[Len(S) + 1] = p
  BY <1>1
<1>3. DOMAIN k = DOMAIN h \ {p} /\ k \in [DOMAIN k -> Contents]
  BY <1>1
<1>4. \A i \in 1..Len(T) : i \in 1..Len(S) \/ i = Len(S) + 1
  BY <1>1, <1>2
<1>5. \A i \in 1..Len(S) : S[i] # p
  BY DEF Accounted
<1>6. \A i, j \in 1..Len(T) : i # j => T[i] # T[j]
  BY <1>2, <1>4, <1>5 DEF Accounted
<1>7. \A i \in 1..Len(T) : T[i] \notin DOMAIN k
  BY <1>2, <1>3, <1>4 DEF Accounted
<1>8. ASSUME NEW q \in first..last
      PROVE  q \in DOMAIN k \/ \E i \in 1..Len(T) : T[i] = q
  <2>1. CASE q = p
    BY <1>1, <1>2, <2>1
  <2>2. CASE q # p /\ q \notin DOMAIN h
    <3>1. PICK i \in 1..Len(S) : S[i] = q
      BY <2>2 DEF Accounted
    <3>2. i \in 1..Len(T) /\ T[i] = q
      BY <1>1, <1>2, <3>1
    <3> QED BY <3>2
  <2> QED BY <1>3, <2>1, <2>2
<1>9. DOMAIN k \subseteq first..last /\ first \in 1..MaxPages /\ last \in first..MaxPages
  BY <1>3 DEF Accounted
<1> HIDE DEF k, T
<1>10. Accounted(first, last, k, T)
  BY <1>2, <1>3, <1>6, <1>7, <1>8, <1>9 DEF Accounted
<1> QED BY <1>10 DEF k, T

\* A stack without its top.
LEMMA Popped ==
    ASSUME NEW R, NEW S \in Seq(R), Len(S) > 0
    PROVE  /\ SubSeq(S, 1, Len(S) - 1) \in Seq(R)
           /\ Len(SubSeq(S, 1, Len(S) - 1)) = Len(S) - 1
           /\ \A i \in 1..Len(S) - 1 : SubSeq(S, 1, Len(S) - 1)[i] = S[i]
<1> DEFINE n == Len(S) - 1
<1>1. Len(S) \in Nat /\ 1 \in Int /\ n \in Int /\ n >= 0 /\ \A i \in 1..n : S[i] \in R
  OBVIOUS
<1> HIDE DEF n
<1>2. /\ SubSeq(S, 1, n) \in Seq(R)
      /\ Len(SubSeq(S, 1, n)) = IF 1 <= n THEN n - 1 + 1 ELSE 0
      /\ \A i \in 1..n - 1 + 1 : SubSeq(S, 1, n)[i] = S[1 + i - 1]
  BY <1>1, SubSeqProperties
<1>3. Len(SubSeq(S, 1, n)) = n
  BY <1>1, <1>2
<1>4. ASSUME NEW i \in 1..n
      PROVE  SubSeq(S, 1, n)[i] = S[i]
  <2>1. i \in 1..n - 1 + 1 /\ 1 + i - 1 = i
    BY <1>1
  <2> QED BY <1>2, <2>1
<1> QED BY <1>2, <1>3, <1>4 DEF n

\* The page on top of the stack is put to use.
LEMMA AccountedPop ==
    ASSUME NEW first, NEW last, NEW h, NEW S, Accounted(first, last, h, S),
           Len(S) > 0, NEW c \in Contents
    PROVE  /\ S[Len(S)] \in first..last
           /\ Accounted(first, last, Put(h, S[Len(S)], c), SubSeq(S, 1, Len(S) - 1))
<1> DEFINE p == S[Len(S)]
           k == Put(h, p, c)
           T == SubSeq(S, 1, Len(S) - 1)
<1>1. /\ S \in Seq(first..last) /\ Len(S) \in Nat /\ Len(S) \in 1..Len(S)
      /\ p \in first..last /\ h \in [DOMAIN h -> Contents]
  BY DEF Accounted
<1>2. /\ T \in Seq(first..last) /\ Len(T) = Len(S) - 1
      /\ \A i \in 1..Len(T) : T[i] = S[i] /\ i \in 1..Len(S) /\ i # Len(S)
  <2>1. T \in Seq(first..last) /\ Len(T) = Len(S) - 1 /\ \A i \in 1..Len(S) - 1 : T[i] = S[i]
    BY <1>1, Popped
  <2> HIDE DEF T
  <2> QED BY <1>1, <2>1
<1>3. DOMAIN k = DOMAIN h \cup {p} /\ k \in [DOMAIN k -> Contents]
  BY <1>1 DEF Put
<1>4. \A i, j \in 1..Len(T) : i # j => T[i] # T[j]
  BY <1>2 DEF Accounted
<1>5. \A i \in 1..Len(T) : T[i] \notin DOMAIN k
  BY <1>1, <1>2, <1>3 DEF Accounted
<1>6. ASSUME NEW q \in first..last
      PROVE  q \in DOMAIN k \/ \E i \in 1..Len(T) : T[i] = q
  <2>1. CASE q # p /\ q \notin DOMAIN h
    <3>1. PICK i \in 1..Len(S) : S[i] = q
      BY <2>1 DEF Accounted
    <3>2. i # Len(S)
      BY <2>1, <3>1
    <3>3. i \in 1..Len(T) /\ T[i] = q
      BY <1>1, <1>2, <3>1, <3>2
    <3> QED BY <3>3
  <2> QED BY <1>3, <2>1
<1>7. DOMAIN k \subseteq first..last /\ first \in 1..MaxPages /\ last \in first..MaxPages
  BY <1>1, <1>3 DEF Accounted
<1> HIDE DEF k, T
<1>8. Accounted(first, last, k, T)
  BY <1>2, <1>3, <1>4, <1>5, <1>6, <1>7 DEF Accounted
<1> QED BY <1>1, <1>8 DEF k, T

\* A page behind the last one is put to use.
LEMMA AccountedGrow ==
    ASSUME NEW first, NEW last, NEW h, Accounted(first, last, h, <<>>),
           last < MaxPages, NEW c \in Contents
    PROVE  Accounted(first, last + 1, Put(h, last + 1, c), <<>>)
<1> DEFINE k == Put(h, last + 1, c)
<1>1. /\ first \in 1..MaxPages /\ last \in first..MaxPages /\ MaxPages \in Nat
      /\ h \in [DOMAIN h -> Contents] /\ DOMAIN h \subseteq first..last
      /\ \A p \in first..last : p \in DOMAIN h
  BY SizesAssumption DEF Accounted
<1>2. DOMAIN k = DOMAIN h \cup {last + 1} /\ k \in [DOMAIN k -> Contents]
  BY <1>1 DEF Put
<1>3. last + 1 \in first..MaxPages /\ <<>> \in Seq(first..last + 1) /\ Len(<<>>) = 0
  BY <1>1
<1>4. DOMAIN k \subseteq first..last + 1 /\ \A p \in first..last + 1 : p \in DOMAIN k
  BY <1>1, <1>2
<1> HIDE DEF k
<1>5. Accounted(first, last + 1, k, <<>>)
  BY <1>1, <1>2, <1>3, <1>4 DEF Accounted
<1> QED BY <1>5 DEF k

\* A page in use is written again.
LEMMA AccountedWrite ==
    ASSUME NEW first, NEW last, NEW h, NEW S, Accounted(first, last, h, S),
           NEW p \in DOMAIN h, NEW c \in Contents
    PROVE  Accounted(first, last, Put(h, p, c), S)
<1>1. DOMAIN Put(h, p, c) = DOMAIN h
  BY DEF Put
<1>2. Put(h, p, c) \in [DOMAIN h -> Contents]
  BY DEF Put, Accounted
<1> QED BY <1>1, <1>2 DEF Accounted

\* A new file has one page.
LEMMA AccountedNew ==
    ASSUME NEW n \in 1..MaxPages, NEW c \in Contents
    PROVE  Accounted(n, n, [p \in {n} |-> c], <<>>)
BY SizesAssumption DEF Accounted

-------------------------------------------------------------------------------
(* The invariant. *)

\* The numbers in the free pages area of file f.
FreeNums(f, last, n) ==
    [i \in 1..n |-> CHOOSE x \in ReadAt(f, getLastFreePageNumOfs(last, i), WORD_SZ) : TRUE]

\* The free pages area is read back as the stack that was laid there.
LEMMA FreeStack ==
    ASSUME SameWidth,
           NEW f, NEW first, NEW last, NEW root, NEW h, NEW S,
           Laid(f, last, root, h, S), Accounted(first, last, h, S)
    PROVE  FreeNums(f, last, Len(S)) = S
<1>1. /\ last \in 0..MaxPages /\ Len(S) \in 0..MaxPages /\ S \in Seq(first..last)
      /\ MaxPages \in Nat
  <2>1. Len(S) \in 0..MaxPages
    BY StackFits
  <2> QED BY <2>1, SizesAssumption DEF Accounted
<1>2. ASSUME NEW i \in 1..Len(S)
      PROVE  (CHOOSE x \in ReadAt(f, getLastFreePageNumOfs(last, i), WORD_SZ) : TRUE) = S[i]
  <2>1. i \in 0..MaxPages /\ AreaOfs(last) + 4 * i \in Nat
    <3>1. AreaOfs(last) \in Nat
      BY <1>1, Places
    <3> QED BY <1>1, <3>1
  <2>2. getLastFreePageNumOfs(last, i) = AreaOfs(last) + 4 * i
    BY <1>1, <2>1, AreaOffsets
  <2>3. Extent(AreaOfs(last) + 4 * i, 4, S[i]) \in f /\ Sound(f) /\ 4 \in Nat \ {0}
    BY DEF Laid
  <2>4. ReadAt(f, AreaOfs(last) + 4 * i, 4) = {S[i]}
    BY <2>1, <2>3, ReadReturns
  <2>5. ReadAt(f, getLastFreePageNumOfs(last, i), WORD_SZ) = {S[i]}
    BY <2>2, <2>4 DEF WORD_SZ
  <2> QED BY <2>5
<1>3. FreeNums(f, last, Len(S)) = [i \in 1..Len(S) |-> S[i]]
  BY <1>2, Zenon DEF FreeNums
<1>4. S = [i \in 1..Len(S) |-> S[i]]
  BY <1>1
<1> QED BY <1>3, <1>4

\* The state after a step satisfies the invariant, with stack S, once its file
\* and its accounts do.
LEMMA InvNext ==
    ASSUME SameWidth, NEW S,
           good', rootPageNum' \in DOMAIN held', freePagesCounter' = Len(S),
           Stored(file', lastPageNum', rootPageNum', held', S),
           Accounted(firstPage', lastPageNum', held', S)
    PROVE  FileInv' /\ FreePageNums' = S
<1>1. FreePageNums' = FreeNums(file', lastPageNum', Len(S))
  BY DEF FreePageNums, FreeNums
<1>2. FreePageNums' = S
  BY <1>1, FreeStack DEF Stored
<1> QED BY <1>2 DEF FileInv

\* The file that createTree() leaves.
LEMMA InvInit ==
    ASSUME SameWidth, FileInit
    PROVE  FileInv /\ FreePageNums = <<>>
<1> DEFINE E == Extent(0, 8, "header")
           f1 == writeRootPageNum(writePageCounter({E}, 0), 0)
           none == [p \in {} |-> 0]
<1>1. PICK c \in Contents : /\ file = createTree(c) /\ lastPageNum = 1 /\ rootPageNum = 1
                            /\ freePagesCounter = 0 /\ held = [p \in {1} |-> c]
  BY DEF FileInit, Init
<1>2. /\ MaxPages \in Nat /\ 1 \in 1..MaxPages /\ 0 \in 0..MaxPages - 1 /\ 1 \in 0..MaxPages
      /\ <<>> \in Seq(Int) /\ Len(<<>>) = 0
  BY SizesAssumption
<1>3. Sound({E})
  BY DEF Sound, Extent
<1>4. Sound(f1) /\ Extent(12, 4, 0) \in f1
  <2>1. Sound(writePageCounter({E}, 0))
    BY <1>3, WriteIsSound DEF writePageCounter, PAGE_COUNTER_OFS, HEADER_SIZE, WORD_SZ
  <2> QED BY <2>1, WriteIsSound
          DEF writeRootPageNum, ROOT_PAGE_NUM_OFS, PAGE_COUNTER_OFS, HEADER_SIZE, WORD_SZ
<1>5. Put(none, 0 + 1, c) = held /\ DOMAIN held = {1} /\ DOMAIN held \subseteq 1..1
  BY <1>1 DEF Put
<1> DEFINE f2 == allocPageInternal(f1, 0, c)
           f3 == writeFreePagesCounter(f2, 1, 0)
           f4 == writeRootPageNum(f3, 1)
<1>6. file = writeFreePagesCounter(f4, 1, 0)
  BY <1>1 DEF createTree, HEADER_SIZE
<1> HIDE DEF f1
<1>7. Laid(f2, 1, 0, held, <<>>)
  <2>1. Laid(f2, 0 + 1, 0, Put(none, 0 + 1, c), <<>>)
    BY <1>2, <1>4, LaidGrown
  <2> QED BY <1>5, <2>1
<1> HIDE DEF f2
<1>8. Laid(f3, 1, 0, held, <<>>)
  <2>1. Stored(writeFreePagesCounter(f2, 1, Len(<<>>)), 1, 0, held, <<>>)
    BY <1>2, <1>5, <1>7, StoredCounter, Zenon
  <2> QED BY <1>2, <2>1 DEF Stored
<1> HIDE DEF f3
<1>9. Laid(f4, 1, 1, held, <<>>)
  BY <1>2, <1>5, <1>8, StoredRoot, Zenon
<1> HIDE DEF f4
<1>10. Stored(file, 1, 1, held, <<>>)
  <2>1. Stored(writeFreePagesCounter(f4, 1, Len(<<>>)), 1, 1, held, <<>>)
    BY <1>2, <1>5, <1>9, StoredCounter, Zenon
  <2> QED BY <1>2, <1>6, <2>1
<1>11. Accounted(1, 1, held, <<>>)
  BY <1>1, <1>2, AccountedNew
<1>12. FreePageNums = FreeNums(file, 1, Len(<<>>))
  BY <1>1, <1>2 DEF FreePageNums, FreeNums
<1>13. FreePageNums = <<>>
  BY <1>10, <1>11, <1>12, FreeStack DEF Stored
<1> QED BY <1>1, <1>2, <1>5, <1>10, <1>11, <1>13 DEF FileInv, FileInit

\* What the invariant says of a state, in the form the operations need.
LEMMA InvFacts ==
    ASSUME FileInv
    PROVE  /\ good = TRUE /\ rootPageNum \in DOMAIN held
           /\ freePagesCounter = Len(FreePageNums)
           /\ Stored(file, lastPageNum, rootPageNum, held, FreePageNums)
           /\ Laid(file, lastPageNum, rootPageNum, held, FreePageNums)
           /\ Accounted(firstPage, lastPageNum, held, FreePageNums)
           /\ lastPageNum \in 1..MaxPages /\ lastPageNum \in 0..MaxPages
           /\ firstPage \in 1..MaxPages /\ MaxPages \in Nat
           /\ DOMAIN held \subseteq 1..lastPageNum
           /\ FreePageNums \in Seq(Int)
           /\ FreePageNums \in Seq(firstPage..lastPageNum)
           /\ Len(FreePageNums) \in 0..MaxPages
           /\ Len(FreePageNums) < MaxPages
           /\ freePagesCounter = 0 <=> FreePageNums = <<>>
<1>1. Accounted(firstPage, lastPageNum, held, FreePageNums)
  BY DEF FileInv
<1>2. Len(FreePageNums) \in 0..MaxPages /\ Len(FreePageNums) < MaxPages
  BY <1>1, StackFits DEF FileInv
<1>3. /\ FreePageNums \in Seq(firstPage..lastPageNum)
      /\ firstPage \in 1..MaxPages /\ lastPageNum \in firstPage..MaxPages /\ MaxPages \in Nat
      /\ DOMAIN held \subseteq firstPage..lastPageNum
  BY <1>1, SizesAssumption DEF Accounted
<1>4. /\ lastPageNum \in 1..MaxPages /\ lastPageNum \in 0..MaxPages
      /\ DOMAIN held \subseteq 1..lastPageNum
  BY <1>3
<1>5. FreePageNums \in Seq(Int) /\ (Len(FreePageNums) = 0 <=> FreePageNums = <<>>)
  BY <1>3
<1> QED BY <1>1, <1>2, <1>3, <1>4, <1>5 DEF FileInv, Stored

\* SetAsRoot is the SetRoot of the page store.
LEMMA SetAsRootStep ==
    ASSUME SameWidth, FileInv, NEW p \in DOMAIN held, SetAsRoot(p), UNCHANGED fileVars
    PROVE  FileInv' /\ PageStore!SetRoot(p)
<1> DEFINE S == FreePageNums
<1>1. Stored(file', lastPageNum, p, held, S)
  BY InvFacts, StoredRoot DEF SetAsRoot
<1>2. /\ rootPageNum' = p /\ lastPageNum' = lastPageNum /\ held' = held
      /\ freePagesCounter' = freePagesCounter /\ firstPage' = firstPage /\ good' = good
  BY DEF SetAsRoot, fileVars
<1> HIDE DEF S
<1>3. /\ good' /\ rootPageNum' \in DOMAIN held' /\ freePagesCounter' = Len(S)
      /\ Stored(file', lastPageNum', rootPageNum', held', S)
      /\ Accounted(firstPage', lastPageNum', held', S)
  BY <1>1, <1>2, InvFacts DEF S
<1>4. FileInv' /\ FreePageNums' = S
  BY <1>3, InvNext
<1> QED BY <1>2, <1>4 DEF PageStore!SetRoot, S

\* WritePage is the Write of the page store.
LEMMA WritePageStep ==
    ASSUME SameWidth, FileInv, NEW p \in DOMAIN held, NEW c \in Contents,
           WritePage(p, c), UNCHANGED fileVars
    PROVE  FileInv' /\ PageStore!Write(p, c)
<1> DEFINE S == FreePageNums
<1>1. p \in 1..lastPageNum /\ p \in 1..MaxPages + 1
  BY InvFacts
<1>2. file' = WriteAt(file, PageOfs(p), NodePageSize, c)
  BY <1>1, PageOffsets DEF WritePage
<1>3. Stored(file', lastPageNum, rootPageNum, Put(held, p, c), S)
  BY <1>1, <1>2, InvFacts, StoredPage
<1>4. Accounted(firstPage, lastPageNum, Put(held, p, c), S)
  BY InvFacts, AccountedWrite
<1>5. /\ rootPageNum' = rootPageNum /\ lastPageNum' = lastPageNum /\ held' = Put(held, p, c)
      /\ freePagesCounter' = freePagesCounter /\ firstPage' = firstPage /\ good' = good
      /\ DOMAIN held' = DOMAIN held \cup {p}
  BY DEF WritePage, fileVars, Put
<1> HIDE DEF S
<1>6. /\ good' /\ rootPageNum' \in DOMAIN held' /\ freePagesCounter' = Len(S)
      /\ Stored(file', lastPageNum', rootPageNum', held', S)
      /\ Accounted(firstPage', lastPageNum', held', S)
  BY <1>3, <1>4, <1>5, InvFacts DEF S
<1>7. FileInv' /\ FreePageNums' = S
  BY <1>6, InvNext
<1> QED BY <1>5, <1>7 DEF PageStore!Write, PageStore!Put, Put, S

\* MarkPageFree is the Free of the page store.
LEMMA MarkPageFreeStep ==
    ASSUME SameWidth, FileInv, NEW p \in DOMAIN held, MarkPageFree(p), UNCHANGED fileVars
    PROVE  FileInv' /\ PageStore!Free(p)
<1> DEFINE S == FreePageNums
           T == Append(S, p)
           k == [q \in DOMAIN held \ {p} |-> held[q]]
           f == WriteAt(file, NextFreePageNumOfs(lastPageNum, Len(S)), WORD_SZ, p)
<1>1. p \in Int /\ DOMAIN k \subseteq 1..lastPageNum /\ DOMAIN k = DOMAIN held \ {p}
  BY InvFacts
<1>2. T \in Seq(Int) /\ Len(T) = Len(S) + 1
  BY <1>1, InvFacts
<1>3. Laid(f, lastPageNum, rootPageNum, k, T)
  BY <1>1, InvFacts, LaidPushed
<1>4. Accounted(firstPage, lastPageNum, k, T)
  BY InvFacts, AccountedPush
<1>5. /\ file' = writeFreePagesCounter(f, lastPageNum, Len(T))
      /\ rootPageNum' = rootPageNum /\ lastPageNum' = lastPageNum /\ held' = k
      /\ freePagesCounter' = Len(T) /\ firstPage' = firstPage /\ good' = good
      /\ p # rootPageNum
  BY <1>2, InvFacts DEF MarkPageFree, fileVars
<1> HIDE DEF f, k, T
<1>6. Stored(file', lastPageNum, rootPageNum, k, T)
  BY <1>1, <1>2, <1>3, <1>5, InvFacts, StoredCounter
<1>7. /\ good' /\ rootPageNum' \in DOMAIN held' /\ freePagesCounter' = Len(T)
      /\ Stored(file', lastPageNum', rootPageNum', held', T)
      /\ Accounted(firstPage', lastPageNum', held', T)
  BY <1>1, <1>4, <1>5, <1>6, InvFacts
<1>8. FileInv' /\ FreePageNums' = T
  BY <1>7, InvNext
<1> QED BY <1>5, <1>8 DEF PageStore!Free, T, k

\* A file with fewer free page numbers behind it.
LEMMA LaidPopped ==
    ASSUME NEW f, NEW last, NEW root, NEW h, NEW R, NEW S \in Seq(R), Len(S) > 0,
           Laid(f, last, root, h, S)
    PROVE  Laid(f, last, root, h, SubSeq(S, 1, Len(S) - 1))
<1> DEFINE T == SubSeq(S, 1, Len(S) - 1)
<1>1. Len(T) = Len(S) - 1 /\ (\A i \in 1..Len(S) - 1 : T[i] = S[i]) /\ Len(S) \in Nat
  BY Popped
<1> HIDE DEF T
<1>2. \A i \in 1..Len(T) : i \in 1..Len(S) /\ T[i] = S[i]
  BY <1>1
<1>3. Laid(f, last, root, h, T)
  BY <1>2 DEF Laid
<1> QED BY <1>3 DEF T

\* AllocFreePage is the Reuse of the page store: the number that is read from the
\* free pages area is the one on top of the stack.
LEMMA AllocFreePageStep ==
    ASSUME SameWidth, FileInv, NEW c \in Contents, AllocFreePage(c), UNCHANGED fileVars
    PROVE  FileInv' /\ PageStore!Reuse(c)
<1> DEFINE S == FreePageNums
           p == S[Len(S)]
           T == SubSeq(S, 1, Len(S) - 1)
           o == AreaOfs(lastPageNum) + 4 * Len(S)
           f == WriteAt(file, PageOfs(p), NodePageSize, c)
           k == Put(held, p, c)
<1>1. Len(S) > 0 /\ Len(S) \in Nat /\ S # <<>> /\ freePagesCounter = Len(S)
  BY InvFacts DEF AllocFreePage
<1>2. p \in firstPage..lastPageNum /\ Accounted(firstPage, lastPageNum, k, T)
  BY <1>1, InvFacts, AccountedPop
<1>3. ReadAt(file, getLastFreePageNumOfs(lastPageNum, freePagesCounter), WORD_SZ) = {p}
  <2>1. AreaOfs(lastPageNum) \in Nat
    BY InvFacts, Places
  <2>2. o \in Nat /\ 4 \in Nat \ {0}
    BY <1>1, <2>1
  <2>3. Extent(o, 4, p) \in file /\ Sound(file)
    BY <1>1, InvFacts DEF Laid
  <2>4. ReadAt(file, o, 4) = {p}
    BY <2>2, <2>3, ReadReturns
  <2>5. getLastFreePageNumOfs(lastPageNum, freePagesCounter) = o /\ WORD_SZ = 4
    BY <1>1, InvFacts, AreaOffsets DEF WORD_SZ
  <2> QED BY <2>4, <2>5
<1>4. p \in 1..lastPageNum /\ p \in 1..MaxPages + 1
  BY <1>2, InvFacts
<1>5. T \in Seq(Int) /\ Len(T) = Len(S) - 1
  BY <1>1, InvFacts, Popped
<1>6. DOMAIN k = DOMAIN held \cup {p}
  BY DEF Put
<1> HIDE DEF T, k, p
<1>7. file' = writeFreePagesCounter(WriteAt(file, getPageOfs(p), NodePageSize, c),
                                    lastPageNum, freePagesCounter - 1)
      /\ held' = Put(held, p, c)
  BY <1>3 DEF AllocFreePage
<1>8. /\ file' = writeFreePagesCounter(f, lastPageNum, Len(T)) /\ held' = k
      /\ rootPageNum' = rootPageNum /\ lastPageNum' = lastPageNum
      /\ freePagesCounter' = Len(T) /\ firstPage' = firstPage /\ good' = good
  BY <1>1, <1>4, <1>5, <1>7, PageOffsets DEF AllocFreePage, fileVars, k
<1>9. Laid(f, lastPageNum, rootPageNum, k, S)
  BY <1>4, InvFacts, StoredPage DEF Stored, k
<1>10. Laid(f, lastPageNum, rootPageNum, k, T)
  BY <1>1, <1>9, InvFacts, LaidPopped DEF T
<1>11. Stored(file', lastPageNum, rootPageNum, k, T)
  <2>1. DOMAIN k \subseteq 1..lastPageNum
    BY <1>4, <1>6, InvFacts
  <2> HIDE DEF f
  <2> QED BY <1>5, <1>8, <1>10, <2>1, InvFacts, StoredCounter
<1>12. /\ good' /\ rootPageNum' \in DOMAIN held' /\ freePagesCounter' = Len(T)
       /\ Stored(file', lastPageNum', rootPageNum', held', T)
       /\ Accounted(firstPage', lastPageNum', held', T)
  BY <1>2, <1>6, <1>8, <1>11, InvFacts
<1>13. FileInv' /\ FreePageNums' = T
  BY <1>12, InvNext
<1>14. held' = PageStore!Put(held, FreePageNums[Len(FreePageNums)], c)
  BY <1>7 DEF PageStore!Put, Put, p
<1> QED BY <1>1, <1>8, <1>13, <1>14 DEF PageStore!Reuse, T

\* AllocNewPage is the Grow of the page store.
LEMMA AllocNewPageStep ==
    ASSUME SameWidth, FileInv, NEW c \in Contents, AllocNewPage(c), UNCHANGED fileVars
    PROVE  FileInv' /\ PageStore!Grow(c)
<1> DEFINE k == Put(held, lastPageNum + 1, c)
           f == allocPageInternal(file, lastPageNum, c)
<1>1. /\ FreePageNums = <<>> /\ freePagesCounter = 0 /\ lastPageNum < MaxPages
      /\ Len(<<>>) = 0 /\ <<>> \in Seq(Int)
  BY InvFacts DEF AllocNewPage
<1>2. lastPageNum \in 0..MaxPages - 1 /\ lastPageNum + 1 \in 0..MaxPages
  BY <1>1, InvFacts
<1>3. Accounted(firstPage, lastPageNum + 1, k, <<>>)
  BY <1>1, InvFacts, AccountedGrow
<1>4. DOMAIN k = DOMAIN held \cup {lastPageNum + 1} /\ DOMAIN k \subseteq 1..lastPageNum + 1
  BY InvFacts DEF Put
<1>5. Laid(f, lastPageNum + 1, rootPageNum, k, <<>>)
  BY <1>2, InvFacts, LaidGrown DEF Laid
<1>6. /\ file' = writeFreePagesCounter(f, lastPageNum + 1, Len(<<>>)) /\ held' = k
      /\ rootPageNum' = rootPageNum /\ lastPageNum' = lastPageNum + 1
      /\ freePagesCounter' = Len(<<>>) /\ firstPage' = firstPage /\ good' = good
  BY <1>1 DEF AllocNewPage, fileVars
<1> HIDE DEF f, k
<1>7. Stored(file', lastPageNum + 1, rootPageNum, k, <<>>)
  BY <1>1, <1>2, <1>4, <1>5, <1>6, StoredCounter, Zenon
<1>8. /\ good' /\ rootPageNum' \in DOMAIN held' /\ freePagesCounter' = Len(<<>>)
      /\ Stored(file', lastPageNum', rootPageNum', held', <<>>)
      /\ Accounted(firstPage', lastPageNum', held', <<>>)
  BY <1>3, <1>4, <1>6, <1>7, InvFacts
<1>9. FileInv' /\ FreePageNums' = <<>>
  BY <1>8, InvNext
<1> QED BY <1>1, <1>6, <1>9 DEF PageStore!Grow, PageStore!Put, Put, k

\* Create is the Renew of the page store: the new file has nothing of the old one
\* but the page numbers.
LEMMA CreateStep ==
    ASSUME SameWidth, FileInv, NEW c \in Contents, Create(c)
    PROVE  FileInv' /\ PageStore!Renew(c)
<1> DEFINE n == lastPageNum + 1
           none == [p \in {} |-> 0]
           k == [p \in {n} |-> c]
           f == allocPageInternal(Header, lastPageNum, c)
           g == writeRootPageNum(f, n)
           E == Extent(0, 8, "header")
<1>1. /\ FreePageNums = <<>> /\ freePagesCounter = 0 /\ lastPageNum < MaxPages
      /\ Len(<<>>) = 0 /\ <<>> \in Seq(Int)
  BY InvFacts DEF Create
<1>2. lastPageNum \in 0..MaxPages - 1 /\ n \in 0..MaxPages /\ n \in 1..MaxPages
  BY <1>1, InvFacts
<1>3. Sound(Header) /\ Extent(12, 4, rootPageNum) \in Header
  <2>1. Sound({E})
    BY DEF Sound, Extent
  <2>2. Sound(writePageCounter({E}, lastPageNum))
    BY <2>1, WriteIsSound DEF writePageCounter, PAGE_COUNTER_OFS, HEADER_SIZE, WORD_SZ
  <2>3. Header = WriteAt(writePageCounter({E}, lastPageNum), 12, 4, rootPageNum)
    BY DEF Header, writeRootPageNum, ROOT_PAGE_NUM_OFS, PAGE_COUNTER_OFS, HEADER_SIZE, WORD_SZ
  <2> QED BY <2>2, <2>3, WriteIsSound
<1>4. Put(none, n, c) = k /\ DOMAIN k = {n} /\ DOMAIN k \subseteq 1..n
  BY <1>2 DEF Put
<1>5. Laid(f, n, rootPageNum, k, <<>>)
  <2>1. Laid(f, n, rootPageNum, Put(none, n, c), <<>>)
    BY <1>2, <1>3, LaidGrown
  <2> QED BY <1>4, <2>1
<1>6. /\ file' = writeFreePagesCounter(g, n, Len(<<>>)) /\ held' = k
      /\ rootPageNum' = n /\ lastPageNum' = n
      /\ freePagesCounter' = Len(<<>>) /\ firstPage' = n /\ good' = TRUE
  BY <1>1 DEF Create
<1> HIDE DEF f, k
<1>7. Laid(g, n, n, k, <<>>)
  BY <1>1, <1>2, <1>4, <1>5, StoredRoot, Zenon
<1> HIDE DEF g
<1>8. Stored(file', n, n, k, <<>>)
  BY <1>1, <1>2, <1>4, <1>6, <1>7, StoredCounter, Zenon
<1>9. Accounted(n, n, k, <<>>)
  BY <1>2, AccountedNew DEF k
<1>10. /\ good' /\ rootPageNum' \in DOMAIN held' /\ freePagesCounter' = Len(<<>>)
       /\ Stored(file', lastPageNum', rootPageNum', held', <<>>)
       /\ Accounted(firstPage', lastPageNum', held', <<>>)
  BY <1>4, <1>6, <1>8, <1>9
<1>11. FileInv' /\ FreePageNums' = <<>>
  BY <1>10, InvNext
<1> QED BY <1>1, <1>6, <1>11 DEF PageStore!Renew, k

\* open() reads back the counters and the root page number of the file that was
\* closed.
LEMMA OpenStep ==
    ASSUME SameWidth, FileInv, Open
    PROVE  /\ UNCHANGED <<lastPageNum, rootPageNum, freePagesCounter, file, held, firstPage>>
           /\ good' = TRUE
<1>1. Sound(file) /\ Extent(8, 4, lastPageNum) \in file /\ Extent(12, 4, rootPageNum) \in file
      /\ Extent(AreaOfs(lastPageNum), 4, freePagesCounter) \in file
  BY InvFacts DEF Stored, Laid
<1>2. AreaOfs(lastPageNum) \in Nat
      /\ getFreePagesInfoAreaOfs(lastPageNum) = AreaOfs(lastPageNum)
  BY InvFacts, Places, AreaOffsets
<1>3. PAGE_COUNTER_OFS = 8 /\ ROOT_PAGE_NUM_OFS = 12 /\ WORD_SZ = 4 /\ 4 \in Nat \ {0}
  BY DEF ROOT_PAGE_NUM_OFS, PAGE_COUNTER_OFS, HEADER_SIZE, WORD_SZ
<1>4. ReadAt(file, 8, 4) = {lastPageNum} /\ ReadAt(file, 12, 4) = {rootPageNum}
      /\ ReadAt(file, AreaOfs(lastPageNum), 4) = {freePagesCounter}
  BY <1>1, <1>2, ReadReturns
<1>5. lastPageNum' = lastPageNum /\ rootPageNum' = rootPageNum
  BY <1>3, <1>4 DEF Open, LoadTree
<1>6. freePagesCounter' = freePagesCounter
  BY <1>2, <1>3, <1>4, <1>5 DEF Open, LoadTree
<1> QED BY <1>5, <1>6 DEF Open, LoadTree

\* Every step keeps the invariant, and is a step of the page store or leaves it.
LEMMA FileStep ==
    ASSUME SameWidth, FileInv, [TidyNext]_<<vars, fileVars>>
    PROVE  FileInv' /\ [PageStore!Next]_PageStore!vars
<1>1. CASE PageStep
  <2>1. UNCHANGED fileVars
    BY <1>1 DEF PageStep
  <2>2. ASSUME NEW c \in Contents, AllocNewPage(c)
        PROVE  FileInv' /\ [PageStore!Next]_PageStore!vars
    BY <2>1, <2>2, AllocNewPageStep DEF PageStore!Next
  <2>3. ASSUME NEW c \in Contents, AllocFreePage(c)
        PROVE  FileInv' /\ [PageStore!Next]_PageStore!vars
    BY <2>1, <2>3, AllocFreePageStep DEF PageStore!Next
  <2>4. ASSUME NEW p \in DOMAIN held, SetAsRoot(p)
        PROVE  FileInv' /\ [PageStore!Next]_PageStore!vars
    BY <2>1, <2>4, SetAsRootStep DEF PageStore!Next
  <2>5. ASSUME NEW p \in DOMAIN held, MarkPageFree(p)
        PROVE  FileInv' /\ [PageStore!Next]_PageStore!vars
    BY <2>1, <2>5, MarkPageFreeStep DEF PageStore!Next
  <2>6. ASSUME NEW p \in DOMAIN held, NEW c \in Contents, WritePage(p, c)
        PROVE  FileInv' /\ [PageStore!Next]_PageStore!vars
    BY <2>1, <2>6, WritePageStep DEF PageStore!Next
  <2> QED BY <1>1, <2>2, <2>3, <2>4, <2>5, <2>6 DEF PageStep
<1>2. ASSUME NEW c \in Contents, Create(c)
      PROVE  FileInv' /\ [PageStore!Next]_PageStore!vars
  BY <1>2, CreateStep DEF PageStore!Next
<1>3. ASSUME UNCHANGED <<lastPageNum, rootPageNum, freePagesCounter, file, held, firstPage>>,
             good' = TRUE
      PROVE  FileInv' /\ [PageStore!Next]_PageStore!vars
  <2>1. FreePageNums' = FreePageNums
    BY <1>3 DEF FreePageNums
  <2>2. FileInv'
    BY <1>3, <2>1 DEF FileInv
  <2> QED BY <1>3, <2>1, <2>2 DEF PageStore!vars
<1>4. CASE Open
  BY <1>3, <1>4, OpenStep
<1>5. CASE Close
  BY <1>3, <1>5, InvFacts DEF Close, vars
<1>6. CASE UNCHANGED <<vars, fileVars>>
  BY <1>3, <1>6, InvFacts DEF vars, fileVars
<1> QED BY <1>1, <1>2, <1>4, <1>5, <1>6 DEF TidyNext

-------------------------------------------------------------------------------
(* The theorems. *)

\* The inductive invariant: the file that one object creates, writes, closes and
\* opens again holds, without overlap, its counters, the pages in use and the stack
\* of free pages, and each of its pages is one or the other.
THEOREM FileInvariant ==
    ASSUME SameWidth
    PROVE  TidySpec => []FileInv
<1>1. FileInit => FileInv
  BY InvInit
<1>2. FileInv /\ [TidyNext]_<<vars, fileVars>> => FileInv'
  BY FileStep
<1> QED BY <1>1, <1>2, PTL DEF TidySpec

\* Page numbers, counters and contents stay in their ranges, however often pages
\* are allocated and freed and files are created and opened.
THEOREM FileTypeOK ==
    ASSUME SameWidth
    PROVE  TidySpec => []TypeOK
<1>1. FileInv => TypeOK
  <2> SUFFICES ASSUME FileInv PROVE TypeOK
    OBVIOUS
  <2>1. held \in [DOMAIN held -> Contents]
    BY InvFacts DEF Accounted
  <2>2. rootPageNum \in 1..MaxPages /\ DOMAIN held \subseteq 0..MaxPages
        /\ freePagesCounter \in 0..MaxPages /\ lastPageNum \in 1..MaxPages
    BY InvFacts
  <2> QED BY <2>1, <2>2 DEF TypeOK
<1> QED BY <1>1, FileInvariant, PTL

\* No page is lost or handed out twice: each page of the file is either in use or
\* recorded once in the free pages area that markPageFree() writes and
\* allocPageUsingFreePages() reads.
THEOREM FilePagesAccounted ==
    ASSUME SameWidth
    PROVE  TidySpec => []PagesAccounted
<1>1. FileInv => PagesAccounted
  <2> SUFFICES ASSUME FileInv PROVE PagesAccounted
    OBVIOUS
  <2> DEFINE free == {FreePageNums[i] : i \in 1..freePagesCounter}
  <2>1. \A i, j \in 1..freePagesCounter : i # j => FreePageNums[i] # FreePageNums[j]
    BY InvFacts DEF Accounted
  <2>2. free \cap DOMAIN held = {}
    BY InvFacts DEF Accounted
  <2>3. \A p \in free \cup DOMAIN held : p \in firstPage..lastPageNum
    BY InvFacts DEF Accounted
  <2>4. \A p \in firstPage..lastPageNum : p \in free \cup DOMAIN held
    BY InvFacts DEF Accounted
  <2>5. free \cup DOMAIN held = firstPage..lastPageNum
    BY <2>3, <2>4
  <2> QED BY <2>1, <2>2, <2>5, Zenon DEF PagesAccounted, AccountedFrom
<1> QED BY <1>1, FileInvariant, PTL

\* readPage() of a page in use returns what was last written to it: neither a page
\* written elsewhere, a counter, nor a number in the free pages area, which moves
\* with the end of the file, ever lies over it.
THEOREM FileHeldPagesIntact ==
    ASSUME SameWidth
    PROVE  TidySpec => []HeldPagesIntact
<1>1. FileInv => HeldPagesIntact
  <2> SUFFICES ASSUME FileInv, NEW p \in DOMAIN held
               PROVE  ReadAt(file, gotoPage(p), NodePageSize) = {held[p]}
    BY DEF HeldPagesIntact
  <2>1. p \in 1..MaxPages + 1 /\ p \in 1..lastPageNum
    BY InvFacts
  <2>2. gotoPage(p) = PageOfs(p)
    BY <2>1, PageOffsets
  <2>3. PageOfs(p) \in Nat /\ NodePageSize \in Nat \ {0}
    BY <2>1, InvFacts, Places
  <2>4. Sound(file) /\ Extent(PageOfs(p), NodePageSize, held[p]) \in file
    BY InvFacts DEF Laid
  <2> QED BY <2>2, <2>3, <2>4, ReadReturns
<1> QED BY <1>1, FileInvariant, PTL

\* open() gives back the tree that was closed, whatever files the object had open
\* before.
THEOREM FileOpenRestores ==
    ASSUME SameWidth
    PROVE  TidySpec => OpenRestores
<1> DEFINE A == ~isOpen /\ isOpen' /\ UNCHANGED file =>
                    UNCHANGED <<lastPageNum, rootPageNum, freePagesCounter>>
<1>1. FileInv /\ [TidyNext]_<<vars, fileVars>> => [A]_<<vars, fileVars>>
  <2> SUFFICES ASSUME FileInv, [TidyNext]_<<vars, fileVars>>, ~isOpen, isOpen',
                      UNCHANGED file
               PROVE  UNCHANGED <<lastPageNum, rootPageNum, freePagesCounter>>
    OBVIOUS
  <2>1. CASE Open
    BY <2>1, OpenStep
  <2>2. ASSUME NEW c \in Contents, Create(c)
        PROVE  FALSE
    <3>1. FileInv' /\ lastPageNum' = lastPageNum + 1
      BY <2>2, CreateStep DEF Create
    <3>2. Extent(8, 4, lastPageNum') \in file' /\ Sound(file)
          /\ Extent(8, 4, lastPageNum) \in file
      BY <3>1, InvFacts DEF FileInv, Stored, Laid
    <3>3. ReadAt(file, 8, 4) = {lastPageNum} /\ ReadAt(file, 8, 4) = {lastPageNum'}
      BY <3>2, ReadReturns
    <3>4. lastPageNum' = lastPageNum
      BY <3>3
    <3>5. lastPageNum \in Nat
      BY InvFacts
    <3> QED BY <3>1, <3>4, <3>5
  <2> QED BY <2>1, <2>2 DEF TidyNext, PageStep, Close, fileVars
<1> QED BY <1>1, FileInvariant, PTL DEF TidySpec, OpenRestores

\* The page file implements the page store of FreePages: a stack of free pages
\* that are used before the file grows, and pages that keep what was written.
THEOREM FileImplementsFreePages ==
    ASSUME SameWidth
    PROVE  TidySpec => ImplementsFreePages
<1>1. FileInit => PageStore!Init
  BY InvInit DEF FileInit, Init, PageStore!Init
<1>2. FileInv /\ [TidyNext]_<<vars, fileVars>> => [PageStore!Next]_PageStore!vars
  BY FileStep
<1> QED BY <1>1, <1>2, FileInvariant, PTL
        DEF TidySpec, ImplementsFreePages, PageStore!Spec

===============================================================================
