------------------------------- MODULE PageFile -------------------------------
(***************************************************************************)
(* The file of a BaseBTree: a header, the page counter, the root page      *)
(* number, the pages, and behind the last page the free pages area (a      *)
(* counter followed by the numbers of the free pages).  The file is a set  *)
(* of extents, so that a write at a wrong offset damages what was there.   *)
(* Offsets are computed in UInt and ULong as the code does; both moduli    *)
(* are parameters because `unsigned long' has 32 or 64 bits depending on   *)
(* the platform.                                                           *)
(***************************************************************************)
EXTENDS Integers, Sequences

CONSTANTS UMod,          \* UInt arithmetic is modulo UMod (2^32 in the code)
          LMod,          \* ULong arithmetic is modulo LMod (2^32 or 2^64)
          NodePageSize,  \* BaseBTree::_nodePageSize
          MaxPages,      \* bound on the number of pages of the file
          Contents       \* what a page can hold

HEADER_SIZE == 8
PAGE_COUNTER_OFS == HEADER_SIZE
WORD_SZ == 4             \* PAGE_COUNTER_SZ, CURSOR_SZ, FREE_PAGE_NUM_SZ, ...
ROOT_PAGE_NUM_OFS == PAGE_COUNTER_OFS + WORD_SZ
FIRST_PAGE_OFS == ROOT_PAGE_NUM_OFS + WORD_SZ

ASSUME SizesAssumption ==
    /\ NodePageSize \in Nat \ {0}
    /\ MaxPages \in Nat \ {0}
    /\ UMod \in Nat \ {0}
    /\ LMod \in Nat \ {0}
    /\ Contents # {}

\* The whole file, free pages area included, is addressable by a UInt.
ASSUME FitsAssumption ==
    FIRST_PAGE_OFS + MaxPages * NodePageSize + WORD_SZ + MaxPages * WORD_SZ < UMod

VARIABLES file,              \* the extents written to the stream
          lastPageNum,       \* _lastPageNum
          rootPageNum,       \* _rootPageNum
          freePagesCounter,  \* _freePagesCounter
          held               \* history: the pages in use, as last written

vars == <<file, lastPageNum, rootPageNum, freePagesCounter, held>>

-------------------------------------------------------------------------------
(* The stream. *)

Extent(o, n, v) == [ofs |-> o, len |-> n, val |-> v]

Apart(e, o, n) == e.ofs + e.len <= o \/ o + n <= e.ofs

WriteAt(f, o, n, v) == {e \in f : Apart(e, o, n)} \cup {Extent(o, n, v)}

\* The values a read of n bytes at o may return: what was written there, zero
\* where nothing was ever written, anything where the bytes are parts of
\* other records.
ReadAt(f, o, n) ==
    IF \E e \in f : e.ofs = o /\ e.len = n
    THEN {e.val : e \in {x \in f : x.ofs = o /\ x.len = n}}
    ELSE IF \A e \in f : Apart(e, o, n) THEN {0} ELSE 0..MaxPages

-------------------------------------------------------------------------------
(* Offsets. *)

UIntOf(n) == n % UMod
ULongOf(n) == n % LMod

gotoPage(p) == UIntOf(FIRST_PAGE_OFS + NodePageSize * (p - 1))

getPageOfs(p) == ULongOf(FIRST_PAGE_OFS + UIntOf((p - 1) * NodePageSize))

getFreePagesInfoAreaOfs(last) == getPageOfs(last + 1)

getLastFreePageNumOfs(last, counter) ==
    ULongOf(getFreePagesInfoAreaOfs(last) + WORD_SZ + UIntOf((counter - 1) * WORD_SZ))

\* Fault: the number of a freed page goes over the last one recorded.
NextFreePageNumOfsOnLast(last, counter) == getLastFreePageNumOfs(last, counter)

\* Where markPageFree() puts the next free page number.
NextFreePageNumOfs(last, counter) ==
    ULongOf(getLastFreePageNumOfs(last, counter) + WORD_SZ)

-------------------------------------------------------------------------------
\* Fault: the free pages area of the file before it grew.
writeFreePagesCounterStale(f, last, counter) ==
    WriteAt(f, getFreePagesInfoAreaOfs(last - 1), WORD_SZ, counter)

writeFreePagesCounter(f, last, counter) ==
    WriteAt(f, getFreePagesInfoAreaOfs(last), WORD_SZ, counter)

writePageCounter(f, last) == WriteAt(f, PAGE_COUNTER_OFS, WORD_SZ, last)

writeRootPageNum(f, root) == WriteAt(f, ROOT_PAGE_NUM_OFS, WORD_SZ, root)

\* Fault: the page counter is not saved.
allocPageInternalUncounted(f, last, c) ==
    WriteAt(f, getFreePagesInfoAreaOfs(last), NodePageSize, c)

\* The page is written over the free pages area, which then starts behind it.
allocPageInternal(f, last, c) ==
    writePageCounter(WriteAt(f, getFreePagesInfoAreaOfs(last), NodePageSize, c), last + 1)

Put(g, p, c) == [q \in DOMAIN g \cup {p} |-> IF q = p THEN c ELSE g[q]]

\* createTree(): the header, both counters, the root page and the empty free
\* pages area.
createTree(c) ==
    LET f0 == {Extent(0, HEADER_SIZE, "header")}
        f1 == writeRootPageNum(writePageCounter(f0, 0), 0)
        f2 == writeFreePagesCounter(allocPageInternal(f1, 0, c), 1, 0)
    IN  writeFreePagesCounter(writeRootPageNum(f2, 1), 1, 0)

Init ==
    \E c \in Contents :
        /\ file = createTree(c)
        /\ lastPageNum = 1
        /\ rootPageNum = 1
        /\ freePagesCounter = 0
        /\ held = [p \in {1} |-> c]

\* allocPageUsingFreePages() with no free page: the file grows.
AllocNewPage(c) ==
    /\ freePagesCounter = 0
    /\ lastPageNum < MaxPages
    /\ file' = writeFreePagesCounter(allocPageInternal(file, lastPageNum, c),
                                     lastPageNum + 1, 0)
    /\ lastPageNum' = lastPageNum + 1
    /\ held' = Put(held, lastPageNum + 1, c)
    /\ UNCHANGED <<rootPageNum, freePagesCounter>>

\* allocPageUsingFreePages() with a free page: the last one freed is reused.
AllocFreePage(c) ==
    /\ freePagesCounter > 0
    /\ \E p \in ReadAt(file, getLastFreePageNumOfs(lastPageNum, freePagesCounter), WORD_SZ) :
          /\ file' = writeFreePagesCounter(WriteAt(file, getPageOfs(p), NodePageSize, c),
                                           lastPageNum, freePagesCounter - 1)
          /\ held' = Put(held, p, c)
    /\ freePagesCounter' = freePagesCounter - 1
    /\ UNCHANGED <<lastPageNum, rootPageNum>>

\* writePage(): throws for a page that does not exist.
WritePage(p, c) ==
    /\ p \in DOMAIN held
    /\ p # 0 /\ p <= lastPageNum
    /\ file' = WriteAt(file, gotoPage(p), NodePageSize, c)
    /\ held' = Put(held, p, c)
    /\ UNCHANGED <<lastPageNum, rootPageNum, freePagesCounter>>

\* Fault: the new root page number stays in memory.
SetAsRootInMemory(p) ==
    /\ p \in DOMAIN held
    /\ p # 0
    /\ rootPageNum' = p
    /\ UNCHANGED <<file, lastPageNum, freePagesCounter, held>>

\* PageWrapper::setAsRoot().
SetAsRoot(p) ==
    /\ p \in DOMAIN held
    /\ p # 0
    /\ rootPageNum' = p
    /\ file' = writeRootPageNum(file, p)
    /\ UNCHANGED <<lastPageNum, freePagesCounter, held>>

\* Fault: the old root is freed before the new one is set.
MarkRootFree(p) ==
    /\ p \in DOMAIN held
    /\ p <= lastPageNum
    /\ file' = writeFreePagesCounter(
                   WriteAt(file, NextFreePageNumOfs(lastPageNum, freePagesCounter), WORD_SZ, p),
                   lastPageNum, freePagesCounter + 1)
    /\ freePagesCounter' = freePagesCounter + 1
    /\ held' = [q \in DOMAIN held \ {p} |-> held[q]]
    /\ UNCHANGED <<lastPageNum, rootPageNum>>

\* markPageFree(): throws for a page that does not exist.  mergeChildren()
\* sets the new root before it frees the old one.
MarkPageFree(p) ==
    /\ p \in DOMAIN held \ {rootPageNum}
    /\ p <= lastPageNum
    /\ file' = writeFreePagesCounter(
                   WriteAt(file, NextFreePageNumOfs(lastPageNum, freePagesCounter), WORD_SZ, p),
                   lastPageNum, freePagesCounter + 1)
    /\ freePagesCounter' = freePagesCounter + 1
    /\ held' = [q \in DOMAIN held \ {p} |-> held[q]]
    /\ UNCHANGED <<lastPageNum, rootPageNum>>

\* loadTree() reads the fields back from the file.
LoadTree ==
    /\ lastPageNum' \in ReadAt(file, PAGE_COUNTER_OFS, WORD_SZ)
    /\ rootPageNum' \in ReadAt(file, ROOT_PAGE_NUM_OFS, WORD_SZ)
    /\ freePagesCounter' \in ReadAt(file, getFreePagesInfoAreaOfs(lastPageNum'), WORD_SZ)
    /\ UNCHANGED <<file, held>>

-------------------------------------------------------------------------------
(* Properties. *)

\* The numbers in the free pages area, oldest first.
FreePageNums ==
    [i \in 1..freePagesCounter |->
        CHOOSE n \in ReadAt(file, getLastFreePageNumOfs(lastPageNum, i), WORD_SZ) : TRUE]

TypeOK ==
    /\ lastPageNum \in 1..MaxPages
    /\ rootPageNum \in 1..MaxPages
    /\ freePagesCounter \in 0..MaxPages
    /\ held \in [DOMAIN held -> Contents]
    /\ DOMAIN held \subseteq 0..MaxPages

\* The pages from first on are each either in use or recorded exactly once in the
\* free pages area, and no other page is.
AccountedFrom(first) ==
    LET free == {FreePageNums[i] : i \in 1..freePagesCounter}
    IN  /\ \A i, j \in 1..freePagesCounter : i # j => FreePageNums[i] # FreePageNums[j]
        /\ free \cap DOMAIN held = {}
        /\ free \cup DOMAIN held = first..lastPageNum

\* "All pages are numbered from 1, 0 is nonexistent page (nullptr)" (btree.h):
\* every page allocPage() hands out is a page of the file.
PagesNumberedFrom1 == DOMAIN held \subseteq 1..lastPageNum

\* readPage() of a page in use returns what was last written to it, whatever
\* was allocated, freed or recorded in the free pages area in between.
HeldPagesIntact ==
    \A p \in DOMAIN held : ReadAt(file, gotoPage(p), NodePageSize) = {held[p]}
===============================================================================
