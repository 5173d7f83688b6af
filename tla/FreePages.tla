------------------------------ MODULE FreePages ------------------------------
(***************************************************************************)
(* What the page layer of a BaseBTree promises to the tree above it:       *)
(* page numbers start at 1, a page that is handed out belongs to nobody    *)
(* else, freed pages are handed out again before the file grows (the last  *)
(* one freed first), and a page keeps what was last written to it.         *)
(***************************************************************************)
EXTENDS Naturals, Sequences

CONSTANTS MaxPages,     \* bound on the number of pages of the file
          Contents      \* what a page can hold

VARIABLES lastPageNum,  \* BaseBTree::_lastPageNum
          rootPageNum,  \* BaseBTree::_rootPageNum
          freePages,    \* the numbers of the free pages, a stack
          held          \* the pages the tree uses, with their contents

vars == <<lastPageNum, rootPageNum, freePages, held>>

\* f with p mapped to c.
Put(f, p, c) == [q \in DOMAIN f \cup {p} |-> IF q = p THEN c ELSE f[q]]

Init ==
    /\ lastPageNum = 1
    /\ rootPageNum = 1
    /\ freePages = <<>>
    /\ \E c \in Contents : held = [p \in {1} |-> c]

\* create() on an object that has closed another file without free pages: the page
\* numbers go on from those of the other file.
Renew(c) ==
    /\ freePages = <<>>
    /\ lastPageNum < MaxPages
    /\ lastPageNum' = lastPageNum + 1
    /\ rootPageNum' = lastPageNum + 1
    /\ held' = [p \in {lastPageNum + 1} |-> c]
    /\ UNCHANGED freePages

Grow(c) ==
    /\ freePages = <<>>
    /\ lastPageNum < MaxPages
    /\ lastPageNum' = lastPageNum + 1
    /\ held' = Put(held, lastPageNum + 1, c)
    /\ UNCHANGED <<rootPageNum, freePages>>

Reuse(c) ==
    /\ freePages # <<>>
    /\ held' = Put(held, freePages[Len(freePages)], c)
    /\ freePages' = SubSeq(freePages, 1, Len(freePages) - 1)
    /\ UNCHANGED <<lastPageNum, rootPageNum>>

Write(p, c) ==
    /\ p \in DOMAIN held
    /\ held' = Put(held, p, c)
    /\ UNCHANGED <<lastPageNum, rootPageNum, freePages>>

SetRoot(p) ==
    /\ p \in DOMAIN held
    /\ rootPageNum' = p
    /\ UNCHANGED <<lastPageNum, freePages, held>>

Free(p) ==
    /\ p \in DOMAIN held \ {rootPageNum}
    /\ held' = [q \in DOMAIN held \ {p} |-> held[q]]
    /\ freePages' = Append(freePages, p)
    /\ UNCHANGED <<lastPageNum, rootPageNum>>

Next ==
    \/ \E c \in Contents : Renew(c) \/ Grow(c) \/ Reuse(c)
    \/ \E p \in DOMAIN held :
          \/ SetRoot(p)
          \/ Free(p)
          \/ \E c \in Contents : Write(p, c)

Spec == Init /\ [][Next]_vars
==============================================================================
