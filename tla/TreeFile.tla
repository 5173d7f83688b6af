------------------------------- MODULE TreeFile -------------------------------
(***************************************************************************)
(* FileBaseBTree: one object that creates, opens and closes tree files.    *)
(* close() resets the order, the record size, the stream and the           *)
(* comparator of its tree, not the page counter, the root page number and  *)
(* the free pages counter, with which create() then starts the next file.  *)
(***************************************************************************)
EXTENDS PageFile

VARIABLES isOpen,     \* isOpen()
          good,       \* whether the file stream still reads and writes
          firstPage   \* history: the number of the first page of the file

fileVars == <<isOpen, good, firstPage>>

FileInit == Init /\ isOpen = TRUE /\ good = TRUE /\ firstPage = 1

\* What createTree() writes first to an empty file.
Header == writeRootPageNum(writePageCounter({Extent(0, HEADER_SIZE, "header")}, lastPageNum),
                           rootPageNum)

\* create(), which throws if a file is open: the root page gets the number behind
\* the last page of the file that was open before.
Create(c) ==
    /\ ~isOpen
    /\ freePagesCounter = 0 /\ lastPageNum < MaxPages
    /\ file' = writeFreePagesCounter(
                   writeRootPageNum(allocPageInternal(Header, lastPageNum, c), lastPageNum + 1),
                   lastPageNum + 1, 0)
    /\ lastPageNum' = lastPageNum + 1
    /\ rootPageNum' = lastPageNum + 1
    /\ held' = [p \in {lastPageNum + 1} |-> c]
    /\ isOpen' = TRUE /\ good' = TRUE /\ firstPage' = lastPageNum + 1
    /\ UNCHANGED freePagesCounter

\* create() after a file with free pages: the number of a free page is read from
\* behind the end of the new file.  The read fails, the number is undefined, and
\* the stream accepts no further write.
CreateOverFreePages(c) ==
    /\ ~isOpen
    /\ freePagesCounter > 0
    /\ file' = Header
    /\ \E p \in 0..MaxPages : rootPageNum' = p /\ held' = [q \in {p} |-> c]
    /\ freePagesCounter' = freePagesCounter - 1
    /\ isOpen' = TRUE /\ good' = FALSE /\ firstPage' = lastPageNum + 1
    /\ UNCHANGED lastPageNum

\* open() throws if a file is open.
Open ==
    /\ ~isOpen
    /\ LoadTree
    /\ isOpen' = TRUE /\ good' = TRUE
    /\ UNCHANGED firstPage

Close ==
    /\ isOpen
    /\ isOpen' = FALSE
    /\ UNCHANGED <<vars, good, firstPage>>

\* The pages of an open file.
PageStep ==
    /\ isOpen /\ good
    /\ \/ \E c \in Contents : AllocNewPage(c) \/ AllocFreePage(c)
       \/ \E p \in DOMAIN held :
             SetAsRoot(p) \/ MarkPageFree(p) \/ \E c \in Contents : WritePage(p, c)
    /\ UNCHANGED fileVars

\* A client that creates no file after one with free pages.
TidyNext == PageStep \/ Open \/ Close \/ \E c \in Contents : Create(c)

TidySpec == FileInit /\ [][TidyNext]_<<vars, fileVars>>

FileNext == TidyNext \/ \E c \in Contents : CreateOverFreePages(c)

FileSpec == FileInit /\ [][FileNext]_<<vars, fileVars>>

-------------------------------------------------------------------------------
\* Every page of the file from its first on is either in use or recorded exactly
\* once in the free pages area; page 0, "nonexistent page (nullptr)", is never
\* handed out, and no page of a file that was closed before.
PagesAccounted == AccountedFrom(firstPage)

\* open() gives back the tree that was closed: its page counter, its root page
\* and its free pages, whatever files the object had open before.
OpenRestores ==
    [][~isOpen /\ isOpen' /\ UNCHANGED file =>
           UNCHANGED <<lastPageNum, rootPageNum, freePagesCounter>>]_<<vars, fileVars>>

\* The files of the object implement the page store that the trees rely on.
PageStore == INSTANCE FreePages WITH freePages <- FreePageNums
ImplementsFreePages == PageStore!Spec
===============================================================================
