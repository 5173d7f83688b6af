# A TLA+ model of the B-trees library

The repository implements modifications of B-trees (B, B+, B\*, B\*+) that keep
their pages in a file, a C API to them, and an SQLite extension that offers them
as an index of a virtual table. This project models the library's page file, its
four trees, the life of a tree file and the virtual table with SQLite's
transactions around it, checks them with TLC on small instances, and proves with
TLAPS what insertion guarantees for trees of all four types and of every order (for the
B-tree and the B+-tree, that they are bags of keys), what the page file guarantees for
files of every size, what the virtual table guarantees for every number of connections,
keys and rows, and when tables that share a comparator do not disturb each other.

All paths below are relative to
`src/root/prj/0.1/sol/projects/sqlite/ext/btrees_mods/`. `btree.hpp` and
`btree.h` hold the whole library, `btrees_mods.c` the extension.

## 1. Inventory

### The parts of the system

| Part | State | Operations | Used by |
|---|---|---|---|
| Page file (`BaseBTree`, lower half) | the stream; `_lastPageNum`, `_rootPageNum`, `_freePagesCounter`, each in memory and on disk; the free pages area behind the last page | `createTree`, `loadTree`, `allocPage`, `readPage`, `writePage`, `markPageFree`, `setAsRoot` | all trees |
| `BaseBTree` | the pages; `_rootPage`, a copy of the root page that lives as long as the object; `PageWrapper`s, copies of pages that live as long as a function call | `insert`, `search`, `searchAll`, `remove`, `removeAll` | `FileBaseBTree` |
| `BaseBPlusTree` | the same; keys in leaves only, routers above | overrides the splits, `search`, `searchAll`, `remove` | `FileBaseBTree` |
| `BaseBStarTree`, `BaseBStarPlusTree` | the same; pages are kept two thirds full | override insertion (sharing with a sibling, two pages into three) and removal (three into two) | `FileBaseBTree` |
| `FileBaseBTree` | a file stream and one tree | `create`, `open`, `close`, forwards the calls | the C API, tests |
| C API (`btree_c`) | a handle; one global comparator | forwards the calls, copies found keys | the extension |
| Virtual table (`btrees_mods.c`) | a real SQL table, a tree file, the type of its tree recorded in SQL, statistics of the calls per connection | `xCreate`/`xConnect`, `xUpdate` (table first, tree second), `xFilter`, `rebuildIndex` | SQLite |
| `writeDot`, the experiments program, the headers in `lib/` | none of their own | output, timings | people |
| SQLite | third-party | | |

A tree runs in the caller's thread: there are no locks, threads or messages. Two
database connections may have the same virtual table, and so the same tree file,
open at once. The parts share state through the file and through `_rootPage`, and a call is a
recursion from the root that reads, changes and writes one page after another.

### What is hard here

* **Two copies of one page.** `_rootPage` duplicates the root page, and every
  `PageWrapper` duplicates the page it has read. A function that goes on with a
  local wrapper of a page that has just become the root leaves `_rootPage` stale;
  nothing shows until a later call.
* **Long legal sequences.** Splits, rotations and merges keep the tree within its
  bounds only because each descent prepares the child before it enters it. An
  error shows several levels and many calls later.
* **Overlapping records.** A new page is written over the free pages area, which
  then moves behind it, and the offset of the last free page number is computed
  from a counter that may be 0 with two unsigned types of different width.
* **Reopening.** `loadTree()` trusts what the file says; there is no recovery, so
  the state after each call has to be complete on disk.
* **Loops that must end.** `removeAll()` repeats `remove()` until it fails.
* **Uneven pages.** A B\*-tree moves keys by halves and thirds; sizes that do not
  divide give pages with too many keys, and `isFull()` compares with `==`.
* **Two attempts.** Removal from a B\*-tree goes on with one child and, if that
  fails, with another, whatever the merge before has done to either.
* **Half of a transaction.** SQLite undoes the rows of a failed statement or a
  rollback; nothing undoes the tree file, its replacement or its removal.
* **State of somebody else.** One comparator for all the tables of a process, one
  root page in memory per connection, and the page counters that a closed
  `FileBaseBTree` keeps.

`PROJECT.json` lists each of these as a hazard at its line, with the properties
that would catch it.

### What makes each part correct

* *Page file*: no page is lost or handed out twice, a write damages no page in
  use, reopening gives everything back.
* *Trees*: keys in order, leaves equally deep, pages filled within their bounds,
  every page accounted for, the root in memory equal to the one on disk; a call
  has the effect and the answer of the same call on a bag of keys, and returns.
* *`FileBaseBTree`*: an object can be closed and used again, and a file that is
  opened is the one that was closed.
* *Virtual table*: table and tree hold the same keys between statements, a search
  gives the rows with the key and no others, a row that was found can be changed, a
  table has its file, and the type recorded for a tree is the type of the file.
* *Comparator*: whatever table used it last, every stored key is found.

## 2. Modules

| Module | Role |
|---|---|
| `FreePages` | abstract: a page store with a stack of free pages |
| `PageFile` | the file layout, its offsets and the operations on pages |
| `TreeFile` | extends `PageFile`: one `FileBaseBTree` object and its files; implements `FreePages` |
| `KeyBag` | abstract: a bag of keys with calls and answers |
| `TreeCore` | pages, wrappers, calls, both searches, reopening: what all trees share |
| `TreeShape` | extends `TreeCore`: the properties; the mapping to `KeyBag` |
| `TreeBase` | extends `TreeShape`: insertion of the B-tree and the B+-tree |
| `TreeRemoval` | extends `TreeShape`: the calls, moves and merges that removals share |
| `BTree` | extends `TreeBase` and `TreeRemoval`: removal of `BaseBTree` |
| `BPlusTree` | extends `BTree`: removal of `BaseBPlusTree` |
| `StarBase` | extends `TreeShape`: insertion of the B\*- and the B\*+-tree |
| `StarRemoval` | extends `StarBase` and `TreeRemoval`: two attempts, three pages into two |
| `BStarTree`, `BStarPlusTree` | extend `StarRemoval`: the two removals |
| `TreeClient` | extends `TreeShape`: the clients that the runs on trees use |
| `SequenceLemmas` | facts about sequences and numbers that the proofs share |
| `TreeLemmas` | extends `TreeShape` and `SequenceLemmas`: what the proofs about the trees share: pages as a tree, searches |
| `TreeProofs` | extends `TreeBase` and `TreeLemmas`: theorems about the pages and the shape of the tree under insertion and search, and the order of its keys |
| `TreeBagProofs` | extends `TreeProofs`: insertion and search implement `KeyBag` |
| `StarProofs` | extends `StarBase` and `TreeLemmas`: theorems about insertion into B\*- and B\*+-trees |
| `TreeFileProofs` | extends `TreeFile`: theorems about the page file and its refinement |
| `VirtualTableProofs` | extends `MCVirtualTable`: theorems about the table and its index |
| `VirtualTable` | the extension: SQL side, tree file, connections, transactions |
| `SharedComparator` | the global comparator and the trees that are built with it |
| `SharedComparatorProofs` | extends `SharedComparator` and `SequenceLemmas`: theorems about the comparator |
| `MC...` | instances and clients for TLC |

The tree modules run on a stack of free pages, as `FreePages` specifies it and
`TreeFile` implements it. `VirtualTable` and `SharedComparator` take a tree for the
bag or the sequence of its keys, as `KeyBag` specifies it.

### `PageFile`

`file` is a set of extents (offset, length, value); `WriteAt` removes every extent
it overlaps and `ReadAt` returns what was written at exactly this place, zero where
nothing was written (the stream reads a hole or the end of the file), and anything
where a read would mix parts of other records. A write at a wrong offset therefore
damages what was there. `lastPageNum`, `rootPageNum` and `freePagesCounter` are the
fields of the object. `held` is a history variable: the pages the tree uses and what
it last wrote to them.

The operators `gotoPage`, `getPageOfs`, `getFreePagesInfoAreaOfs`,
`getLastFreePageNumOfs` compute offsets modulo `UMod` (for `UInt`) and `LMod` (for
`ULong`), as the expressions of the code do: `(counter - 1) * 4` wraps in `UInt`
before it is added in `ULong`. The actions are the operations of the table above;
`LoadTree` reads all three fields back from the file.

### `TreeCore`, `TreeBase`, `TreeRemoval`, `BTree`, `BPlusTree`

`pages` is the disk, `rootPage` the contents of `_rootPage`, `freePages` the stack
that `FreePages` specifies. A page is a record of a leaf flag, keys and cursors;
positions count from 1, so key `i` of the code is key `i + 1` here. Wrapper 0
(`RootWrapper`) is `_rootPage`; wrapper `n > 0` is a local one that has just read
page `n`. Every recursive call is one step: `fn` names the function that runs, `at`
the wrapper it works on, and `stack` what its suspended callers need (the pages
`searchAll()` has yet to visit; the position `removeByKeyNum()` works on; the
wrapper and position that wait for a replacement key). Between two steps the pages
on disk are what the code has written by then, so an invariant is checked in the
middle of calls too.

| Action | Code |
|---|---|
| `Insert`, `GrowRoot` | `insert()`, both `splitChild()` for the root |
| `InsertIntoLeaf`, `Descend`, `SplitAndDescend` | the branches of `insertNonFull()` |
| `Search`, `search`, `SearchAll`, `searchAll` | both searches of both classes |
| `LoadTree` | `close()`, then `open()` with a new object |
| `remove`, `removeByKeyNum`, `prepareSubtree`, `moveOneKeyFromLeft`, `moveOneKeyFromRight`, `mergeChildren`, `getAndRemoveMaxKey`, `getAndRemoveMinKey` | the functions of these names in `BaseBTree` |
| `RemoveCall`, `RemoveAllCall`, `RemoveAnswers`, `RemoveReturns` | `remove()` and the loop of `removeAll()` |
| `bplusRemove`, `BorrowFromLeft`, `BorrowFromRight`, `mergeSiblings` | `BaseBPlusTree::remove()` |
| `InsertThrows`, `SearchThrows`, `SearchAllThrows` | the states in which the code throws instead of taking its step |

`TreeType` selects the differences between the two classes (`MinKeysOf`,
`MaxKeysOf`, the median that a B+-tree leaf keeps, `HoldsKeys`). Keys are integers
compared with `<` and `=`, as a comparator that is a total order does.

### `StarBase`, `StarRemoval`, `BStarTree`, `BStarPlusTree`

Sharing keys, splitting two pages into three and merging three into two all lay the
keys and cursors of neighbours out as one long page (`Joined`) and cut it again
(`Cut`). The layout contains the keys of the parent between the pages, except between
the leaves of a B\*+-tree (`Gap`), whose routers are copies. `splitChildren`,
`ShareWithLeft`, `ShareWithRight`, `MergeThree` say where to cut; the sizes are those
of `setOrder()`.

`remove()` of these trees may try two subtrees. Everything between the two attempts
is done by then, so a call that fails goes on with the attempt its innermost caller
has left: `fallback` is the stack of these. `sought` is the key that the pointer `k`
of `remove()` points to, which changes when `removeByKeyNum()` passes on a pointer
into a page that it has rearranged. Where `BaseBStarPlusTree::remove()` ends without
a return statement both answers are possible. Copies out of a page's bounds are the
states of `InsertThrows`; a merge of three inner pages whose cursors would be copied
to a wrong place has no step, and `ThreeMergesFit` says that it does not occur.

### `TreeFile`

`PageFile` with an object that closes its file and creates or opens another.
`close()` leaves the three counters as they are, so `Create` begins with them and the
pages of the new file are numbered from where the old ones ended; the history
variable `firstPage` is the number of the first of them. `FreePages` calls this step
`Renew`. `CreateOverFreePages` is `create()` when the free pages counter is not 0: it
reads a number from beyond the end of the new file, which leaves the number undefined
and the stream failed (`good`). `TidySpec` leaves this last action out, `FileSpec`
has it.

### `TreeClient`

The trees keep their promises only up to the findings below, so the runs say of which
clients they hold. All the clients close and reopen the file when a call has left
`_rootPage` stale (`Fresh`), and call `removeAll()`, which gives them no chance to do
so in between, on a single leaf only. `Inserting` inserts and searches; `Emptying`
fills a tree in every way and then empties it in every way; `Mixing` makes any call;
`Ascending` inserts `1..MaxSize` in order, which leaves nearly all pages at the
minimum, where merges happen, and then removes `MaxRemovals` keys in every choice. A
run chooses among them with `Clients`.

### `VirtualTable`

`sql` is the SQL side (does the table exist, primary key to row id, recorded tree
type), `saved` what was committed, `file` the tree file, `conn` one
`btreesModsVirtualTable` per connection with the tree's keys as its root page has
them, `txn` the connection that is in a transaction, `stmt` the statement that runs
and the row ids that `xFilter` has found. A statement is several steps: `BestIndex`,
`Filter`, one `ReadRow`, `DeleteRow` or `UpdateRow` per row, `EndStatement`; an INSERT
is one (`AddRow`). `FailStatement` undoes its SQL changes, as SQLite does; the tree
keeps its own. A refused INSERT (`RefuseInsert`) undoes the record of a rebuild that
came before, or keeps it: SQLite opens no statement journal for a single row in an
explicit transaction. `Begin`, `Commit`, `Rollback` and `Crash` are SQLite's and the
operating system's; `CrashRebuilding` stops between the steps of `rebuildIndex()`.

Only one connection is in a transaction at a time, but another can prepare a statement
meanwhile, and `btreesModsBestIndex()` may rebuild the tree then. The UPDATE that is to
record the new type finds the database busy, and its result is ignored (`Hindered`).

`Connect` opens the file as the recorded type. If that is not the type it was built as,
the page size is wrong (`PageKeys`). A B\*- or B\*+-tree's file of one page ends within
what a B+-tree takes for its root page: the keys are at the same offsets and are read,
but the stream has failed, and `loadTree()` does not look at it again (`isOpened` is then
FALSE). Searches use the page in memory and work. The first change of the tree reaches
`writePage()`, where `checkForOpenStream()` throws; the C API catches nothing, the
process ends, and SQLite undoes its transaction (`Terminate`).

Tree keys are the primary key modulo `KeyMod` (2^32 in the code, where
`sqlite3_value_int()` is used) with the row id. `KeyIsRowid` says whether the key
column is INTEGER PRIMARY KEY: argv[0] of `xUpdate`, the row id, is then the key.
A connection whose file was replaced by another's `rebuildIndex()` goes on writing to
the removed file (`linked`).

### `SharedComparator`

`tree[t]` is the sequence of table `t`'s keys as its pages have them in order,
`firstPartBytes` the size that the last operation has left. Keys are inserted and
found by the scans of `insertNonFull()` and `search()` with that size. `AllKeys` gives
the orders in which `searchAll()` with the comparator that takes all keys for equal
returns a tree: in order, except that a B\*-tree of several pages gives a key of an
inner page before the subtree left of it.

The scan is that of one page. Over several pages it stands for a search that the routers
lead to the right page; removals from a B+- or B\*+-tree may leave routers that do not
(findings 4 and 11), with any comparator, and that is left to the modules of the trees.

### Faults

Definitions preceded by `\* Fault:` are variants of the definition that follows, each
with one plausible mistake. No specification uses them. They are kept to show that
each property notices a mistake it is meant to notice; `PROJECT.json` pairs them
with properties.

## 3. Runs

| Run | Configuration | Result |
|---|---|---|
| `treefile` | `MCTreeFile.cfg` | holds |
| `insert_btree` | `MCInsertBTree.cfg` | holds |
| `btree` | `MCBTreeReopening.cfg` | holds |
| `bplus` | `MCBPlusTreeReopening.cfg` | holds |
| `bplus_router` | `MCBPlusTreeRouter.cfg` | `SearchFindsStored` violated (finding 4) |
| `bstar` | `MCBStarTree.cfg` | holds |
| `bstar_tall` | `MCBStarTreeTall.cfg` | holds |
| `bstarplus` | `MCBStarPlusTree.cfg` | holds |
| `vtab_turns` | `MCVirtualTableTurns.cfg` | holds |
| `vtab_appending` | `MCVirtualTableAppending.cfg` | holds |
| `vtab_crash` | `MCVirtualTableCrash.cfg` | `TableHasFile` violated (finding 17) |
| `comparator` | `MCSharedComparator.cfg` | holds |

### What they check

`treefile`: with `unsigned long` as wide as `unsigned int`, for one object that
creates, closes and reopens files and creates none after one with free pages: every
page of the open file is in use or free exactly once (`PagesAccounted`), every page in
use reads back as written (`HeldPagesIntact`), `open()` gives back what was closed
(`OpenRestores`), and the files implement `FreePages` with the numbers in the free
pages area as its stack (`ImplementsFreePages`).

`insert_btree`: after every recursive call the tree is a B-tree (`Occupancy`,
`KeysInOrder`, `Balanced`, `PagesAccounted`), `_rootPage` equals the page on disk
(`RootInMemory`), no call throws (`NeverThrows`), and the tree implements `KeyBag`:
each call takes effect at one step and returns the right answer, with equal keys
spread over several pages.

`btree`: the same for removal, as far as it holds. Findings 2 and 3 limit it: a client
that keeps the file open after a merge of the root meets finding 3, and a tree from
which a key of the root can be removed while its right subtree has two levels meets
finding 2. `Mixing` covers two levels with searches and freed pages that are reused,
`Emptying` covers height 3; with at most 9 keys `getAndRemoveMinKey()` never has to
descend and the tree is right throughout, and the tenth key brings finding 2
(`MCBTreeMinKey.cfg`, same client).

`bplus`: a B+-tree of height 3 under removal stays balanced, its pages within their
bounds and accounted for, every other key is stored as often as before
(`OtherKeysKept`), and calls end (`CallsReturn`). Searching it is another matter
(`bplus_router`).

`bstar`: a B\*-tree of height 2 under insertion, sharing, the split of two pages into
three, and removal answers like a bag of keys, although a merge at the root may give a
page too many keys, and every call returns. `bstar_tall`: at height 4 one removal
keeps the tree balanced and its pages accounted for. `ThreeMergesFit` answers whether
the offset computed from the wrong page in the merge of three pages ever differs: it
does not as long as no page falls below the minimum.

`bstarplus`: a B\*+-tree may lose the order of keys and routers but no other key
(`OtherKeysKept`), no call throws, and removal never reaches the branch that uses a
right neighbour it has not read (`RemoveNeverThrows`).

`vtab_turns`: two connections that have the table open one at a time. Tree file, trees
in memory and rows agree between statements (`IndexMatchesRows`), searches find
exactly the row (`FilterFindsRows`), found rows can be deleted and changed
(`FoundRowsChange`), and the recorded type is the type of the file through every
rebuild (`RecordedTypeIsBuilt`). Statements may be refused for a duplicate key or a
wrong type, but not undone while a rebuild is due (finding 14), and nobody rebuilds the
tree during another connection's transaction (finding 22): `Agreeable`.

`vtab_appending`: two connections insert and search by turns, and both are free to meet
findings 14 and 22. Refused inserts, a busy database, rollbacks and crashes may leave
surplus keys in the tree and a wrong record of its type, never a row that is not indexed
(`RowsAreIndexed`). Files opened as the wrong type, and processes that end at their first
insert into them, are among the states of this run. `PagesFit` says why the index
survives that: a tree with a page size other than the file's has lost its stream before
it could write a page.

`comparator`: two tables whose keys have different sizes, rebuilt at any time with
whatever size was left; as long as a tree is one page its keys come in order and the
wrong size does no harm.

### Further configurations

These reproduce findings; `tlc -config <file> <module>` ends with the violation.

| Configuration | Module | Violated | Finding |
|---|---|---|---|
| `MCTreeFileLP64.cfg` | `TreeFile` | `PagesNumberedFrom1` | 1 |
| `MCBTreeMinKey.cfg` | `MCBTreeReopening` | `TakesMinKey` | 2 |
| `MCBTreeStaleRoot.cfg` | `BTree` | `SearchAllFindsAll` | 3 |
| `MCBPlusTreeStaleRoot.cfg` | `MCBPlusTree` | `RemovedKeysAreGone` | 5 |
| `MCBStarTreeShare.cfg` | `MCBStarTree` | `NeverThrows` | 7; 6 with `Occupancy` as the invariant |
| `MCBStarTreeMissed.cfg` | `MCBStarTree` | `RemoveFindsStored` | 8 |
| `MCBStarTreeFreed.cfg` | `MCBStarTree` | `PagesAccounted` | 9 |
| `MCBStarTreeWrongKey.cfg` | `MCBStarTree` | `OtherKeysKept` | 10 |
| `MCBStarPlusTreeAnswer.cfg` | `MCBStarPlusTree` | `RemoveFindsStored` | 12 |
| `MCTreeFileReused.cfg` | `TreeFile` | `HeldPagesIntact` | 13 |
| `MCVirtualTableRecord.cfg` | `MCVirtualTable` | `RecordedTypeIsBuilt` | 14; 22 with `Connections = {c1, c2}` and the specification `UnrefusedSpec` |
| `MCVirtualTableRollback.cfg` | `MCVirtualTable` | `FilterFindsRows` | 15; 16 with `TableHasFile` as an invariant in place of the property |
| `MCVirtualTableShared.cfg` | `MCVirtualTable` | `FilterFindsRows` | 18 |
| `MCVirtualTableWideKeys.cfg` | `MCVirtualTable` | `FilterFindsRows` | 19; 20 with `KeyIsRowid = FALSE` and `FoundRowsChange` as the property |
| `MCSharedComparatorTall.cfg` | `MCSharedComparator` | `StoredKeysAreFound` | 21 |

### Bounds

All B- and B+-trees have order 2, the least that `setOrder()` accepts: pages have 1 to 3 keys
(2 to 4 in B+ leaves), so splits, rotations and merges happen soonest. `MaxSize`
bounds the keys stored at once: a B-tree of order 2 can reach height 3 with the 9th
insertion, and the runs that need height 3 allow 9 to 10. `Mixing` stops at 6
(`FewMixed`), which is two levels with every rotation and merge between leaves, the
root merged away, and freed pages reused. Keys are `{1, 2}` or `{1, 2, 3}`: repeated
keys are the difficult case of the searches, and two values cannot tell a rotation that
takes the wrong neighbour, which is why the runs about the order of keys use three.

B\*- and B\*+-trees have order 4, their least: pages have 2 to 4 keys and the root up
to 5. `bstar` inserts up to 13 keys (`FewInserted`), which is three leaves, sharing in
both directions and a split of two into three, and empties trees of up to 11
(`FewEmptied`); `bstarplus` has 8 and 10. The tall trees are built by `Ascending`: 70
keys give a B\*-tree of height 4, 30 a B\*+-tree of height 3, and `MaxRemovals` is 1
and 2. Only `MCBStarTreeWrongKey.cfg` has order 7, the least for which `MinKeys` and
`MaxKeys / 2` differ.

The files of `treefile` have 4 pages of 21 bytes (the size for order 2 and keys of one
byte): enough for a second and a third file of one object, and for two free pages
while one is in use. `UMod` is small but larger than the file (`FitsAssumption`), as
2^32 is for a file below 4 GiB; only the wrap at 0 depends on it.

`VirtualTable` has 2 or 3 primary keys and up to `MaxOps` (5 to 7) counted operations
per connection; `RebuildCount` is 2 (1000 in the code) and `RebuildMaxCount` at most 6
(10000), so that a tree is reviewed up to three times and rebuilt in both directions
between the B\*- and the B\*+-tree; it is 100 in the configurations that are not about
rebuilding. `KeyMod` is 4: keys are below it except in `MCVirtualTableWideKeys.cfg`.
`UndefinedAnswers` is `{TRUE}`: these runs assume a build in which the missing return
statement of finding 12 reads as true, and with `{TRUE, FALSE}` they meet it. In
`vtab_appending` the tree has at most two surplus keys (`FewSurplusKeys`).
`SharedComparator` has bytes 0 and 1 and keys of one and two bytes; a table has at most
four keys, and `PageCapacity` decides whether that is one page or several.

`MaxSize`, `MaxPages`, `MaxRemovals` and `MaxOps` appear in guards (`Insert`,
`AllocNewPage`, `Ascending`, `Working`), `FewInserted`, `FewEmptied` and `FewMixed` in
the clients. Deadlock is checked everywhere but in `MCVirtualTableRollback.cfg`: there
a table whose DROP was rolled back has no file and cannot be opened again.

### Fairness

`BaseSpec`, `Spec`, `BPlusSpec` and the `StarSpec`s assume weak fairness of the steps of a running
call and of nothing else. The library is single-threaded and a call does not wait
for anything: once entered it runs to its end in the caller's thread. Clients need
not make a call, and no fairness is assumed of `LoadTree`. The clients of the `MC`
modules (`MCSpec`, `BPlusReopeningSpec`) have the same fairness, of steps of a running call only.
`PageFile`, `TreeFile`, `VirtualTable` and `SharedComparator` are checked for safety
only and assume no fairness: nothing in them waits for anything.

## 4. Findings

`bplus_router` shows finding 4, `vtab_crash` finding 17, the configurations of the table
above the others.

1. **First free page, 64-bit `unsigned long`** (`btree.hpp:671`).
   `getLastFreePageNumOfs()` computes `(_freePagesCounter - 1) * 4` in `UInt`; for a
   counter of 0 it wraps, and in a 64-bit sum it does not wrap back. The first
   number recorded goes 4 GiB behind its place; the next allocation reads 0 and
   uses page 0, which `btree.h:40` calls nonexistent. Where both types have 32
   bits, the wrap is undone and `treefile` shows the layout correct.
2. **`getAndRemoveMinKey()`** (`btree.hpp:497`) descends under the last cursor and
   not the first, so in a subtree of two levels it takes a key that is not the
   least.
3. **Stale root after a merge, B-tree** (`btree.hpp:331`). `mergeChildren()` loads the
   new root into `_rootPage`, but `remove()` goes on with its own wrapper of the same
   page. `_rootPage` keeps the old contents and later calls answer from it.
4. **Routers of a B+-tree** (`btree.hpp:1292`, `:1314`). Borrowing from the left
   leaves the router as it was; borrowing from the right changes it in memory
   without a write. `search()` then misses a stored key.
5. **Stale root after a merge, B+-tree** (`btree.hpp:1343`). After a merge into a
   left sibling that became the root, `remove()` goes on with `leftSibling`; the
   removed key is still found.
6. **Pages with too many keys** (`btree.hpp:1953`, `:2284`). Two children of a
   B\*-tree's root, or two inner pages of a B\*+-tree, merge with the key between them
   into 2 * MinKeys + 1 keys, more than `getMaxKeys()` for order 4.
7. **Sharing with such a page** (`btree.hpp:1737`). `isFull()` compares with `==`, so a
   page with too many keys is offered more; the number of keys to move is then not
   positive and is used as an unsigned number.
8. **A stored key is missed, B\*-tree** (`btree.hpp:1850`). Below the root, preparing
   the child can move the key sought into the page above, where `remove()` no longer
   looks.
9. **A freed page is used, B\*-tree** (`btree.hpp:1856`). The second attempt is made
   with a child that the merge has freed; a merge below it frees pages in use.
10. **The wrong key is removed, B\*-tree** (`btree.hpp:1685`). After a merge at the
    root the key is taken to be at position `getMaxKeys() / 2`.
11. **Routers of a B\*+-tree** (`btree.hpp:2213`, `:2234`), as finding 4: `BorrowFromLeft`
    and `BorrowFromRight` treat the router as those of the B+-tree do.
12. **No return statement** (`btree.hpp:2183`). `BaseBStarPlusTree::remove()` ends
    without one after a removal. In the extension, an answer that reads as false undoes
    the DELETE in the table only.
13. **A closed tree keeps its counters** (`btree.hpp:2758`). `create()` on an object
    that has closed a file with free pages takes its root page from them.
14. **The record of a rebuild is undone** (`btrees_mods.c:1000`) with the statement that
    triggered it; the next connection opens the file as the wrong type of tree. With a
    file of one page it can search, and its process ends at the first change of the tree
    (`btree.hpp:818`).
15. **ROLLBACK** (`btrees_mods.c:353`) leaves the tree as it is.
16. **ROLLBACK of DROP TABLE** (`btrees_mods.c:79`) does not bring the file back.
17. **A crash in `rebuildIndex()`** (`btrees_mods.c:989`) leaves no file, or an
    incomplete one of another type.
18. **Two connections** (`btrees_mods.c:192`) do not see each other's rows.
19. **64-bit keys** (`btrees_mods.c:838`) are indexed by their low 32 bits.
20. **The row id is taken for the primary key** (`btrees_mods.c:304`) in DELETE and
    UPDATE, which fail for any other primary key.
21. **Rebuilding with another table's key size** (`btrees_mods.c:995`) puts keys out of
    order if the old tree does not return them in order.
22. **A rebuild during another connection's transaction** (`btrees_mods.c:1000`)
    replaces the file, but cannot record its new type, with the effects of finding 14.

The trees' behaviours were compared with executions of the code for all four tree
types and agree.

## 5. Proofs

### Insertion, page by page: `TreeProofs`, part 1

For the specification of insertion, search and reopening (`BaseSpec`), for both tree
types, every order from 2 on, every set of integer keys and every bound `MaxSize`:

| Theorem | States |
|---|---|
| `InsertTypeCorrect` | `BaseSpec => []TypeOK` |
| `InsertNeverThrows` | `BaseSpec => []NeverThrows` |
| `InsertOccupancy` | `BaseSpec => []Occupancy` |
| `InsertRootInMemory` | `BaseSpec => []RootInMemory` |

The assumptions are those `TreeCore` and `TreeBase` state of the constants: `OrderAssumption`
(`setOrder()` throws for less), `TypeAssumption`, `KeysAssumption`,
`SizeAssumption`. The runs evaluate them.

None of the four is inductive alone. That `insertNonFull()` never meets a full page
needs that a split leaves both halves below the maximum, which needs the bounds of
every page; that a split's three writes hit three different pages, and that a local
wrapper is never a second copy of `_rootPage`, needs that a cursor never leads to the
root or to its own page. `InsertInv` collects this:

* `PagesOK`: every page has legal numbers of keys and cursors, and its cursors lead
  to existing pages other than the root and itself;
* `CallOK`: the function that runs is one of insertion or search, works on a page
  that is not a second copy of the root, and, for `insertNonFull()`, that is not full;
* `TypeOK`, `RootInMemory`, and an empty stack of free pages (nothing is freed
  without deletion).

`InitInv` and `NextInv` prove it inductive, one lemma per action
(`InsertIntoLeafStep`, `SplitAndDescendStep`, `GrowRootStep`, `DescendStep`,
...), with the steps that only read, which `TreeLemmas` treats for all trees at once
(`SearchReads`, `SearchAllReads`, `LoadTreeReads`). They rest on lemmas about the operators:
`InsertAtProperties` and `SubSeqIn` (what sequence operations return),
`FirstNotLessRange`, `AfterLastNotGreaterRange`, `EqualRunRange` (the scans stop
inside the page or one past it), `SplitLeftShaped`, `SplitRightShaped`,
`SplitParentShaped` (the three pages of a split are legal).

### Insertion, the whole tree: `TreeProofs`, parts 2 and 3

For the same specification, under the same assumptions, for trees of every height:

| Theorem | States |
|---|---|
| `InsertBalanced` | `BaseSpec => []Balanced` |
| `InsertPagesAccounted` | `BaseSpec => []PagesAccounted` |
| `InsertKeysInOrder` | `BaseSpec => []KeysInOrder` |

All three properties follow the cursors from the root to any depth, while a step
changes up to three pages somewhere in the tree. They are not inductive: a page that
cannot be reached yet may be wrong and be linked later. The invariants say something
of each page and its neighbours instead, with a witness that a step changes in few
places:

* `TreeInv` (part of `ShapeInv`): there is a height for every page, 0 for the leaves
  and one more than that of each child elsewhere (`Heights`); no two cursors lead to
  the same page, and every page but the root has one that leads to it. A split gives
  the new half the height of the old one, and only a new root adds a height.
* `OrderInv`: there is a set of keys for every page, those that may go below it
  (`Ordered`). The keys of a page are in its set and ascend, the set of each child is
  part of its parent's and lies between the two keys next to its cursor; the key on
  its way down is in the set of the page that `insertNonFull()` has reached. With sets
  instead of bounds a repeated key may lie on both sides of an equal one, as it does in
  the code. A split cuts the child's set at the median (`SplitKeepsOrder`); a step down
  adds the key to the set of the child chosen, which is between its neighbours because
  of where the scan stopped (`ScanStopsBetween`, `ChildTakesKey`).

`ShapeStep` and `OrderStep` carry these through the steps. What is left is to
read the properties off them: `Levels` and `KeysBelow` are recursive functions, and the
facts about them (a level holds pages of one height; every page is on a level; the walk
below a page ascends and stays in its set, `FlatOrdered`) are shown by least
counterexample (`LeastNumber`, from the library's `WFMin`), which needs no operator as
a parameter.

### Insertion and search are those of a bag: `TreeBagProofs`

For the same specification, under the same assumptions:

| Theorem | States |
|---|---|
| `InsertImplementsKeyBag` | `BaseSpec => ImplementsKeyBag` |
| `InsertOtherKeysKept` | `BaseSpec => OtherKeysKept` |
| `InsertSearchAllFindsAll` | `BaseSpec => SearchAllFindsAll` |
| `InsertSearchFindsStored` | `BaseSpec => SearchFindsStored` |

The first is the refinement: initial states map to initial states, and every step of
the tree maps to a step of `KeyBag` or to none. Two things have to be shown.

*What is stored.* `Stored` counts places in the pages that can be reached. By `ShapeInv`
those are all the pages, so the count is that of `Spots`, the pairs of page and position
(`ShapeCounts`). A split moves the keys of three pages about; `Moves` and `Comes` are
the two directions of the bijection between the places before and after it
(`KeysMove`, `KeysCome`, `SplitCount`), where the median of a B+-tree leaf is copied
and the copy is in an inner page, which does not count. A new root takes no key
(`NewRootCount`), and an insertion into a leaf adds exactly one place (`LeafAdds`,
`AddedCount`).

*What the searches answer.* `BagInv` adds to `ShapeInv` and `OrderInv`:

* `RoutersStored`, for the B+-tree: there is a set of keys for every page, taken from
  its keys for a leaf and from the sets of its children for an inner page, such that
  every router is in the set of the child in front of it. `search()` goes left of the
  first key that is not less; with an equal router there it finds the key only because
  of this. It does not survive removal, which is finding 4.
* `SearchInv`: if the key is stored, it is stored in or below the page that `search()`
  has reached (`SearchGoesOn`).
* `SearchAllInv`: the subtrees that `searchAll()` has still to visit are disjoint, and
  `answer` is the number of places outside them. The visit of a page replaces its
  subtree by those of the cursors around the equal keys (`StackVisits`), which hold
  every occurrence below it (`RunLeads`), and adds its own hits (`VisitCounts`).
* `OpInv`: which function runs for which call.

`Under` (the pages below a page) is defined as the least set closed under children, so
that no recursion is needed; `UnderDisjoint` and `UnderRoot` are shown by a page of
least height that would be an exception.

### Insertion into B\*- and B\*+-trees: `StarProofs`

For the `BaseSpec` of `StarBase`, both of its tree types, every order from 4 on
(`StarAssumption`), every set of integer keys and every bound `MaxSize`, under the
assumptions of `TreeCore`:

| Theorem | States |
|---|---|
| `StarTypeCorrect` | `BaseSpec => []TypeOK` |
| `StarNeverThrows` | `BaseSpec => []NeverThrows` |
| `StarOccupancy` | `BaseSpec => []Occupancy` |
| `StarRootInMemory` | `BaseSpec => []RootInMemory` |
| `StarBalanced` | `BaseSpec => []Balanced` |
| `StarPagesAccounted` | `BaseSpec => []PagesAccounted` |

For the B-tree the bounds of the pages could be proved first and the shape of the tree
afterwards. Here they need each other. Sharing lays two neighbours out as one page; the
result has one cursor more than keys only if both are leaves or none is, and that is a
fact about the heights of the whole tree. The writes hit three different pages only if
no two cursors lead to the same page. Conversely the tree stays one only if the cut
pages have all the cursors of the layout. `StarInv` therefore has both, `TreeInv` and
`AllFilled` (every page has legal numbers of keys and cursors), with `CoreOK` (what the
searches rely on) and `HasRoom` (the page that `insertNonFull()` works on is not full).

The argument, from below:

* `StarBounds`: what `setOrder()` computes by rounding. The three pages of a split get
  together what two full pages and the key between them have, and each lies between
  the minimum and the maximum, by cases on the order modulo 3.
* `CutIs`, `JoinedIs`, `CutInTwo`, `CutInThree`: what `Joined` and `Cut` return, and that
  the parts have the children of the whole, each once. With a gap of 0 (leaves of a
  B\*+-tree) or 1.
* `ShareBounds`: a full page and one that is not full share their keys such that the
  neighbour gets some, the page loses some, and the neighbour becomes full only if it
  lacked one key. That is the case in which the page with the new key might be the full
  one; `RefusedByLeft` and `RefusedByRight` exclude it (`StarShareLeft`,
  `StarShareRight`), and the two pages are split into three (`StarSplitTwo`).
* `Spread`, `SpreadKeepsTree` (`TreeLemmas`): the children of some pages on one level
  are dealt out again among them and new pages beside them; heights and owners survive.

`StarInsert`, `StarLeaf`, `StarDescend`, `StarShareLeft`, `StarShareRight`,
`StarSplitTwo` and, for the searches and reopening, `StarReads` are the cases of
`StarNext`.

### The page file: `TreeFileProofs`

For every page size, every number of pages whose offsets fit (`FitsAssumption`), every
set of contents, and a client that creates no file after one with free pages
(`TidySpec`):

| Theorem | States |
|---|---|
| `FileTypeOK` | `TidySpec => []TypeOK` |
| `FilePagesAccounted` | `TidySpec => []PagesAccounted` |
| `FileHeldPagesIntact` | `TidySpec => []HeldPagesIntact` |
| `FileOpenRestores` | `TidySpec => OpenRestores` |
| `FileImplementsFreePages` | `TidySpec => ImplementsFreePages` |

Each assumes `SameWidth`, that `unsigned long` is as wide as `unsigned int`. It cannot
be dropped: where it is wider, `getLastFreePageNumOfs()` with a counter of 0 wraps in
`UInt` and does not wrap back in the sum, and the first number recorded goes 4 GiB behind
its place (finding 1). `TidySpec` cannot be replaced by `FileSpec`
either (finding 13).

What the properties say of single pages follows only from where everything lies in
the file. `FileInv` says that the extents of the file do not overlap (`Sound`); that the
page counter, the root page number, every page in use, the free pages counter and each
number of the free pages area are extents at the places the offsets give (`Laid`,
`Stored`); and that every page is in use or on the stack, once (`Accounted`). The
steps need that no two of these places overlap (`Layout`, `Places`), that a write
keeps every extent it does not touch (`WriteIsSound`), that reading an extent returns
it (`ReadReturns`), and, for the growth of the area, that a stack of different page
numbers is no longer than the file has pages, a pigeonhole argument (`StackFits`).
Allocation is the delicate one: the new page lies where the area was, whose counter,
0, is written again one page further.

### The virtual table: `VirtualTableProofs`

For every set of connections and keys, every bound on operations and every choice of
`ChosenIndex`:

| Theorem | States | Assumes |
|---|---|---|
| `TablesHaveFiles` | `Spec => []TableHasFile` | |
| `RecordedTypesAreBuilt` | `AgreeableSpec => []RecordedTypeIsBuilt` | |
| `TurnsIndexMatchesRows` | `TurnsSpec => []IndexMatchesRows` | `Plain` |
| `TurnsFilterFindsRows` | `TurnsSpec => FilterFindsRows` | `Plain` |
| `TurnsFoundRowsChange` | `TurnsSpec => FoundRowsChange` | `Plain` |
| `AppendedRowsAreIndexed` | `Init /\ [][AppendingNext /\ OneAtATime]_vars => []RowsAreIndexed` | |
| `PagesAlwaysFit` | `UnreliableSpec => []PagesFit` | |

`Plain` says that the primary key is the row id, that keys are below `KeyMod`, and that
the B\*+-tree's `remove()` answers TRUE; without one of them findings 20, 19 and 12
refute the theorem. In `TurnsSpec` and in the specification of `AppendedRowsAreIndexed`
any number of connections may have the table, one at a time; two at once lose keys
(finding 18). The first two theorems and the last allow any number of them at once.
`RecordedTypesAreBuilt` excludes exactly the two ways in which a record is lost,
`Unrefused` finding 14 and `Unhindered` finding 22. `AppendedRowsAreIndexed` needs no
`Plain`: the keys may be of any type, and the two answers of `remove()` do not matter to a
client that removes nothing. Its specification is that of the run `vtab_appending`
without the bound on surplus keys, and includes the loss of a record and what follows
from it. `UnreliableSpec` has everything the module has: all statements, rollbacks, and
crashes within and outside a rebuild.

* `HasFileInv`: a statement runs only on a table that exists, and so does the table
  that its failure would bring back.
* `TypesAgree`: the file is of the recorded type and of the type that the failure of the
  statement in progress would bring back, and so no open stream has failed. Every step
  that ends a process by an exception needs one that has.
* `TurnsInv`: the file and the tree of the attached connection hold exactly the index
  entries of the rows, one each (`IndexInv`); a statement in progress has at most one
  row left to change, and then has changed nothing yet (`FoundInv`). Without the
  second half the update of a row could rekey an entry that is no longer there.
* `AppendingInv`: the file covers both the current rows and the ones that a rollback
  or a crash brings back, at most one connection has the table open, and its tree is the
  file's. `RowsAreIndexed` alone says nothing of the saved rows and does not survive a
  rollback.
* `PagesInv`: as long as the file is a B+-tree's, as which every file starts, the table,
  the one that was committed and the one that a statement's failure would bring back are
  recorded as that (`FreshInv`), so that no file with large pages is ever opened as a
  tree with small ones, whose reads would succeed; and a connection has the table open
  only if the table it sees exists (`CommittedInv`). The types that `rebuildIndex()`
  chooses, B\* and B\*+, have pages of one size, and a B+-tree that opens a file of
  theirs reads past its end.

TLC has checked `TurnsInv` and `AppendingInv` on the instances of `vtab_turns` and
`vtab_appending`.

### The comparator: `SharedComparatorProofs`

For every number of tables, keys of any sizes and bytes of any set of integers:

| Theorem | States | Assumes |
|---|---|---|
| `SmallTreesFindStored` | `Init /\ [][Next /\ SmallBStarTrees]_vars => []StoredKeysAreFound` | |
| `OnePageFindsStored` | `Spec => []StoredKeysAreFound` | the keys of a table fit into one page |

`SmallBStarTrees` says that no B\*-tree has more keys than a page holds; finding 21 is
what happens otherwise. The other trees may have several pages, which count as the
sequence of their keys: the theorem says that the keys stay in order, which is what the
comparator decides, and nothing about routers after removals (finding 4). The invariant (`OrderInv` of this module) is that the keys of every
tree ascend under the comparison of the table's own number of bytes, which is a total
order (`KeysOrdered`). The hard step is `rebuildIndex()`, which inserts with whatever
number of bytes was left. With fewer bytes fewer keys are less than others
(`FewerBytes`), with more there are no more bytes to compare; keys that come in order
are therefore each put behind the last, and the new tree is the old one
(`RebuiltSame`). `Rebuilt` is a recursive function, and the argument is again by least
counterexample.

### Only model-checked

* Liveness (`CallsReturn`): the prover does not do fairness.
* `KeysInOrder` and `ImplementsKeyBag` of the B\*- and B\*+-trees: sharing lays pages
  out as one and cuts them again anywhere, also between equal keys.
* All of removal (`ThreeMergesFit`, `RemoveNeverThrows`, and the properties of the trees
  in the runs with removal). The clients of those runs depend on the findings, and an
  invariant would have to describe what the findings leave behind.

## 6. Not modelled

* **Crashes** between two writes of one call of a tree: the code keeps no log and
  checks nothing on opening, so there is no recovery to verify. `LoadTree` happens
  between calls. In `VirtualTable` a crash happens between operations of the tree or
  between the steps of `rebuildIndex()`, and what the stream has accepted reaches the
  file.
* **I/O errors**, and files **beyond 4 GiB**, where `UInt` offsets wrap
  (`FitsAssumption` excludes them).
* **Bytes** of keys, except in `SharedComparator`; `writeDot`, the visualisation
  functions and logging; the experiments.
* **Searches during another connection's transaction**: they read and count, with the
  tree in memory that the connection has anyway. What they may do to the tree file, the
  rebuild when they are prepared, is modelled.
* **Statements** with other constraints than equality of the key, `xRename` (it changes
  names only), a DROP and a CREATE of the same table in one transaction, and trees of
  more than one page under the virtual table, for which the tree modules stand.
* **SQLite** itself. It is vendored as a whole and makes up nearly all the lines of the
  repository; the project's own code is the library, the C API and the extension.
* **`lib/`**: headers of a binary library; the text indexer they declare has no source
  here.
* The trees run on `FreePages` (a stack of page numbers), not on `PageFile` directly;
  `ImplementsFreePages` connects the two.

## 7. Plan

All parts with logic of their own are modelled; the page file, the virtual table and
insertion are proved about. What is left is proof, in this order:

1. `KeysInOrder` of insertion into `StarBase`: the sets of `OrderInv` for pages that are
   laid out as one and cut again, where sharing may move the cut next to equal keys.
2. `ImplementsKeyBag` for `StarBase`: the bijections of `TreeBagProofs` for `Joined` and
   `Cut`; the lemmas about the searches carry over.
3. `ThreeMergesFit`: the sizes of three neighbours under removal.
