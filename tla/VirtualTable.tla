----------------------------- MODULE VirtualTable -----------------------------
(***************************************************************************)
(* The SQLite extension btrees_mods: a virtual table keeps its rows in an  *)
(* SQL table and an index of their primary keys in a tree file of its own. *)
(* SQLite makes the SQL side transactional; the extension has no xBegin,   *)
(* xCommit or xRollback, so that the tree file is not.  Every connection   *)
(* has the tree's root page in memory.  A tree of order 750 that stays     *)
(* below 750 keys is that one page, and a connection never reads it again: *)
(* the tree is here the bag of its keys.                                   *)
(*                                                                         *)
(* A statement is prepared (xBestIndex), filtered (xFilter) and applied to *)
(* the rows it has found (xUpdate); its SQL changes are undone if it       *)
(* fails.  Transactions of different connections do not overlap, but while *)
(* one is in a transaction the others may prepare statements.              *)
(***************************************************************************)
EXTENDS Integers, Bags, FiniteSetsExt, Functions

CONSTANTS Connections,       \* database connections, each in a process of its own
          Keys,              \* primary key values
          KeyMod,            \* tree keys are modulo KeyMod (2^32 in the code)
          KeyIsRowid,        \* whether the key column is INTEGER PRIMARY KEY
          RebuildCount,      \* REBUILD_COUNT (1000)
          RebuildMaxCount,   \* REBUILD_MAX_COUNT (10000)
          UndefinedAnswers,  \* what the B*+-tree's remove() may return on success
          MaxOps             \* bound on the index operations of a connection

NoConnection == "none"

ASSUME VirtualTableAssumption ==
    /\ NoConnection \notin Connections
    /\ Keys \subseteq Nat \ {0}
    /\ KeyMod \in Nat \ {0}
    /\ KeyIsRowid \in BOOLEAN
    /\ RebuildCount \in Nat \ {0}
    /\ RebuildMaxCount \in Nat
    /\ UndefinedAnswers \subseteq BOOLEAN /\ UndefinedAnswers # {}
    /\ MaxOps \in Nat

TREE_ORDER == 750

BTREE_NUM == 1
BPLUSTREE_NUM == 2
BSTARTREE_NUM == 3
BSTARPLUSTREE_NUM == 4

VARIABLES sql,      \* the SQL side: does the table exist, its rows, the recorded type
          saved,    \* the SQL side as last committed
          file,     \* the tree file: the type it was built as and its keys
          conn,     \* per connection: its btreesModsVirtualTable
          txn,      \* the connection in a transaction, or NoConnection
          stmt      \* the statement that is being executed

vars == <<sql, saved, file, conn, txn, stmt>>

NoRows == [x \in {} |-> 0]
NoTable == [exists |-> FALSE, rows |-> NoRows, bestIndex |-> BPLUSTREE_NUM]
NoFile == [exists |-> FALSE, type |-> BPLUSTREE_NUM, keys |-> EmptyBag]
NoStmt == [kind |-> "none", key |-> 0, newKey |-> 0, found |-> EmptyBag, before |-> NoTable]
Detached ==
    [attached |-> FALSE, linked |-> FALSE, bestIndex |-> BPLUSTREE_NUM, keys |-> EmptyBag,
     isOpened |-> FALSE, searches |-> 0, inserts |-> 0, deletes |-> 0, isOriginal |-> FALSE]

Init ==
    /\ sql = NoTable
    /\ saved = NoTable
    /\ file = NoFile
    /\ conn = [c \in Connections |-> Detached]
    /\ txn = NoConnection /\ stmt = NoStmt
    /\ stmt = NoStmt

-------------------------------------------------------------------------------
(* Tree keys: the primary key's bytes followed by the row id. *)

\* sqlite3_value_int() keeps the low 32 bits of the key.
TreeKey(x) == x % KeyMod

createTreeKey(x, rowId) == <<TreeKey(x), rowId>>

Matching(keys, tk) == {e \in BagToSet(keys) : e[1] = tk}

\* Fault: the row id is compared too.
searchAllWhole(keys, x) == [e \in BagToSet(keys) \cap {createTreeKey(x, 0)} |-> keys[e]]

searchAll(keys, x) == [e \in Matching(keys, TreeKey(x)) |-> keys[e]]

Plus(keys, e) == keys (+) SetToBag({e})
Minus(keys, e) == keys (-) SetToBag({e})

\* The row id that SQLite gives a new row.
NewRowId(rows, x) ==
    IF KeyIsRowid THEN x ELSE 1 + Max({0} \cup {rows[y] : y \in DOMAIN rows})

\* The rows after the insertion of one.
WithRow(rows, x, rowId) == [z \in DOMAIN rows \cup {x} |-> IF z = x THEN rowId ELSE rows[z]]

\* The rows whose primary key equals the value of argv[0] of xUpdate, which
\* is the row id: none unless the row id is the primary key.
RowsWithKey(rows, rowId) == {x \in DOMAIN rows : KeyIsRowid /\ x = rowId}

\* Fault: the row id is compared too.
KeysWithWholeKey(keys, rowId) == BagToSet(keys) \cap {createTreeKey(rowId, 0)}

\* The tree keys equal to the one made of argv[0].
KeysWithKey(keys, rowId) == IF KeyIsRowid THEN Matching(keys, TreeKey(rowId)) ELSE {}

\* getRowId(): 0 if there is no such row.
getRowId(rows, x) == IF x \in DOMAIN rows THEN rows[x] ELSE 0

-------------------------------------------------------------------------------
(* The connection's tree. *)

Updates(t) == t.inserts + t.deletes
Total(t) == Updates(t) + t.searches

\* How many keys a page of each type of tree has space for (setOrder()).
PageKeys(type) ==
    CASE type = BTREE_NUM -> 2 * TREE_ORDER - 1
      [] type = BPLUSTREE_NUM -> 2 * TREE_ORDER
      [] OTHER -> 2 * ((2 * TREE_ORDER - 2) \div 3) + 1

\* Fault: the stream stays good when it ends within the root page.
ReadsAnyPage(type, built) == TRUE

\* Whether loadRootPage() reads all of the root page, the last one of a file that
\* was built as one type and is opened as another.
ReadsRootPage(type, built) == PageKeys(type) <= PageKeys(built)

\* The new state t of connection c is the state of its root page; a change of
\* its keys is written to the file that it has open.
Store(c, t) ==
    /\ conn' = [conn EXCEPT ![c] = t]
    /\ file' = IF t.linked /\ file.exists /\ t.keys # conn[c].keys
               THEN [file EXCEPT !.keys = t.keys] ELSE file

\* REBUILD_SPLIT_PERCENT_POINT is 0.7397.
ChosenIndex(t) ==
    IF 10000 * t.inserts > 7397 * Updates(t) THEN BSTARTREE_NUM ELSE BSTARPLUSTREE_NUM

\* REBUILD_COEF is 0.1.
rebuildIndexIfNecessary(t) ==
    /\ t.isOriginal
    /\ Total(t) # 0
    /\ Total(t) <= RebuildMaxCount
    /\ Total(t) % RebuildCount = 0
    /\ 10 * Updates(t) >= Total(t)
    /\ ChosenIndex(t) # t.bestIndex

\* Fault: the new tree is left empty.
rebuildIndexEmpty(t) ==
    [t EXCEPT !.bestIndex = ChosenIndex(t), !.linked = TRUE, !.isOpened = TRUE, !.keys = EmptyBag]

\* The connection after rebuildIndex(): every key of the old tree is in the new.
rebuildIndex(t) ==
    [t EXCEPT !.bestIndex = ChosenIndex(t), !.linked = TRUE, !.isOpened = TRUE]

\* Fault: the new type is not recorded.
RecordedForgotten(s, t) == s

\* The SQL side after rebuildIndex().
Recorded(s, t) == [s EXCEPT !.bestIndex = ChosenIndex(t)]

\* The tree file is replaced: connections that have the old one open keep it.
Replaced(c, t) ==
    /\ conn' = [d \in Connections |-> IF d = c THEN t ELSE [conn[d] EXCEPT !.linked = FALSE]]
    /\ file' = [exists |-> TRUE, type |-> t.bestIndex, keys |-> t.keys]

\* rebuildIndexIfNecessary() as the beginning of an operation that leaves the
\* connection in the state t.
Finish(c, t) == IF rebuildIndexIfNecessary(conn[c]) THEN Replaced(c, t) ELSE Store(c, t)

Reviewed(t) == IF rebuildIndexIfNecessary(t) THEN rebuildIndex(t) ELSE t

SqlReviewed(t) == IF rebuildIndexIfNecessary(t) THEN Recorded(sql, t) ELSE sql

\* The answers removeKey() may give when it has removed a key: the B*+-tree's
\* remove() has no return statement there.
RemoveAnswers(t) == IF t.bestIndex = BSTARPLUSTREE_NUM THEN UndefinedAnswers ELSE {TRUE}

-------------------------------------------------------------------------------
(* The table. *)

Idle(c) == txn \in {NoConnection, c} /\ stmt = NoStmt

\* btreesModsCreate(): the table, its entry in btrees_mods_idxinfo and a file
\* with a name of its own.
Create(c) ==
    /\ Idle(c)
    /\ ~sql.exists /\ ~saved.exists
    /\ txn' = c
    /\ sql' = [NoTable EXCEPT !.exists = TRUE]
    /\ file' = [NoFile EXCEPT !.exists = TRUE]
    /\ conn' = [conn EXCEPT ![c] = [Detached EXCEPT !.attached = TRUE, !.linked = TRUE,
                                                    !.isOpened = TRUE, !.isOriginal = TRUE]]
    /\ UNCHANGED <<saved, stmt>>

\* btreesModsConnect(): the file is opened as the recorded type; its statistics
\* start anew and are not original.  If the file ends within what is taken for
\* the root page, the keys have been read, but the stream has failed for good:
\* nothing checks it before a page is to be written.
Connect(c) ==
    /\ Idle(c)
    /\ sql.exists /\ ~conn[c].attached
    /\ file.exists
    /\ conn' = [conn EXCEPT ![c] = [Detached EXCEPT !.attached = TRUE, !.linked = TRUE,
                                                    !.bestIndex = sql.bestIndex,
                                                    !.keys = file.keys,
                                                    !.isOpened = ReadsRootPage(sql.bestIndex,
                                                                               file.type)]]
    /\ UNCHANGED <<sql, saved, file, txn, stmt>>

Disconnect(c) ==
    /\ txn # c
    /\ conn[c].attached
    /\ conn' = [conn EXCEPT ![c] = Detached]
    /\ UNCHANGED <<sql, saved, file, txn, stmt>>

\* btreesModsDestroy(): the tree file goes at once, the table with the commit.
Destroy(c) ==
    /\ Idle(c)
    /\ conn[c].attached /\ sql.exists
    /\ txn' = c
    /\ sql' = NoTable
    /\ file' = NoFile
    /\ conn' = [d \in Connections |->
                   IF d = c THEN Detached ELSE [conn[d] EXCEPT !.linked = FALSE]]
    /\ UNCHANGED <<saved, stmt>>

-------------------------------------------------------------------------------
(* Statements. *)

Working(c) ==
    /\ Idle(c)
    /\ conn[c].attached /\ sql.exists
    /\ Total(conn[c]) < MaxOps

\* Connection c, which sees the SQL side as committed, can prepare a statement
\* while another connection is in a transaction, but not write to the SQL side.
Hindered(c) ==
    /\ txn \notin {NoConnection, c}
    /\ conn[c].attached /\ saved.exists
    /\ Total(conn[c]) < MaxOps

\* btreesModsBestIndex().  That SQLite is busy when the new type is to be
\* recorded is ignored.
BestIndex(c) ==
    /\ rebuildIndexIfNecessary(conn[c])
    /\ \/ Working(c) /\ txn' = c /\ sql' = SqlReviewed(conn[c])
       \/ Hindered(c) /\ UNCHANGED <<sql, txn>>
    /\ Finish(c, Reviewed(conn[c]))
    /\ UNCHANGED <<saved, stmt>>

\* btreesModsFilter() of SELECT, DELETE or UPDATE ... WHERE key = x.
Filter(c, kind, x, y) ==
    /\ Working(c)
    /\ txn' = c
    /\ conn' = [conn EXCEPT ![c].searches = @ + 1]
    /\ stmt' = [kind |-> kind, key |-> x, newKey |-> y,
                found |-> searchAll(conn[c].keys, x), before |-> sql]
    /\ UNCHANGED <<sql, saved, file>>

FailStatement ==
    /\ sql' = stmt.before
    /\ stmt' = NoStmt

\* The process of connection c ends, and SQLite undoes its transaction.
Die(c) ==
    /\ conn' = [conn EXCEPT ![c] = Detached]
    /\ IF txn = c THEN sql' = saved /\ txn' = NoConnection /\ stmt' = NoStmt
                  ELSE UNCHANGED <<sql, txn, stmt>>
    /\ UNCHANGED <<saved, file>>

\* writePage() throws when the stream has failed, and nothing catches it.
Terminate(c) == ~conn[c].isOpened /\ Die(c)

\* btreesModsNext() and btreesModsColumn() of a SELECT.
ReadRow(c, e) ==
    /\ txn = c /\ stmt.kind = "select"
    /\ stmt' = [stmt EXCEPT !.found = Minus(@, e)]
    /\ UNCHANGED <<sql, saved, file, conn, txn>>

\* btreesModsDelete(): SQLite passes every row id once.
DeleteRow(c, e) ==
    LET t == [conn[c] EXCEPT !.deletes = @ + 1]
        hits == KeysWithKey(t.keys, e[2])
        left == {d \in BagToSet(stmt.found) : d[2] # e[2]}
        Succeed ==
            /\ sql' = [sql EXCEPT !.rows = Restrict(@, DOMAIN @ \ RowsWithKey(@, e[2]))]
            /\ stmt' = [stmt EXCEPT !.found = Restrict(@, left)]
    IN  /\ txn = c /\ stmt.kind = "delete"
        /\ \/ hits # {} /\ Terminate(c)
           \/ /\ hits = {} \/ conn[c].isOpened
              /\ \/ \E h \in hits, ok \in RemoveAnswers(t) :
                       /\ Store(c, [t EXCEPT !.keys = Minus(@, h)])
                       /\ IF ok THEN Succeed ELSE FailStatement
                 \/ hits = {} /\ Store(c, t) /\ FailStatement
              /\ UNCHANGED <<saved, txn>>

\* The rows with row id's key changed to y.
Rekeyed(rows, rowId, y) ==
    LET from == RowsWithKey(rows, rowId)
    IN  [z \in (DOMAIN rows \ from) \cup {y : w \in from} |->
            IF z = y /\ from # {} THEN NewRowId(rows, y) ELSE rows[z]]

\* btreesModsDoUpdate(): sets the key of a found row to stmt.newKey.
UpdateRow(c, e) ==
    LET y == stmt.newKey
        t == [conn[c] EXCEPT !.deletes = @ + 1]
        from == RowsWithKey(sql.rows, e[2])
        rows == Rekeyed(sql.rows, e[2], y)
        Succeed ==
            /\ sql' = [sql EXCEPT !.rows = rows]
            /\ stmt' = [stmt EXCEPT !.found = Minus(@, e)]
        conflict == from # {} /\ y \in DOMAIN sql.rows \ from
        same == KeyIsRowid /\ y = e[2]
        hits == KeysWithKey(t.keys, e[2])
    IN  /\ txn = c /\ stmt.kind = "update"
        /\ \/ ~conflict /\ ~same /\ hits # {} /\ Terminate(c)
           \/ /\ conflict \/ same \/ hits = {} \/ conn[c].isOpened
              /\ \/ conflict /\ FailStatement /\ UNCHANGED <<conn, file>>
                 \/ ~conflict /\ same /\ Succeed /\ UNCHANGED <<conn, file>>
                 \/ /\ ~conflict /\ ~same
                    /\ \E h \in hits, ok \in RemoveAnswers(t) :
                          LET u == [t EXCEPT !.keys = Minus(@, h)]
                              key == createTreeKey(y, getRowId(rows, y))
                          IN  \/ ~ok /\ Store(c, u) /\ FailStatement
                              \/ /\ ok /\ Succeed
                                 /\ Store(c, [u EXCEPT !.keys = Plus(@, key),
                                                       !.inserts = @ + 1])
                 \/ ~conflict /\ ~same /\ hits = {} /\ Store(c, t) /\ FailStatement
              /\ UNCHANGED <<saved, txn>>

EndStatement(c) ==
    /\ txn = c /\ stmt.kind # "none"
    /\ stmt.found = EmptyBag
    /\ stmt' = NoStmt
    /\ UNCHANGED <<sql, saved, file, conn, txn>>

\* Fault: the key is put into the tree before the SQL side can refuse the row.
InsertRowTreeFirst(c, x) ==
    LET t == Reviewed(conn[c])
        rowId == NewRowId(sql.rows, x)
    IN  /\ Working(c)
        /\ txn' = c
        /\ Finish(c, [t EXCEPT !.keys = Plus(@, createTreeKey(x, rowId)), !.inserts = @ + 1])
        /\ \/ x \in DOMAIN sql.rows /\ UNCHANGED sql
           \/ /\ x \notin DOMAIN sql.rows
              /\ sql' = [SqlReviewed(conn[c]) EXCEPT !.rows = WithRow(@, x, rowId)]
        /\ UNCHANGED <<saved, stmt>>

\* An INSERT that fails behind the review of the index.  What the review has
\* recorded is undone with the statement, unless the statement is one row of an
\* explicit transaction: SQLite keeps no statement journal for that.
RefuseInsert(c) ==
    /\ txn' = c
    /\ sql' \in {sql, SqlReviewed(conn[c])}
    /\ Finish(c, Reviewed(conn[c]))
    /\ UNCHANGED <<saved, stmt>>

\* The row is inserted, and then its key.
AddRow(c, x) ==
    LET t == Reviewed(conn[c])
        rowId == NewRowId(sql.rows, x)
    IN  /\ conn[c].isOpened
        /\ txn' = c
        /\ sql' = [SqlReviewed(conn[c]) EXCEPT !.rows = WithRow(@, x, rowId)]
        /\ Finish(c, [t EXCEPT !.keys = Plus(@, createTreeKey(x, rowId)), !.inserts = @ + 1])
        /\ UNCHANGED <<saved, stmt>>

\* btreesModsInsert(): the SQL side refuses a key that is there.
InsertRow(c, x) ==
    /\ Working(c)
    /\ \/ x \in DOMAIN sql.rows /\ RefuseInsert(c)
       \/ x \notin DOMAIN sql.rows /\ (AddRow(c, x) \/ Terminate(c))

\* btreesModsInsert() with a key of another type than the column's.
InsertMismatch(c) == Working(c) /\ RefuseInsert(c)

-------------------------------------------------------------------------------
(* SQLite's transactions, and crashes. *)

\* BEGIN IMMEDIATE, or a statement about another table of the database.
Begin(c) ==
    /\ txn = NoConnection /\ stmt = NoStmt
    /\ txn' = c
    /\ UNCHANGED <<sql, saved, file, conn, stmt>>

\* Connections notice with the commit that the table is gone.
Commit(c) ==
    /\ txn = c /\ stmt = NoStmt
    /\ txn' = NoConnection
    /\ saved' = sql
    /\ conn' = IF sql.exists THEN conn ELSE [d \in Connections |-> Detached]
    /\ UNCHANGED <<sql, file, stmt>>

\* ROLLBACK, or the failure of a statement after some of its rows.
Rollback(c) ==
    /\ txn = c
    /\ txn' = NoConnection
    /\ sql' = saved
    /\ stmt' = NoStmt
    /\ conn' = IF sql.exists = saved.exists THEN conn ELSE [conn EXCEPT ![c] = Detached]
    /\ UNCHANGED <<saved, file>>

Crash(c) == conn[c].attached /\ Die(c)

\* It dies in rebuildIndex(), before the new type is recorded: the old file is
\* gone, the new one may have been created and filled in part.
CrashRebuilding(c) ==
    LET t == conn[c]
    IN  /\ Working(c) \/ Hindered(c)
        /\ rebuildIndexIfNecessary(t)
        /\ file' \in {NoFile} \cup {[exists |-> TRUE, type |-> ChosenIndex(t), keys |-> b] :
                                        b \in SubBag(t.keys)}
        /\ conn' = [d \in Connections |->
                       IF d = c THEN Detached ELSE [conn[d] EXCEPT !.linked = FALSE]]
        /\ IF txn = c THEN sql' = saved /\ txn' = NoConnection ELSE UNCHANGED <<sql, txn>>
        /\ UNCHANGED <<saved, stmt>>

-------------------------------------------------------------------------------
TableStep(c) == Create(c) \/ Connect(c) \/ Disconnect(c) \/ Destroy(c)

RowStep(c) ==
    \E e \in BagToSet(stmt.found) : ReadRow(c, e) \/ DeleteRow(c, e) \/ UpdateRow(c, e)

StatementStep(c) ==
    \/ BestIndex(c)
    \/ \E x \in Keys : Filter(c, "select", x, x) \/ Filter(c, "delete", x, x)
    \/ \E x, y \in Keys : Filter(c, "update", x, y)
    \/ RowStep(c)
    \/ EndStatement(c)
    \/ \E x \in Keys : InsertRow(c, x)
    \/ InsertMismatch(c)
    \/ Begin(c) \/ Commit(c)

Next == \E c \in Connections : TableStep(c) \/ StatementStep(c)

Spec == Init /\ [][Next]_vars

RollbackSpec == Init /\ [][Next \/ \E c \in Connections : Rollback(c)]_vars

CrashStep(c) == Crash(c) \/ CrashRebuilding(c)

CrashSpec == Init /\ [][Next \/ \E c \in Connections : CrashStep(c)]_vars

\* Whatever may happen to the transactions and processes of the connections.
UnreliableNext == Next \/ \E c \in Connections : Rollback(c) \/ CrashStep(c)

UnreliableSpec == Init /\ [][UnreliableNext]_vars

-------------------------------------------------------------------------------
(* Properties. *)

\* The tree keys of the rows with the primary keys in S.
IndexOf(rows, S) == SetToBag({createTreeKey(x, rows[x]) : x \in DOMAIN rows \cap S})

\* Between the rows of a statement, the tree of every connection and the tree
\* file index exactly the rows of the table, each once.
IndexMatchesRows ==
    (sql.exists /\ stmt = NoStmt) =>
        /\ file.keys = IndexOf(sql.rows, Keys)
        /\ \A c \in Connections :
              (conn[c].attached /\ txn \in {NoConnection, c}) => conn[c].keys = file.keys

\* Every row of the table can be found through the tree, of which rollbacks and
\* crashes may leave surplus keys.
RowsAreIndexed ==
    sql.exists =>
        \A x \in DOMAIN sql.rows :
            /\ BagIn(createTreeKey(x, sql.rows[x]), file.keys)
            /\ \A c \in Connections :
                  conn[c].attached => BagIn(createTreeKey(x, sql.rows[x]), conn[c].keys)

\* "Searches for rows in the table": btreesModsFilter() finds the row with the
\* given primary key if there is one, once, and no other row.
FilterFindsRows ==
    [][stmt.kind = "none" /\ stmt'.kind # "none" =>
           stmt'.found = IndexOf(sql.rows, {stmt'.key})]_vars

\* "Gets the type of the B-tree or its modification used in the virtual table":
\* the type that btrees_mods_idxinfo records, as which the next connection opens
\* the file, is the one the file was built as.
RecordedTypeIsBuilt == (sql.exists /\ file.exists) => sql.bestIndex = file.type

\* No page of another size than the file's is written into it: a connection that
\* has the table's file open, and whose stream has not failed, works with the
\* page size of the type that the file was built as, whatever statements,
\* transactions and processes ended in or after a rebuildIndex().
PagesFit ==
    \A c \in Connections :
        (conn[c].attached /\ conn[c].linked /\ conn[c].isOpened) =>
            file.exists /\ PageKeys(conn[c].bestIndex) = PageKeys(file.type)

\* A table that exists can be connected to: its tree file exists.
TableHasFile == sql.exists => file.exists

\* "Deletes the row from the virtual table": DELETE of a row that was found never
\* fails, and UPDATE of its key fails only if another row has the new key.
FoundRowsChange ==
    [][(stmt.kind # "none" /\ stmt.found # EmptyBag /\ stmt'.kind = "none") =>
           (stmt.kind = "update" /\ stmt.newKey \in DOMAIN sql.rows)]_vars
===============================================================================
