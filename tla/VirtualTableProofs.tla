-------------------------- MODULE VirtualTableProofs --------------------------
(***************************************************************************)
(* Proofs about VirtualTable, for any number of connections, keys and      *)
(* operations.                                                             *)
(***************************************************************************)
EXTENDS MCVirtualTable, FiniteSetTheorems, TLAPS

-------------------------------------------------------------------------------
(* The shape of the state. *)

IsTable(s) == s = [f \in {"exists", "rows", "bestIndex"} |-> s[f]]

IsFile(t) == t = [f \in {"exists", "type", "keys"} |-> t[f]]

IsConn(t) ==
    t = [f \in {"attached", "linked", "bestIndex", "keys", "isOpened", "searches", "inserts",
                "deletes", "isOriginal"} |-> t[f]]

IsStmt(m) ==
    /\ m = [f \in {"kind", "key", "newKey", "found", "before"} |-> m[f]]
    /\ IsTable(m.before)

Shape ==
    /\ IsTable(sql) /\ IsTable(saved)
    /\ IsFile(file)
    /\ conn = [c \in Connections |-> conn[c]]
    /\ \A c \in Connections : IsConn(conn[c])
    /\ IsStmt(stmt)

\* A statement runs on a table that exists, and stays undoable, while its connection
\* has the table open.
StatementInv ==
    stmt.kind # "none" => /\ sql.exists /\ stmt.before.exists
                          /\ \A c \in Connections : txn = c => conn[c].attached

HasFileInv == Shape /\ StatementInv /\ TableHasFile

\* What Store() does.
LEMMA StoreEffect ==
    ASSUME Shape, NEW c \in Connections, NEW t, IsConn(t), Store(c, t)
    PROVE  /\ conn' = [d \in Connections |-> conn'[d]]
           /\ \A d \in Connections : IsConn(conn'[d])
           /\ conn'[c] = t /\ \A d \in Connections \ {c} : conn'[d] = conn[d]
           /\ IsFile(file') /\ file'.exists = file.exists /\ file'.type = file.type
           /\ t.linked /\ file.exists /\ t.keys # conn[c].keys => file'.keys = t.keys
           /\ ~(t.linked /\ file.exists /\ t.keys # conn[c].keys) => file' = file
<1>1. conn' = [conn EXCEPT ![c] = t]
  BY DEF Store
<1>2. /\ conn' = [d \in Connections |-> conn'[d]]
      /\ conn'[c] = t /\ \A d \in Connections \ {c} : conn'[d] = conn[d]
  BY <1>1 DEF Shape
<1>3. \A d \in Connections : IsConn(conn'[d])
  BY <1>2 DEF Shape
<1>4. /\ IsFile(file') /\ file'.exists = file.exists /\ file'.type = file.type
      /\ t.linked /\ file.exists /\ t.keys # conn[c].keys => file'.keys = t.keys
      /\ ~(t.linked /\ file.exists /\ t.keys # conn[c].keys) => file' = file
  BY DEF Store, Shape, IsFile
<1> QED BY <1>2, <1>3, <1>4

\* A connection loses its file.
LEMMA UnlinkedConn ==
    ASSUME NEW t, IsConn(t)
    PROVE  /\ IsConn([t EXCEPT !.linked = FALSE])
           /\ [t EXCEPT !.linked = FALSE].attached = t.attached
           /\ [t EXCEPT !.linked = FALSE].keys = t.keys
           /\ [t EXCEPT !.linked = FALSE].linked = FALSE
           /\ [t EXCEPT !.linked = FALSE].isOpened = t.isOpened
           /\ [t EXCEPT !.linked = FALSE].bestIndex = t.bestIndex
BY DEF IsConn

\* What Finish() does.
LEMMA FinishEffect ==
    ASSUME Shape, NEW c \in Connections, NEW t, IsConn(t), Finish(c, t)
    PROVE  /\ conn' = [d \in Connections |-> conn'[d]]
           /\ \A d \in Connections : IsConn(conn'[d])
           /\ conn'[c] = t
           /\ \A d \in Connections \ {c} : /\ conn'[d].attached = conn[d].attached
                                           /\ conn'[d].keys = conn[d].keys
                                           /\ conn'[d].isOpened = conn[d].isOpened
                                           /\ conn'[d].bestIndex = conn[d].bestIndex
           /\ IsFile(file')
           /\ rebuildIndexIfNecessary(conn[c]) =>
                 /\ file' = [exists |-> TRUE, type |-> t.bestIndex, keys |-> t.keys]
                 /\ \A d \in Connections \ {c} : conn'[d].linked = FALSE
           /\ ~rebuildIndexIfNecessary(conn[c]) => Store(c, t)
<1>1. CASE rebuildIndexIfNecessary(conn[c])
  <2>1. /\ conn' = [d \in Connections |->
                       IF d = c THEN t ELSE [conn[d] EXCEPT !.linked = FALSE]]
        /\ file' = [exists |-> TRUE, type |-> t.bestIndex, keys |-> t.keys]
    BY <1>1 DEF Finish, Replaced
  <2>2. \A d \in Connections \ {c} : /\ IsConn(conn'[d])
                                     /\ conn'[d].attached = conn[d].attached
                                     /\ conn'[d].keys = conn[d].keys
                                     /\ conn'[d].linked = FALSE
                                     /\ conn'[d].isOpened = conn[d].isOpened
                                     /\ conn'[d].bestIndex = conn[d].bestIndex
    <3> TAKE d \in Connections \ {c}
    <3>1. IsConn(conn[d]) /\ conn'[d] = [conn[d] EXCEPT !.linked = FALSE]
      BY <2>1 DEF Shape
    <3> QED BY <3>1, UnlinkedConn
  <2>3. IsFile(file')
    BY <2>1 DEF IsFile
  <2> QED BY <1>1, <2>1, <2>2, <2>3
<1>2. CASE ~rebuildIndexIfNecessary(conn[c])
  <2>1. Store(c, t)
    BY <1>2 DEF Finish
  <2> QED BY <1>2, <2>1, StoreEffect
<1> QED BY <1>1, <1>2

\* The review of the index changes the type and the file of a connection only.
LEMMA ReviewEffect ==
    ASSUME Shape, NEW c \in Connections
    PROVE  /\ IsConn(Reviewed(conn[c])) /\ IsTable(SqlReviewed(conn[c]))
           /\ Reviewed(conn[c]).keys = conn[c].keys
           /\ Reviewed(conn[c]).attached = conn[c].attached
           /\ SqlReviewed(conn[c]).exists = sql.exists
           /\ SqlReviewed(conn[c]).rows = sql.rows
           /\ rebuildIndexIfNecessary(conn[c]) =>
                 /\ Reviewed(conn[c]).linked = TRUE /\ Reviewed(conn[c]).isOpened = TRUE
                 /\ Reviewed(conn[c]).bestIndex = ChosenIndex(conn[c])
                 /\ SqlReviewed(conn[c]).bestIndex = ChosenIndex(conn[c])
           /\ ~rebuildIndexIfNecessary(conn[c]) =>
                 /\ Reviewed(conn[c]) = conn[c] /\ SqlReviewed(conn[c]) = sql
<1>1. IsConn(conn[c]) /\ IsTable(sql)
  BY DEF Shape
<1> HIDE DEF rebuildIndexIfNecessary, ChosenIndex
<1>2. /\ IsConn(rebuildIndex(conn[c])) /\ rebuildIndex(conn[c]).keys = conn[c].keys
      /\ rebuildIndex(conn[c]).attached = conn[c].attached
      /\ rebuildIndex(conn[c]).linked = TRUE /\ rebuildIndex(conn[c]).isOpened = TRUE
      /\ rebuildIndex(conn[c]).bestIndex = ChosenIndex(conn[c])
  BY <1>1 DEF rebuildIndex, IsConn
<1>3. /\ IsTable(Recorded(sql, conn[c])) /\ Recorded(sql, conn[c]).exists = sql.exists
      /\ Recorded(sql, conn[c]).rows = sql.rows
      /\ Recorded(sql, conn[c]).bestIndex = ChosenIndex(conn[c])
  BY <1>1 DEF Recorded, IsTable
<1> QED BY <1>1, <1>2, <1>3 DEF Reviewed, SqlReviewed

\* The records that a table, a file, a connection and a statement start from.
LEMMA StartRecords ==
    /\ IsTable(NoTable) /\ IsFile(NoFile) /\ IsConn(Detached) /\ IsStmt(NoStmt)
    /\ NoTable.exists = FALSE /\ NoFile.exists = FALSE /\ NoStmt.kind = "none"
    /\ Detached.attached = FALSE
<1>1. IsTable(NoTable) /\ NoTable.exists = FALSE
  BY DEF IsTable, NoTable
<1>2. IsFile(NoFile) /\ NoFile.exists = FALSE
  BY DEF IsFile, NoFile
<1>3. IsConn(Detached) /\ Detached.attached = FALSE
  BY DEF IsConn, Detached
<1>4. IsStmt(NoStmt) /\ NoStmt.kind = "none"
  BY <1>1 DEF IsStmt, NoStmt
<1> QED BY <1>1, <1>2, <1>3, <1>4

\* The initial state has its shape.
LEMMA ShapeInit == Init => Shape
<1>1. Init => \A c \in Connections : IsConn(conn[c])
  BY StartRecords DEF Init
<1> QED BY <1>1, StartRecords DEF Init, Shape

\* Create, Connect, Disconnect and Destroy keep the shape.
LEMMA ShapeTableStep ==
    ASSUME Shape, NEW c \in Connections, TableStep(c)
    PROVE  Shape'
<1>1. CASE Create(c)
  <2> DEFINE t == [Detached EXCEPT !.attached = TRUE, !.linked = TRUE,
                                   !.isOpened = TRUE, !.isOriginal = TRUE]
  <2>1. IsConn(t)
    BY StartRecords DEF IsConn
  <2>2. IsTable(sql') /\ IsFile(file') /\ saved' = saved /\ stmt' = stmt
    BY <1>1, StartRecords DEF Create, IsTable, IsFile
  <2>3. conn' = [conn EXCEPT ![c] = t]
    BY <1>1 DEF Create
  <2> HIDE DEF t
  <2> QED BY <2>1, <2>2, <2>3 DEF Shape
<1>2. CASE Connect(c)
  <2> DEFINE t == [Detached EXCEPT !.attached = TRUE, !.linked = TRUE,
                                   !.bestIndex = sql.bestIndex, !.keys = file.keys,
                                   !.isOpened = ReadsRootPage(sql.bestIndex, file.type)]
  <2>1. IsConn(t)
    BY StartRecords DEF IsConn
  <2>2. sql' = sql /\ file' = file /\ saved' = saved /\ stmt' = stmt
    BY <1>2 DEF Connect
  <2>3. conn' = [conn EXCEPT ![c] = t]
    BY <1>2 DEF Connect
  <2> HIDE DEF t
  <2> QED BY <2>1, <2>2, <2>3 DEF Shape
<1>3. CASE Disconnect(c)
  BY <1>3, StartRecords DEF Disconnect, Shape
<1>4. CASE Destroy(c)
  <2>1. IsTable(sql') /\ IsFile(file') /\ saved' = saved /\ stmt' = stmt
    BY <1>4, StartRecords DEF Destroy
  <2>2. conn' = [d \in Connections |->
                    IF d = c THEN Detached ELSE [conn[d] EXCEPT !.linked = FALSE]]
    BY <1>4 DEF Destroy
  <2>3. \A d \in Connections : IsConn(conn'[d])
    BY <2>2, StartRecords, UnlinkedConn DEF Shape
  <2> QED BY <2>1, <2>2, <2>3 DEF Shape
<1> QED BY <1>1, <1>2, <1>3, <1>4 DEF TableStep

\* A statement that fails leaves the SQL side as it was before.
LEMMA FailEffect ==
    ASSUME Shape, FailStatement
    PROVE  IsTable(sql') /\ IsStmt(stmt') /\ sql' = stmt.before /\ stmt' = NoStmt
BY StartRecords DEF FailStatement, Shape, IsStmt

\* The process of a connection ends.
LEMMA DieEffect ==
    ASSUME Shape, NEW c \in Connections, Die(c)
    PROVE  /\ Shape' /\ saved' = saved /\ file' = file
           /\ conn'[c] = Detached /\ \A d \in Connections \ {c} : conn'[d] = conn[d]
           /\ txn = c => sql' = saved /\ txn' = NoConnection /\ stmt' = NoStmt
           /\ txn # c => sql' = sql /\ txn' = txn /\ stmt' = stmt
<1>1. /\ saved' = saved /\ file' = file /\ conn' = [conn EXCEPT ![c] = Detached]
      /\ txn = c => sql' = saved /\ txn' = NoConnection /\ stmt' = NoStmt
      /\ txn # c => sql' = sql /\ txn' = txn /\ stmt' = stmt
  BY DEF Die
<1>2. /\ conn' = [d \in Connections |-> conn'[d]]
      /\ conn'[c] = Detached /\ \A d \in Connections \ {c} : conn'[d] = conn[d]
  BY <1>1 DEF Shape
<1>3. \A d \in Connections : IsConn(conn'[d])
  BY <1>2, StartRecords DEF Shape
<1>4. IsTable(sql') /\ IsStmt(stmt')
  BY <1>1, StartRecords DEF Shape
<1>5. Shape'
  BY <1>1, <1>2, <1>3, <1>4 DEF Shape
<1> QED BY <1>1, <1>2, <1>5

\* What a connection keeps while its keys and counters change.
SameConn(t, u) ==
    /\ t.attached = u.attached /\ t.linked = u.linked
    /\ t.isOpened = u.isOpened /\ t.bestIndex = u.bestIndex

\* What a statement does to one of the rows it has found: the process ends, the
\* statement fails, or it goes on with the SQL side and itself changed in no more
\* than the rows.
LEMMA RowEffect ==
    ASSUME Shape, NEW c \in Connections, NEW e,
           ReadRow(c, e) \/ DeleteRow(c, e) \/ UpdateRow(c, e)
    PROVE  /\ Shape' /\ stmt.kind # "none" /\ txn = c /\ saved' = saved
           /\ \/ Terminate(c)
              \/ /\ txn' = txn
                 /\ \A d \in Connections : SameConn(conn'[d], conn[d])
                 /\ file'.exists = file.exists /\ file'.type = file.type
                 /\ \/ FailStatement
                    \/ /\ sql'.exists = sql.exists /\ sql'.bestIndex = sql.bestIndex
                       /\ stmt'.kind = stmt.kind /\ stmt'.before = stmt.before
<1> DEFINE Same(t) == IsConn(t) /\ SameConn(t, conn[c])
           GoesOn == /\ txn' = txn
                     /\ \A d \in Connections : SameConn(conn'[d], conn[d])
                     /\ file'.exists = file.exists /\ file'.type = file.type
                     /\ \/ FailStatement
                        \/ /\ sql'.exists = sql.exists /\ sql'.bestIndex = sql.bestIndex
                           /\ stmt'.kind = stmt.kind /\ stmt'.before = stmt.before
           Goal == /\ Shape' /\ stmt.kind # "none" /\ txn = c /\ saved' = saved
                   /\ Terminate(c) \/ GoesOn
           RowsOnly == \/ FailStatement
                       \/ \E r, f : /\ sql' = [sql EXCEPT !.rows = r]
                                    /\ stmt' = [stmt EXCEPT !.found = f]
<1>1. ASSUME RowsOnly
      PROVE  /\ IsTable(sql') /\ IsStmt(stmt')
             /\ \/ FailStatement
                \/ /\ sql'.exists = sql.exists /\ sql'.bestIndex = sql.bestIndex
                   /\ stmt'.kind = stmt.kind /\ stmt'.before = stmt.before
  <2>1. CASE FailStatement
    BY <2>1, FailEffect
  <2>2. ASSUME NEW r, NEW f, sql' = [sql EXCEPT !.rows = r], stmt' = [stmt EXCEPT !.found = f]
        PROVE  /\ IsTable(sql') /\ IsStmt(stmt')
               /\ sql'.exists = sql.exists /\ sql'.bestIndex = sql.bestIndex
               /\ stmt'.kind = stmt.kind /\ stmt'.before = stmt.before
    <3>1. IsTable(sql') /\ sql'.exists = sql.exists /\ sql'.bestIndex = sql.bestIndex
      BY <2>2 DEF Shape, IsTable
    <3>2. IsStmt(stmt') /\ stmt'.kind = stmt.kind /\ stmt'.before = stmt.before
      BY <2>2 DEF Shape, IsStmt
    <3> QED BY <3>1, <3>2
  <2> QED BY <1>1, <2>1, <2>2
<1>2. ASSUME RowsOnly, stmt.kind # "none", txn = c, txn' = txn, saved' = saved,
             (conn' = conn /\ file' = file) \/ \E t : Same(t) /\ Store(c, t)
      PROVE  Goal
  <2>1. /\ conn' = [d \in Connections |-> conn'[d]]
        /\ \A d \in Connections : IsConn(conn'[d]) /\ SameConn(conn'[d], conn[d])
        /\ IsFile(file') /\ file'.exists = file.exists /\ file'.type = file.type
    <3>1. CASE conn' = conn /\ file' = file
      BY <3>1 DEF Shape, SameConn
    <3>2. ASSUME NEW t, Same(t), Store(c, t)
          PROVE  /\ conn' = [d \in Connections |-> conn'[d]]
                 /\ \A d \in Connections : IsConn(conn'[d]) /\ SameConn(conn'[d], conn[d])
                 /\ IsFile(file') /\ file'.exists = file.exists /\ file'.type = file.type
      BY <3>2, StoreEffect DEF SameConn
    <3> QED BY <1>2, <3>1, <3>2
  <2> QED BY <1>1, <1>2, <2>1 DEF Shape
<1>3. ASSUME Terminate(c), stmt.kind # "none", txn = c
      PROVE  Goal
  BY <1>3, DieEffect DEF Terminate
<1> DEFINE t == [conn[c] EXCEPT !.deletes = @ + 1]
<1>4. Same(t)
  <2>1. IsConn(conn[c])
    BY DEF Shape
  <2> QED BY <2>1 DEF IsConn, SameConn
<1>5. CASE ReadRow(c, e)
  <2>1. stmt' = [stmt EXCEPT !.found = Minus(stmt.found, e)] /\ sql' = [sql EXCEPT !.rows = sql.rows]
    BY <1>5 DEF ReadRow, Shape, IsTable
  <2>2. RowsOnly
    BY <2>1
  <2>3. stmt.kind # "none" /\ txn = c /\ txn' = txn /\ saved' = saved /\ conn' = conn /\ file' = file
    BY <1>5 DEF ReadRow
  <2> HIDE DEF t, Same, Goal, RowsOnly
  <2>4. Goal
    BY <1>2, <2>2, <2>3
  <2> QED BY <2>4 DEF Goal
<1>6. CASE DeleteRow(c, e)
  <2> DEFINE left == {d \in BagToSet(stmt.found) : d[2] # e[2]}
             r == Restrict(sql.rows, DOMAIN sql.rows \ RowsWithKey(sql.rows, e[2]))
             f == Restrict(stmt.found, left)
             Succeed == sql' = [sql EXCEPT !.rows = r] /\ stmt' = [stmt EXCEPT !.found = f]
  <2>1. stmt.kind # "none" /\ txn = c
    BY <1>6 DEF DeleteRow
  <2>2. \/ Terminate(c)
        \/ /\ saved' = saved /\ txn' = txn
           /\ \/ \E h : /\ Store(c, [t EXCEPT !.keys = Minus(t.keys, h)])
                        /\ Succeed \/ FailStatement
              \/ Store(c, t) /\ FailStatement
    BY <1>6 DEF DeleteRow
  <2>3. \A h : Same([t EXCEPT !.keys = Minus(t.keys, h)])
    <3> HIDE DEF t
    <3> QED BY <1>4 DEF IsConn, SameConn
  <2>4. Succeed \/ FailStatement => RowsOnly
    OBVIOUS
  <2> HIDE DEF Succeed, t, Same, Goal, RowsOnly
  <2>5. Goal
    BY <1>2, <1>3, <1>4, <2>1, <2>2, <2>3, <2>4
  <2> QED BY <2>5 DEF Goal
<1>7. CASE UpdateRow(c, e)
  <2> DEFINE y == stmt.newKey
             rows == Rekeyed(sql.rows, e[2], y)
             f == Minus(stmt.found, e)
             key == createTreeKey(y, getRowId(rows, y))
             Succeed == sql' = [sql EXCEPT !.rows = rows] /\ stmt' = [stmt EXCEPT !.found = f]
             u(h) == [t EXCEPT !.keys = Minus(t.keys, h)]
             w(h) == [u(h) EXCEPT !.keys = Plus(u(h).keys, key), !.inserts = u(h).inserts + 1]
  <2>1. stmt.kind # "none" /\ txn = c
    BY <1>7 DEF UpdateRow
  <2>2. \/ Terminate(c)
        \/ /\ saved' = saved /\ txn' = txn
           /\ \/ (Succeed \/ FailStatement) /\ conn' = conn /\ file' = file
              \/ \E h : \/ Store(c, u(h)) /\ FailStatement
                        \/ Succeed /\ Store(c, w(h))
              \/ Store(c, t) /\ FailStatement
    BY <1>7 DEF UpdateRow
  <2>3. \A h : Same(u(h))
    <3> HIDE DEF t
    <3> QED BY <1>4 DEF IsConn, SameConn
  <2>4. \A h : Same(w(h))
    <3> HIDE DEF u
    <3> QED BY <2>3 DEF IsConn, SameConn
  <2>5. Succeed \/ FailStatement => RowsOnly
    OBVIOUS
  <2> HIDE DEF Succeed, t, u, w, Same, Goal, RowsOnly
  <2>6. Goal
    BY <1>2, <1>3, <1>4, <2>1, <2>2, <2>3, <2>4, <2>5
  <2> QED BY <2>6 DEF Goal
<1> QED BY <1>5, <1>6, <1>7

\* Of the operations that may rebuild the tree, what one that does not end the
\* process leaves of the tables, whatever becomes of the keys.
IndexStep(c) ==
    /\ stmt' = stmt /\ saved' = saved /\ sql'.exists = sql.exists
    /\ conn[c].attached /\ SameConn(conn'[c], Reviewed(conn[c]))
    /\ \/ Working(c) /\ txn' = c
       \/ Hindered(c) /\ txn' = txn /\ sql' = sql /\ ~Agreeable
    /\ ~rebuildIndexIfNecessary(conn[c]) =>
          /\ file'.exists = file.exists /\ file'.type = file.type
          /\ sql'.bestIndex = sql.bestIndex
          /\ \A d \in Connections : SameConn(conn'[d], conn[d])
    /\ rebuildIndexIfNecessary(conn[c]) =>
          /\ file'.exists = TRUE /\ file'.type = ChosenIndex(conn[c])
          /\ sql'.bestIndex \in {sql.bestIndex, ChosenIndex(conn[c])}
          /\ Agreeable => sql'.bestIndex = ChosenIndex(conn[c])
          /\ \A d \in Connections \ {c} : /\ conn'[d].attached = conn[d].attached
                                          /\ conn'[d].isOpened = conn[d].isOpened
                                          /\ conn'[d].linked = FALSE

\* BestIndex, InsertRow and InsertMismatch.
LEMMA IndexEffect ==
    ASSUME Shape, NEW c \in Connections,
           BestIndex(c) \/ (\E x \in Keys : InsertRow(c, x)) \/ InsertMismatch(c)
    PROVE  Shape' /\ ((Working(c) /\ Terminate(c)) \/ IndexStep(c))
<1> DEFINE t == Reviewed(conn[c])
           u(k) == [t EXCEPT !.keys = k, !.inserts = t.inserts + 1]
           rebuild == rebuildIndexIfNecessary(conn[c])
           chosen == ChosenIndex(conn[c])
           Goal == Shape' /\ ((Working(c) /\ Terminate(c)) \/ IndexStep(c))
<1>1. /\ IsConn(t) /\ (rebuild => t.bestIndex = chosen)
      /\ IsTable(SqlReviewed(conn[c])) /\ SqlReviewed(conn[c]).exists = sql.exists
      /\ rebuild => SqlReviewed(conn[c]).bestIndex = chosen
      /\ ~rebuild => SqlReviewed(conn[c]) = sql /\ t = conn[c]
  BY ReviewEffect
<1>2. \A k : IsConn(u(k)) /\ SameConn(u(k), t)
  <2> HIDE DEF t
  <2> QED BY <1>1 DEF IsConn, SameConn
<1>3. ASSUME Working(c), Terminate(c)
      PROVE  Goal
  BY <1>3, DieEffect DEF Terminate
<1>4. ASSUME stmt' = stmt, saved' = saved, conn[c].attached,
             NEW w, IsConn(w), SameConn(w, t), Finish(c, w),
             \/ Working(c) /\ txn' = c
             \/ Hindered(c) /\ txn' = txn /\ sql' = sql /\ ~Agreeable,
             \/ sql' = sql /\ (rebuild => ~Agreeable)
             \/ sql' = SqlReviewed(conn[c])
             \/ \E r : sql' = [SqlReviewed(conn[c]) EXCEPT !.rows = r]
      PROVE  Goal
  <2>1. /\ IsTable(sql') /\ sql'.exists = sql.exists
        /\ ~rebuild => sql'.bestIndex = sql.bestIndex
        /\ rebuild => sql'.bestIndex \in {sql.bestIndex, chosen}
        /\ rebuild => (Agreeable => sql'.bestIndex = chosen)
    <3>1. ASSUME NEW r
          PROVE  LET m == [SqlReviewed(conn[c]) EXCEPT !.rows = r]
                 IN  /\ IsTable(m) /\ m.exists = SqlReviewed(conn[c]).exists
                     /\ m.bestIndex = SqlReviewed(conn[c]).bestIndex
      BY <1>1 DEF IsTable
    <3>2. IsTable(sql)
      BY DEF Shape
    <3> HIDE DEF rebuild, chosen
    <3> QED BY <1>1, <1>4, <3>1, <3>2
  <2>2. /\ conn' = [d \in Connections |-> conn'[d]]
        /\ \A d \in Connections : IsConn(conn'[d])
        /\ IsFile(file') /\ conn'[c] = w
        /\ \A d \in Connections \ {c} : /\ conn'[d].attached = conn[d].attached
                                        /\ conn'[d].isOpened = conn[d].isOpened
        /\ rebuild => /\ file' = [exists |-> TRUE, type |-> w.bestIndex, keys |-> w.keys]
                      /\ \A d \in Connections \ {c} : conn'[d].linked = FALSE
        /\ ~rebuild => Store(c, w)
    BY <1>4, FinishEffect
  <2>3. ~rebuild => /\ file'.exists = file.exists /\ file'.type = file.type
                    /\ \A d \in Connections \ {c} : conn'[d] = conn[d]
    BY <1>4, <2>2, StoreEffect
  <2>4. rebuild => file'.exists = TRUE /\ file'.type = chosen
    <3> HIDE DEF rebuild, chosen, t
    <3> QED BY <1>1, <1>4, <2>2 DEF SameConn
  <2>5. Shape'
    BY <1>4, <2>1, <2>2 DEF Shape
  <2>6. SameConn(conn'[c], t)
    BY <1>4, <2>2
  <2>7. ~rebuild => \A d \in Connections : SameConn(conn'[d], conn[d])
    <3> HIDE DEF t, rebuild
    <3> QED BY <1>1, <2>3, <2>6 DEF SameConn
  <2>8. IndexStep(c)
    <3> HIDE DEF rebuildIndexIfNecessary, ChosenIndex
    <3> QED BY <1>4, <2>1, <2>2, <2>3, <2>4, <2>6, <2>7 DEF IndexStep
  <2> QED BY <2>5, <2>8
<1>5. SameConn(t, t)
  BY DEF SameConn
<1>6. RefuseInsert(c) => sql' = sql \/ sql' = SqlReviewed(conn[c])
  BY DEF RefuseInsert
<1>7. CASE BestIndex(c)
  <2>1. /\ stmt' = stmt /\ saved' = saved /\ conn[c].attached /\ Finish(c, t) /\ rebuild
        /\ \/ Working(c) /\ txn' = c /\ sql' = SqlReviewed(conn[c])
           \/ Hindered(c) /\ txn' = txn /\ sql' = sql
    BY <1>7 DEF BestIndex, Working, Hindered
  <2>2. Hindered(c) => ~Agreeable
    BY <1>7, <2>1 DEF Agreeable, Unhindered
  <2> HIDE DEF Goal, t, rebuild
  <2> QED BY <1>1, <1>4, <1>5, <2>1, <2>2 DEF Goal
<1>8. CASE InsertMismatch(c)
  <2>1. /\ stmt' = stmt /\ saved' = saved /\ conn[c].attached /\ Finish(c, t)
        /\ Working(c) /\ txn' = c
    BY <1>8 DEF InsertMismatch, RefuseInsert, Working
  <2>2. Agreeable /\ rebuild => sql' = SqlReviewed(conn[c])
    BY <1>8 DEF Agreeable, Unrefused
  <2>3. sql' = sql \/ sql' = SqlReviewed(conn[c])
    BY <1>6, <1>8 DEF InsertMismatch
  <2> HIDE DEF Goal, t, rebuild
  <2> QED BY <1>1, <1>4, <1>5, <2>1, <2>2, <2>3 DEF Goal
<1>9. ASSUME NEW x \in Keys, InsertRow(c, x)
      PROVE  Goal
  <2>1. Working(c) /\ conn[c].attached
    BY <1>9 DEF InsertRow, Working
  <2>2. CASE x \in DOMAIN sql.rows /\ RefuseInsert(c)
    <3>1. stmt' = stmt /\ saved' = saved /\ Finish(c, t) /\ txn' = c
      BY <2>2 DEF RefuseInsert
    <3>2. Agreeable /\ rebuild => sql' = SqlReviewed(conn[c])
      BY <1>9, <2>2 DEF Agreeable, Unrefused
    <3>3. sql' = sql \/ sql' = SqlReviewed(conn[c])
      BY <1>6, <2>2
    <3> HIDE DEF Goal, t, rebuild
    <3> QED BY <1>1, <1>4, <1>5, <2>1, <3>1, <3>2, <3>3 DEF Goal
  <2>3. CASE Terminate(c)
    BY <1>3, <2>1, <2>3
  <2>4. CASE AddRow(c, x)
    <3> DEFINE id == NewRowId(sql.rows, x)
               k == Plus(t.keys, createTreeKey(x, id))
               r == WithRow(SqlReviewed(conn[c]).rows, x, id)
    <3>1. /\ stmt' = stmt /\ saved' = saved /\ txn' = c /\ Finish(c, u(k))
          /\ sql' = [SqlReviewed(conn[c]) EXCEPT !.rows = r]
      BY <2>4 DEF AddRow
    <3> HIDE DEF Goal, t, rebuild, k, r, u
    <3> QED BY <1>2, <1>4, <2>1, <3>1 DEF Goal
  <2> QED BY <1>9, <2>2, <2>3, <2>4 DEF InsertRow
<1> QED BY <1>7, <1>8, <1>9

\* Filter begins a statement on the table as it is.
LEMMA FilterEffect ==
    ASSUME Shape, NEW c \in Connections, NEW kind, NEW x, NEW y, Filter(c, kind, x, y)
    PROVE  /\ Shape' /\ sql' = sql /\ file' = file /\ saved' = saved
           /\ stmt = NoStmt /\ stmt'.kind = kind /\ stmt'.key = x /\ stmt'.newKey = y
           /\ stmt'.before = sql /\ stmt'.found = searchAll(conn[c].keys, x)
           /\ conn[c].attached /\ sql.exists /\ txn \in {NoConnection, c} /\ txn' = c
           /\ \A d \in Connections : /\ SameConn(conn'[d], conn[d])
                                     /\ conn'[d].keys = conn[d].keys
<1>1. /\ sql' = sql /\ file' = file /\ saved' = saved /\ stmt = NoStmt
      /\ conn[c].attached /\ sql.exists /\ txn \in {NoConnection, c} /\ txn' = c
  BY DEF Filter, Working, Idle
<1>2. stmt' = [kind |-> kind, key |-> x, newKey |-> y, found |-> searchAll(conn[c].keys, x),
               before |-> sql]
  BY DEF Filter
<1>3. /\ IsStmt(stmt') /\ stmt'.kind = kind /\ stmt'.key = x /\ stmt'.newKey = y
      /\ stmt'.before = sql /\ stmt'.found = searchAll(conn[c].keys, x)
  <2>1. IsTable(sql)
    BY DEF Shape
  <2>2. /\ stmt'.kind = kind /\ stmt'.key = x /\ stmt'.newKey = y
        /\ stmt'.before = sql /\ stmt'.found = searchAll(conn[c].keys, x)
    BY <1>2
  <2>3. stmt' = [f \in {"kind", "key", "newKey", "found", "before"} |-> stmt'[f]]
    BY <1>2
  <2> QED BY <2>1, <2>2, <2>3 DEF IsStmt
<1> DEFINE t == [conn[c] EXCEPT !.searches = conn[c].searches + 1]
<1>4. IsConn(t) /\ SameConn(t, conn[c]) /\ t.keys = conn[c].keys
  <2>1. IsConn(conn[c])
    BY DEF Shape
  <2> QED BY <2>1 DEF IsConn, SameConn
<1>5. conn' = [conn EXCEPT ![c] = t]
  BY DEF Filter
<1> HIDE DEF t
<1>6. conn' = [d \in Connections |-> IF d = c THEN t ELSE conn[d]]
  BY <1>5 DEF Shape
<1>7. \A d \in Connections : /\ IsConn(conn'[d]) /\ SameConn(conn'[d], conn[d])
                             /\ conn'[d].keys = conn[d].keys
  BY <1>4, <1>6 DEF Shape, SameConn
<1> QED BY <1>1, <1>3, <1>6, <1>7 DEF Shape

\* The commit publishes the SQL side.
LEMMA CommitEffect ==
    ASSUME Shape, NEW c \in Connections, Commit(c)
    PROVE  /\ Shape' /\ sql' = sql /\ file' = file /\ stmt' = stmt /\ saved' = sql
           /\ sql.exists => conn' = conn
           /\ ~sql.exists => conn' = [d \in Connections |-> Detached]
<1>1. /\ sql' = sql /\ file' = file /\ stmt' = stmt /\ saved' = sql
      /\ sql.exists => conn' = conn
      /\ ~sql.exists => conn' = [d \in Connections |-> Detached]
  BY DEF Commit
<1>2. CASE sql.exists
  BY <1>1, <1>2 DEF Shape
<1>3. CASE ~sql.exists
  BY <1>1, <1>3, StartRecords DEF Shape
<1> QED BY <1>1, <1>2, <1>3

\* The end of a statement.
LEMMA EndEffect ==
    ASSUME Shape, NEW c \in Connections, EndStatement(c)
    PROVE  /\ Shape' /\ sql' = sql /\ file' = file /\ conn' = conn /\ saved' = saved
           /\ stmt' = NoStmt /\ stmt.found = EmptyBag
BY StartRecords DEF EndStatement, Shape

-------------------------------------------------------------------------------
(* Tables and files, with any number of connections. *)

\* A page of another type of tree is a page of another size, except that those of
\* B*-trees and B*+-trees are alike.
LEMMA PageSizes ==
    /\ PageKeys(BPLUSTREE_NUM) = 1500
    /\ PageKeys(BSTARTREE_NUM) = 999 /\ PageKeys(BSTARPLUSTREE_NUM) = 999
    /\ \A t : PageKeys(t) \in Nat
BY DEF PageKeys, TREE_ORDER, BTREE_NUM, BPLUSTREE_NUM, BSTARTREE_NUM, BSTARPLUSTREE_NUM

\* The table, and the one that a statement leaves if it fails, are of the type that the
\* file was built as, and nobody has opened it as another.
TypesAgree ==
    /\ sql.exists => file.exists /\ sql.bestIndex = file.type
    /\ stmt.kind # "none" => stmt.before.bestIndex = file.type
    /\ \A c \in Connections : conn[c].attached => conn[c].isOpened

\* Create and Connect open the file.
LEMMA OpenedFile ==
    ASSUME Shape, NEW c \in Connections, Create(c) \/ Connect(c)
    PROVE  /\ conn'[c].attached = TRUE /\ conn'[c].linked = TRUE
           /\ \A d \in Connections \ {c} : conn'[d] = conn[d]
           /\ Create(c) => /\ conn'[c].isOpened = TRUE
                           /\ conn'[c].bestIndex = BPLUSTREE_NUM /\ conn'[c].keys = EmptyBag
           /\ Connect(c) => /\ conn'[c].isOpened = ReadsRootPage(sql.bestIndex, file.type)
                            /\ conn'[c].bestIndex = sql.bestIndex /\ conn'[c].keys = file.keys
<1>1. CASE Create(c)
  <2> DEFINE t == [Detached EXCEPT !.attached = TRUE, !.linked = TRUE,
                                   !.isOpened = TRUE, !.isOriginal = TRUE]
  <2>1. /\ t.attached = TRUE /\ t.linked = TRUE /\ t.isOpened = TRUE
        /\ t.bestIndex = BPLUSTREE_NUM /\ t.keys = EmptyBag
    BY DEF Detached
  <2>2. conn' = [conn EXCEPT ![c] = t] /\ ~sql.exists
    BY <1>1 DEF Create
  <2> HIDE DEF t
  <2>3. conn'[c] = t /\ \A d \in Connections \ {c} : conn'[d] = conn[d]
    BY <2>2 DEF Shape
  <2>4. ~Connect(c)
    BY <2>2 DEF Connect
  <2> QED BY <1>1, <2>1, <2>3, <2>4
<1>2. CASE Connect(c)
  <2> DEFINE t == [Detached EXCEPT !.attached = TRUE, !.linked = TRUE,
                                   !.bestIndex = sql.bestIndex, !.keys = file.keys,
                                   !.isOpened = ReadsRootPage(sql.bestIndex, file.type)]
  <2>1. /\ t.attached = TRUE /\ t.linked = TRUE
        /\ t.isOpened = ReadsRootPage(sql.bestIndex, file.type)
        /\ t.bestIndex = sql.bestIndex /\ t.keys = file.keys
    BY DEF Detached
  <2>2. conn' = [conn EXCEPT ![c] = t]
    BY <1>2 DEF Connect
  <2> HIDE DEF t
  <2>3. conn'[c] = t /\ \A d \in Connections \ {c} : conn'[d] = conn[d]
    BY <2>2 DEF Shape
  <2>4. ~Create(c)
    BY <1>2 DEF Connect, Create
  <2> QED BY <1>2, <2>1, <2>3, <2>4
<1> QED BY <1>1, <1>2

\* Every step keeps the file of a table; with clients whose rebuilt trees are recorded
\* it keeps the types in agreement as well.
LEMMA HasFileStep ==
    ASSUME HasFileInv, [Next]_vars
    PROVE  HasFileInv' /\ (TypesAgree /\ Agreeable => TypesAgree')
<1> DEFINE Goal == HasFileInv' /\ (TypesAgree /\ Agreeable => TypesAgree')
<1>1. Shape /\ StatementInv /\ TableHasFile
  BY DEF HasFileInv
<1>2. ASSUME NEW c \in Connections, TableStep(c)
      PROVE  Goal
  <2>1. Shape'
    BY <1>1, <1>2, ShapeTableStep
  <2>2. CASE Create(c)
    <3>1. stmt.kind = "none" /\ stmt' = stmt
      BY <2>2, StartRecords DEF Create, Idle
    <3>2. file'.exists = TRUE /\ file'.type = BPLUSTREE_NUM /\ sql'.bestIndex = BPLUSTREE_NUM
      BY <2>2 DEF Create, NoFile, NoTable
    <3>3. conn'[c].isOpened = TRUE /\ \A d \in Connections \ {c} : conn'[d] = conn[d]
      BY <1>1, <2>2, OpenedFile
    <3> QED BY <2>1, <3>1, <3>2, <3>3 DEF HasFileInv, StatementInv, TableHasFile, TypesAgree
  <2>3. CASE Connect(c)
    <3>1. sql' = sql /\ file' = file /\ stmt' = stmt /\ sql.exists /\ stmt.kind = "none"
      BY <2>3, StartRecords DEF Connect, Idle
    <3>2. /\ conn'[c].isOpened = ReadsRootPage(sql.bestIndex, file.type)
          /\ \A d \in Connections \ {c} : conn'[d] = conn[d]
      BY <1>1, <2>3, OpenedFile
    <3>3. sql.bestIndex = file.type => ReadsRootPage(sql.bestIndex, file.type)
      BY PageSizes DEF ReadsRootPage
    <3> QED BY <1>1, <2>1, <3>1, <3>2, <3>3
            DEF HasFileInv, StatementInv, TableHasFile, TypesAgree
  <2>4. CASE Disconnect(c)
    <3>1. /\ sql' = sql /\ file' = file /\ stmt' = stmt /\ txn' = txn /\ txn # c
          /\ conn' = [conn EXCEPT ![c] = Detached]
      BY <2>4 DEF Disconnect
    <3>2. \A d \in Connections : conn'[d] = IF d = c THEN Detached ELSE conn[d]
      BY <1>1, <3>1 DEF Shape
    <3> QED BY <1>1, <2>1, <3>1, <3>2, StartRecords
            DEF HasFileInv, StatementInv, TableHasFile, TypesAgree
  <2>5. CASE Destroy(c)
    <3>1. /\ stmt.kind = "none" /\ stmt' = stmt /\ sql' = NoTable
          /\ conn' = [d \in Connections |->
                         IF d = c THEN Detached ELSE [conn[d] EXCEPT !.linked = FALSE]]
      BY <2>5, StartRecords DEF Destroy, Idle
    <3>2. \A d \in Connections \ {c} : conn'[d].attached = conn[d].attached
                                       /\ conn'[d].isOpened = conn[d].isOpened
      BY <1>1, <3>1, UnlinkedConn DEF Shape
    <3>3. ~conn'[c].attached
      BY <3>1, StartRecords
    <3> QED BY <2>1, <3>1, <3>2, <3>3, StartRecords
            DEF HasFileInv, StatementInv, TableHasFile, TypesAgree
  <2> QED BY <1>2, <2>2, <2>3, <2>4, <2>5 DEF TableStep
<1>3. ASSUME NEW c \in Connections, Terminate(c), Shape', conn[c].attached, sql.exists
      PROVE  Goal
  <2>1. /\ file' = file /\ file.exists /\ ~conn[c].isOpened
        /\ \A d \in Connections \ {c} : conn'[d] = conn[d]
        /\ txn = c => sql' = saved /\ stmt' = NoStmt
        /\ txn # c => sql' = sql /\ stmt' = stmt /\ txn' = txn
    BY <1>1, <1>3, DieEffect DEF Terminate, TableHasFile
  <2>2. ~TypesAgree
    BY <1>3, <2>1 DEF TypesAgree
  <2> QED BY <1>1, <1>3, <2>1, <2>2, StartRecords DEF HasFileInv, StatementInv, TableHasFile
<1>4. ASSUME NEW c \in Connections,
             BestIndex(c) \/ (\E x \in Keys : InsertRow(c, x)) \/ InsertMismatch(c)
      PROVE  Goal
  <2>1. Shape' /\ ((Working(c) /\ Terminate(c)) \/ IndexStep(c))
    BY <1>1, <1>4, IndexEffect
  <2>2. CASE Working(c) /\ Terminate(c)
    <3>1. conn[c].attached /\ sql.exists
      BY <2>2 DEF Working
    <3> HIDE DEF Goal
    <3> QED BY <1>3, <2>1, <2>2, <3>1
  <2>3. CASE IndexStep(c)
    <3>1. Agreeable => stmt.kind = "none"
      BY <2>3, StartRecords DEF IndexStep, Working, Idle
    <3>2. HasFileInv'
      <4>1. \A d \in Connections : conn'[d].attached = conn[d].attached
        <5>1. Reviewed(conn[c]).attached = conn[c].attached
          BY <1>1, ReviewEffect
        <5> HIDE DEF rebuildIndexIfNecessary
        <5> QED BY <2>3, <5>1 DEF IndexStep, SameConn
      <4>2. stmt.kind # "none" => txn' = txn
        BY <2>3, StartRecords DEF IndexStep, Working, Idle
      <4> HIDE DEF rebuildIndexIfNecessary, ChosenIndex
      <4> QED BY <1>1, <2>1, <2>3, <4>1, <4>2
              DEF HasFileInv, StatementInv, TableHasFile, IndexStep
    <3>3. TypesAgree => \A d \in Connections : conn'[d].attached => conn'[d].isOpened
      <4>1. CASE rebuildIndexIfNecessary(conn[c])
        <5>1. Reviewed(conn[c]).isOpened = TRUE
          BY <1>1, <4>1, ReviewEffect
        <5> HIDE DEF rebuildIndexIfNecessary
        <5> QED BY <2>3, <4>1, <5>1 DEF IndexStep, SameConn, TypesAgree
      <4>2. CASE ~rebuildIndexIfNecessary(conn[c])
        <5> HIDE DEF rebuildIndexIfNecessary
        <5> QED BY <2>3, <4>2 DEF IndexStep, SameConn, TypesAgree
      <4> QED BY <4>1, <4>2
    <3>4. TypesAgree /\ Agreeable => TypesAgree'
      <4> HIDE DEF rebuildIndexIfNecessary, ChosenIndex
      <4> QED BY <1>1, <2>3, <3>1, <3>3 DEF TypesAgree, IndexStep
    <3> QED BY <3>2, <3>4
  <2> QED BY <2>1, <2>2, <2>3
<1>5. ASSUME NEW c \in Connections, NEW kind, NEW x, NEW y, Filter(c, kind, x, y)
      PROVE  Goal
  BY <1>1, <1>5, FilterEffect DEF HasFileInv, StatementInv, TableHasFile, TypesAgree, SameConn
<1>6. ASSUME NEW c \in Connections, RowStep(c)
      PROVE  Goal
  <2>1. PICK e \in BagToSet(stmt.found) : ReadRow(c, e) \/ DeleteRow(c, e) \/ UpdateRow(c, e)
    BY <1>6 DEF RowStep
  <2>2. /\ Shape' /\ stmt.kind # "none" /\ txn = c /\ saved' = saved
        /\ \/ Terminate(c)
           \/ /\ txn' = txn
              /\ \A d \in Connections : SameConn(conn'[d], conn[d])
              /\ file'.exists = file.exists /\ file'.type = file.type
              /\ \/ FailStatement
                 \/ /\ sql'.exists = sql.exists /\ sql'.bestIndex = sql.bestIndex
                    /\ stmt'.kind = stmt.kind /\ stmt'.before = stmt.before
    BY <1>1, <2>1, RowEffect
  <2>3. FailStatement => sql' = stmt.before /\ stmt'.kind = "none"
    BY <1>1, FailEffect, StartRecords
  <2>4. CASE Terminate(c)
    <3>1. sql.exists /\ conn[c].attached
      BY <1>1, <2>2 DEF StatementInv
    <3> HIDE DEF Goal
    <3> QED BY <1>3, <2>2, <2>4, <3>1
  <2>5. CASE ~Terminate(c)
    BY <1>1, <2>2, <2>3, <2>5 DEF HasFileInv, StatementInv, TableHasFile, TypesAgree, SameConn
  <2> QED BY <2>4, <2>5
<1>7. ASSUME NEW c \in Connections, EndStatement(c)
      PROVE  Goal
  BY <1>1, <1>7, EndEffect, StartRecords DEF HasFileInv, StatementInv, TableHasFile, TypesAgree
<1>8. ASSUME NEW c \in Connections, Commit(c)
      PROVE  Goal
  <2>1. \A d \in Connections : conn'[d] = conn[d] \/ ~conn'[d].attached
    BY <1>1, <1>8, CommitEffect, StartRecords
  <2>2. stmt.kind = "none"
    BY <1>8, StartRecords DEF Commit
  <2> QED BY <1>1, <1>8, <2>1, <2>2, CommitEffect DEF HasFileInv, StatementInv, TableHasFile, TypesAgree
<1>9. ASSUME NEW c \in Connections, Begin(c)
      PROVE  Goal
  <2>1. /\ sql' = sql /\ saved' = saved /\ file' = file /\ conn' = conn
        /\ stmt' = stmt /\ stmt.kind = "none"
    BY <1>9, StartRecords DEF Begin
  <2>2. Shape'
    BY <1>1, <2>1 DEF Shape
  <2> QED BY <1>1, <2>1, <2>2 DEF HasFileInv, StatementInv, TableHasFile, TypesAgree
<1>10. ASSUME UNCHANGED vars
      PROVE  Goal
  <2>1. sql' = sql /\ saved' = saved /\ file' = file /\ conn' = conn /\ stmt' = stmt /\ txn' = txn
    BY <1>10 DEF vars
  <2>2. Shape'
    BY <1>1, <2>1 DEF Shape
  <2> QED BY <1>1, <2>1, <2>2 DEF HasFileInv, StatementInv, TableHasFile, TypesAgree
<1> HIDE DEF Goal
<1>11. Goal
  BY <1>2, <1>4, <1>5, <1>6, <1>7, <1>8, <1>9, <1>10 DEF Next, StatementStep
<1> QED BY <1>11 DEF Goal

\* A table has its tree file, whatever statements of any number of connections
\* create, drop and rebuild, as long as nothing is rolled back and nobody dies but
\* by the exception of writePage().
THEOREM TablesHaveFiles == Spec => []TableHasFile
<1>1. Init => HasFileInv
  <2>1. Init => Shape
    BY ShapeInit
  <2>2. Init => StatementInv /\ TableHasFile
    BY StartRecords DEF Init, StatementInv, TableHasFile
  <2> QED BY <2>1, <2>2 DEF HasFileInv
<1>2. HasFileInv /\ [Next]_vars => HasFileInv'
  BY HasFileStep
<1>3. HasFileInv => TableHasFile
  BY DEF HasFileInv
<1> QED BY <1>1, <1>2, <1>3, PTL DEF Spec

\* The type recorded in btrees_mods_idxinfo is the one the file was built as, for any
\* number of connections, if no insert that has rebuilt the tree is refused and undone,
\* and no statement that rebuilds it is prepared while another connection is in a
\* transaction: that busy SQLite cannot record the new type is ignored.
THEOREM RecordedTypesAreBuilt == AgreeableSpec => []RecordedTypeIsBuilt
<1> DEFINE I == HasFileInv /\ TypesAgree
<1>1. Init => I
  <2>1. Init => Shape
    BY ShapeInit
  <2>2. Init => StatementInv /\ TableHasFile /\ TypesAgree
    BY StartRecords DEF Init, StatementInv, TableHasFile, TypesAgree
  <2> QED BY <2>1, <2>2 DEF HasFileInv
<1>2. I /\ [Next /\ Agreeable]_vars => I'
  <2>1. HasFileInv /\ [Next /\ Agreeable]_vars => HasFileInv'
    BY HasFileStep
  <2>2. HasFileInv /\ TypesAgree /\ Next /\ Agreeable => TypesAgree'
    BY HasFileStep
  <2>3. TypesAgree /\ UNCHANGED vars => TypesAgree'
    BY DEF TypesAgree, vars
  <2> QED BY <2>1, <2>2, <2>3
<1>3. I => RecordedTypeIsBuilt
  BY DEF TypesAgree, RecordedTypeIsBuilt
<1> QED BY <1>1, <1>2, <1>3, PTL DEF AgreeableSpec

-------------------------------------------------------------------------------
(* Connections that take turns. *)

\* The key column is the row id, its values fit into a tree key, and the remove()
\* of every tree answers truthfully.
Plain ==
    /\ KeyIsRowid = TRUE
    /\ UndefinedAnswers = {TRUE}
    /\ \A x \in Keys : x < KeyMod

\* The rows of a table with the keys D, each its own row id, and their index.
RowsOf(D) == [x \in D |-> x]
Index(D) == SetToBag({<<x, x>> : x \in D})

\* The connection that has the table open, and the tree file, index the rows.
IndexInv ==
    /\ sql.rows = RowsOf(DOMAIN sql.rows) /\ DOMAIN sql.rows \subseteq Keys
    /\ sql.exists => file.exists /\ file.keys = Index(DOMAIN sql.rows)
    /\ \A c \in Connections : conn[c].attached =>
          sql.exists /\ conn[c].linked /\ conn[c].keys = Index(DOMAIN sql.rows)
    /\ \A c, d \in Connections : conn[c].attached /\ conn[d].attached => c = d

\* A statement has found at most one row, and has changed nothing before that one.
FoundInv ==
    stmt.kind # "none" =>
        /\ txn \in Connections /\ conn[txn].attached
        /\ stmt.newKey \in Keys
        /\ \/ stmt.found = EmptyBag
           \/ stmt.before = sql /\ \E x \in DOMAIN sql.rows : stmt.found = Index({x})

TurnsInv == Shape /\ TypesAgree /\ IndexInv /\ FoundInv

\* The keys of an index, each once.
LEMMA IndexKeys ==
    ASSUME NEW D
    PROVE  /\ DOMAIN Index(D) = {<<x, x>> : x \in D}
           /\ BagToSet(Index(D)) = {<<x, x>> : x \in D}
           /\ \A e \in DOMAIN Index(D) : Index(D)[e] = 1
           /\ Index({}) = EmptyBag
<1>1. DOMAIN Index(D) = {<<x, x>> : x \in D}
  BY DEF Index, SetToBag
<1>2. \A e \in DOMAIN Index(D) : Index(D)[e] = 1
  BY DEF Index, SetToBag
<1>3. {<<x, x>> : x \in {}} = {}
  OBVIOUS
<1>4. Index({}) = EmptyBag
  BY <1>3, Zenon DEF Index, EmptyBag
<1> QED BY <1>1, <1>2, <1>4 DEF BagToSet

\* Two indexes of the same keys are equal.
LEMMA IndexIs ==
    ASSUME NEW D, NEW b, b = [e \in DOMAIN b |-> b[e]],
           DOMAIN b = {<<x, x>> : x \in D}, \A e \in DOMAIN b : b[e] = 1
    PROVE  b = Index(D)
BY DEF Index, SetToBag

\* A key that was not there joins the index.
LEMMA IndexPlus ==
    ASSUME NEW D, NEW x, x \notin D
    PROVE  Plus(Index(D), <<x, x>>) = Index(D \cup {x})
<1> DEFINE p == <<x, x>>
           one == SetToBag({p})
           b == Plus(Index(D), p)
<1>0. /\ DOMAIN Index(D) = {<<z, z>> : z \in D}
      /\ \A e \in DOMAIN Index(D) : Index(D)[e] = 1
  BY IndexKeys
<1>1. p \notin DOMAIN Index(D)
  BY <1>0
<1>2. DOMAIN one = {p} /\ one[p] = 1
  BY DEF SetToBag
<1>3. b = [e \in DOMAIN Index(D) \cup {p} |->
              (IF e \in DOMAIN Index(D) THEN Index(D)[e] ELSE 0)
              + (IF e \in {p} THEN one[e] ELSE 0)]
  BY <1>2 DEF Plus, (+)
<1>4. DOMAIN b = DOMAIN Index(D) \cup {p} /\ b = [e \in DOMAIN b |-> b[e]]
  BY <1>3
<1>5. \A e \in DOMAIN b : b[e] = 1
  <2> TAKE e \in DOMAIN b
  <2>1. CASE e = p
    BY <1>1, <1>2, <1>3, <1>4, <2>1
  <2>2. CASE e # p
    BY <1>0, <1>3, <1>4, <2>2
  <2> QED BY <2>1, <2>2
<1>6. DOMAIN Index(D) \cup {p} = {<<z, z>> : z \in D \cup {x}}
  BY <1>0
<1> HIDE DEF b
<1>7. b = Index(D \cup {x})
  BY <1>4, <1>5, <1>6, IndexIs
<1> QED BY <1>7 DEF b

\* A key leaves the index.
LEMMA IndexMinus ==
    ASSUME NEW D, NEW x, x \in D
    PROVE  Minus(Index(D), <<x, x>>) = Index(D \ {x})
<1> DEFINE p == <<x, x>>
           one == SetToBag({p})
           B == [e \in DOMAIN Index(D) |-> IF e \in DOMAIN one THEN Index(D)[e] - one[e]
                                                               ELSE Index(D)[e]]
           b == Minus(Index(D), p)
<1>1. /\ p \in DOMAIN Index(D) /\ DOMAIN Index(D) = {<<z, z>> : z \in D}
      /\ \A e \in DOMAIN Index(D) : Index(D)[e] = 1
  BY IndexKeys
<1>2. DOMAIN one = {p} /\ one[p] = 1
  BY DEF SetToBag
<1>3. b = [e \in {d \in DOMAIN B : B[d] > 0} |-> B[e]]
  BY DEF Minus, (-)
<1>4. \A e \in DOMAIN Index(D) : B[e] = IF e = p THEN 0 ELSE 1
  BY <1>1, <1>2
<1>5. {d \in DOMAIN B : B[d] > 0} = DOMAIN Index(D) \ {p}
  BY <1>4
<1>6. DOMAIN Index(D) \ {p} = {<<z, z>> : z \in D \ {x}}
  BY <1>1
<1> HIDE DEF B
<1>7. /\ b = [e \in DOMAIN b |-> b[e]] /\ DOMAIN b = {<<z, z>> : z \in D \ {x}}
      /\ \A e \in DOMAIN b : b[e] = B[e]
  BY <1>3, <1>5, <1>6
<1>8. \A e \in DOMAIN b : b[e] = 1
  BY <1>4, <1>5, <1>6, <1>7
<1> HIDE DEF b
<1>9. b = Index(D \ {x})
  BY <1>7, <1>8, IndexIs
<1> QED BY <1>9 DEF b

\* A key that fits is its own tree key.
LEMMA PlainKey ==
    ASSUME Plain, NEW x \in Keys
    PROVE  TreeKey(x) = x /\ \A r : NewRowId(r, x) = x
<1>1. x \in Nat /\ KeyMod \in Nat \ {0} /\ x < KeyMod
  BY VirtualTableAssumption DEF Plain
<1>2. x % KeyMod = x
  BY ONLY <1>1
<1> QED BY <1>1, <1>2 DEF TreeKey, NewRowId, Plain

\* The keys with the primary key x, and what a search for x returns.
LEMMA IndexMatching ==
    ASSUME Plain, NEW D \in SUBSET Keys, NEW x \in Keys
    PROVE  /\ Matching(Index(D), TreeKey(x)) = {<<z, z>> : z \in D \cap {x}}
           /\ KeysWithKey(Index(D), x) = {<<z, z>> : z \in D \cap {x}}
           /\ searchAll(Index(D), x) = Index(D \cap {x})
<1>1. /\ TreeKey(x) = x
      /\ DOMAIN Index(D) = {<<z, z>> : z \in D} /\ BagToSet(Index(D)) = {<<z, z>> : z \in D}
      /\ \A e \in DOMAIN Index(D) : Index(D)[e] = 1
  BY PlainKey, IndexKeys
<1>2. Matching(Index(D), TreeKey(x)) = {<<z, z>> : z \in D \cap {x}}
  BY <1>1 DEF Matching
<1>3. KeysWithKey(Index(D), x) = {<<z, z>> : z \in D \cap {x}}
  BY <1>2 DEF KeysWithKey, Plain
<1> DEFINE b == searchAll(Index(D), x)
<1>4. b = [e \in {<<z, z>> : z \in D \cap {x}} |-> Index(D)[e]]
  BY <1>2, Zenon DEF searchAll
<1>5. DOMAIN b = {<<z, z>> : z \in D \cap {x}} /\ b = [e \in DOMAIN b |-> b[e]]
  BY <1>4
<1>6. \A e \in DOMAIN b : e \in DOMAIN Index(D)
  BY <1>1, <1>5
<1>7. \A e \in DOMAIN b : b[e] = 1
  BY <1>1, <1>4, <1>5, <1>6
<1> HIDE DEF b
<1>8. b = Index(D \cap {x})
  BY <1>5, <1>7, IndexIs
<1> QED BY <1>2, <1>3, <1>8 DEF b

\* The index that the properties ask for.
LEMMA IndexOfRows ==
    ASSUME Plain, NEW D \in SUBSET Keys, NEW S
    PROVE  IndexOf(RowsOf(D), S) = Index(D \cap S)
<1>1. \A x \in D : createTreeKey(x, RowsOf(D)[x]) = <<x, x>>
  BY PlainKey DEF createTreeKey, RowsOf
<1>2. DOMAIN RowsOf(D) = D
  BY DEF RowsOf
<1>3. {createTreeKey(x, RowsOf(D)[x]) : x \in DOMAIN RowsOf(D) \cap S} = {<<x, x>> : x \in D \cap S}
  BY <1>1, <1>2
<1> QED BY <1>3, Zenon DEF IndexOf, Index

\* Rows are added, dropped and looked up.
LEMMA RowsChange ==
    ASSUME Plain, NEW D \in SUBSET Keys, NEW x, NEW y \in Keys
    PROVE  /\ WithRow(RowsOf(D), y, y) = RowsOf(D \cup {y})
           /\ RowsWithKey(RowsOf(D), x) = D \cap {x}
           /\ Restrict(RowsOf(D), D \ {x}) = RowsOf(D \ {x})
           /\ y \in D => getRowId(RowsOf(D), y) = y
<1>1. DOMAIN RowsOf(D) = D /\ \A z \in D : RowsOf(D)[z] = z
  BY DEF RowsOf
<1>2. WithRow(RowsOf(D), y, y) = RowsOf(D \cup {y})
  BY <1>1 DEF RowsOf, WithRow
<1>3. RowsWithKey(RowsOf(D), x) = D \cap {x}
  BY <1>1 DEF RowsWithKey, Plain
<1>4. Restrict(RowsOf(D), D \ {x}) = RowsOf(D \ {x})
  BY <1>1 DEF Restrict, RowsOf
<1>5. y \in D => getRowId(RowsOf(D), y) = y
  BY <1>1 DEF getRowId
<1> QED BY <1>2, <1>3, <1>4, <1>5

\* A row is given another key.
LEMMA RekeyedRow ==
    ASSUME Plain, NEW D \in SUBSET Keys, NEW x \in D, NEW y \in Keys
    PROVE  Rekeyed(RowsOf(D), x, y) = RowsOf((D \ {x}) \cup {y})
<1> DEFINE from == RowsWithKey(RowsOf(D), x)
<1>1. DOMAIN RowsOf(D) = D /\ \A z \in D : RowsOf(D)[z] = z
  BY DEF RowsOf
<1>2. from = {x} /\ from # {} /\ {y : w \in from} = {y}
  BY <1>1 DEF RowsWithKey, Plain
<1>3. NewRowId(RowsOf(D), y) = y
  BY PlainKey
<1>4. Rekeyed(RowsOf(D), x, y)
         = [z \in (D \ {x}) \cup {y} |-> IF z = y THEN y ELSE RowsOf(D)[z]]
  BY <1>1, <1>2, <1>3 DEF Rekeyed
<1> QED BY <1>1, <1>4 DEF RowsOf

\* The step of the connection that has the table open leaves the rows E, indexed.
LEMMA IndexNext ==
    ASSUME NEW c \in Connections, NEW E \in SUBSET Keys,
           sql'.exists, sql'.rows = RowsOf(E), file'.exists, file'.keys = Index(E),
           conn'[c].linked, conn'[c].keys = Index(E),
           \A d \in Connections \ {c} : ~conn'[d].attached
    PROVE  IndexInv' /\ DOMAIN sql'.rows = E
<1>1. DOMAIN sql'.rows = E
  BY DEF RowsOf
<1>2. \A d \in Connections : conn'[d].attached => d = c
  OBVIOUS
<1> QED BY <1>1, <1>2 DEF IndexInv

\* It changes its tree, and the file with it.
LEMMA TurnStore ==
    ASSUME Shape, IndexInv, NEW c \in Connections, conn[c].attached, NEW t, IsConn(t),
           t.linked = conn[c].linked, Store(c, t)
    PROVE  /\ file'.exists /\ file'.keys = t.keys /\ conn'[c] = t /\ t.linked
           /\ \A d \in Connections \ {c} : ~conn'[d].attached
<1>1. /\ conn[c].linked /\ sql.exists /\ file.exists /\ conn[c].keys = file.keys
      /\ \A d \in Connections \ {c} : ~conn[d].attached
  BY DEF IndexInv
<1>2. t.linked
  BY <1>1
<1>3. /\ conn'[c] = t /\ \A d \in Connections \ {c} : conn'[d] = conn[d]
      /\ file'.exists = file.exists
      /\ t.linked /\ file.exists /\ t.keys # conn[c].keys => file'.keys = t.keys
      /\ t.keys = conn[c].keys => file' = file
  BY StoreEffect
<1> QED BY <1>1, <1>2, <1>3

\* The same for the operations that may rebuild it.
LEMMA TurnFinish ==
    ASSUME Shape, IndexInv, NEW c \in Connections, conn[c].attached, NEW t, IsConn(t),
           t.linked, Finish(c, t)
    PROVE  /\ file'.exists /\ file'.keys = t.keys /\ conn'[c] = t
           /\ \A d \in Connections \ {c} : ~conn'[d].attached
<1>1. /\ sql.exists /\ file.exists /\ conn[c].keys = file.keys
      /\ \A d \in Connections \ {c} : ~conn[d].attached
  BY DEF IndexInv
<1>2. /\ conn'[c] = t
      /\ \A d \in Connections \ {c} : conn'[d].attached = conn[d].attached
      /\ rebuildIndexIfNecessary(conn[c]) =>
            file' = [exists |-> TRUE, type |-> t.bestIndex, keys |-> t.keys]
      /\ ~rebuildIndexIfNecessary(conn[c]) => Store(c, t)
  BY FinishEffect
<1>3. CASE rebuildIndexIfNecessary(conn[c])
  BY <1>1, <1>2, <1>3
<1>4. CASE ~rebuildIndexIfNecessary(conn[c])
  <2>1. /\ file'.exists = file.exists
        /\ t.linked /\ file.exists /\ t.keys # conn[c].keys => file'.keys = t.keys
        /\ t.keys = conn[c].keys => file' = file
    BY <1>2, <1>4, StoreEffect
  <2> QED BY <1>1, <1>2, <2>1
<1> QED BY <1>3, <1>4

\* What the step of a statement on one of its rows does, when connections take turns:
\* a row that is there is changed together with its key, and only an UPDATE to the
\* key of another row fails.
TurnRow ==
    /\ IndexInv' /\ sql'.exists
    /\ \/ FailStatement /\ sql' = sql /\ stmt.kind = "update" /\ stmt.newKey \in DOMAIN sql.rows
       \/ /\ stmt'.kind = stmt.kind /\ stmt'.newKey = stmt.newKey
          /\ stmt'.found = EmptyBag

\* The row that a row step is about.
LEMMA TheFoundRow ==
    ASSUME TurnsInv, NEW c \in Connections, txn = c, stmt.kind # "none",
           NEW e \in BagToSet(stmt.found)
    PROVE  /\ conn[c].attached /\ conn[c].isOpened
           /\ stmt.newKey \in Keys /\ stmt.before = sql
           /\ sql.exists /\ file.exists /\ conn[c].linked
           /\ DOMAIN sql.rows \in SUBSET Keys /\ sql.rows = RowsOf(DOMAIN sql.rows)
           /\ conn[c].keys = Index(DOMAIN sql.rows)
           /\ \A d \in Connections \ {c} : ~conn[d].attached
           /\ e[2] \in DOMAIN sql.rows /\ e = <<e[2], e[2]>> /\ stmt.found = Index({e[2]})
           /\ Minus(stmt.found, e) = EmptyBag
<1>1. conn[c].attached /\ conn[c].isOpened /\ stmt.newKey \in Keys
  BY DEF TurnsInv, FoundInv, TypesAgree
<1>2. /\ sql.exists /\ file.exists /\ conn[c].linked
      /\ DOMAIN sql.rows \in SUBSET Keys /\ sql.rows = RowsOf(DOMAIN sql.rows)
      /\ conn[c].keys = Index(DOMAIN sql.rows)
      /\ \A d \in Connections \ {c} : ~conn[d].attached
  BY <1>1 DEF TurnsInv, IndexInv
<1>3. BagToSet(EmptyBag) = {}
  BY DEF EmptyBag, SetToBag, BagToSet
<1>4. PICK x \in DOMAIN sql.rows : stmt.before = sql /\ stmt.found = Index({x})
  BY <1>3 DEF TurnsInv, FoundInv
<1>5. BagToSet(Index({x})) = {<<z, z>> : z \in {x}}
  BY IndexKeys
<1>6. e = <<x, x>> /\ e[2] = x
  BY <1>4, <1>5
<1>7. Minus(Index({x}), <<x, x>>) = Index({x} \ {x}) /\ {x} \ {x} = {}
  BY IndexMinus
<1>8. Index({}) = EmptyBag
  BY IndexKeys
<1> QED BY <1>1, <1>2, <1>4, <1>6, <1>7, <1>8

\* SELECT.
LEMMA ReadRowTurn ==
    ASSUME TurnsInv, NEW c \in Connections, NEW e \in BagToSet(stmt.found), ReadRow(c, e)
    PROVE  TurnRow
<1>1. txn = c /\ stmt.kind = "select" /\ stmt' = [stmt EXCEPT !.found = Minus(stmt.found, e)]
      /\ sql' = sql /\ file' = file /\ conn' = conn
  BY DEF ReadRow
<1>2. Minus(stmt.found, e) = EmptyBag /\ sql.exists
  BY <1>1, TheFoundRow
<1>3. stmt'.kind = stmt.kind /\ stmt'.newKey = stmt.newKey /\ stmt'.found = EmptyBag
  BY <1>1, <1>2 DEF TurnsInv, Shape, IsStmt
<1>4. IndexInv'
  BY <1>1 DEF TurnsInv, IndexInv
<1> QED BY <1>1, <1>2, <1>3, <1>4 DEF TurnRow

\* DELETE.
LEMMA DeleteRowTurn ==
    ASSUME Plain, TurnsInv, NEW c \in Connections, NEW e \in BagToSet(stmt.found),
           DeleteRow(c, e)
    PROVE  TurnRow
<1> DEFINE D == DOMAIN sql.rows
           x == e[2]
           t == [conn[c] EXCEPT !.deletes = conn[c].deletes + 1]
           u == [t EXCEPT !.keys = Minus(t.keys, <<x, x>>)]
           left == {d \in BagToSet(stmt.found) : d[2] # x}
           r == Restrict(sql.rows, DOMAIN sql.rows \ RowsWithKey(sql.rows, x))
           f == Restrict(stmt.found, left)
<1>1. txn = c /\ stmt.kind = "delete"
  BY DEF DeleteRow
<1>2. /\ conn[c].attached /\ sql.exists /\ D \in SUBSET Keys /\ sql.rows = RowsOf(D)
      /\ conn[c].keys = Index(D) /\ x \in D /\ e = <<x, x>> /\ stmt.found = Index({x})
      /\ conn[c].linked /\ ~Terminate(c)
  BY <1>1, TheFoundRow DEF Terminate
<1>3. IsConn(t) /\ t.keys = Index(D) /\ t.linked = conn[c].linked
  <2>1. IsConn(conn[c])
    BY DEF TurnsInv, Shape
  <2> QED BY <1>2, <2>1 DEF IsConn
<1> HIDE DEF t
<1>4. IsConn(u) /\ u.keys = Index(D \ {x}) /\ u.linked = conn[c].linked
  <2>1. Minus(t.keys, <<x, x>>) = Index(D \ {x})
    BY <1>2, <1>3, IndexMinus
  <2> QED BY <1>3, <2>1 DEF IsConn
<1>5. KeysWithKey(t.keys, x) = {<<x, x>>}
  <2>1. x \in Keys /\ D \cap {x} = {x}
    BY <1>2
  <2>2. KeysWithKey(t.keys, x) = {<<z, z>> : z \in D \cap {x}}
    BY <1>2, <1>3, <2>1, IndexMatching
  <2>3. {<<z, z>> : z \in {x}} = {<<x, x>>}
    OBVIOUS
  <2> QED BY <2>1, <2>2, <2>3
<1>6. RemoveAnswers(t) = {TRUE}
  BY DEF RemoveAnswers, Plain
<1>7. r = RowsOf(D \ {x})
  <2>1. x \in Keys /\ D \ (D \cap {x}) = D \ {x}
    BY <1>2
  <2>2. RowsWithKey(RowsOf(D), x) = D \cap {x} /\ Restrict(RowsOf(D), D \ {x}) = RowsOf(D \ {x})
    <3> HIDE DEF D, x
    <3> QED BY <1>2, <2>1, RowsChange
  <2> QED BY <1>2, <2>1, <2>2
<1>8. f = EmptyBag
  <2>1. left = {}
    <3>1. BagToSet(Index({x})) = {<<z, z>> : z \in {x}}
      BY IndexKeys
    <3> QED BY <1>2, <3>1
  <2> QED BY <2>1 DEF Restrict, EmptyBag, SetToBag
<1>9. Store(c, u) /\ sql' = [sql EXCEPT !.rows = r] /\ stmt' = [stmt EXCEPT !.found = f]
  <2>1. \/ \E h \in KeysWithKey(t.keys, x), ok \in RemoveAnswers(t) :
              /\ Store(c, [t EXCEPT !.keys = Minus(t.keys, h)])
              /\ IF ok THEN /\ sql' = [sql EXCEPT !.rows = r]
                            /\ stmt' = [stmt EXCEPT !.found = f]
                       ELSE FailStatement
        \/ KeysWithKey(t.keys, x) = {}
    BY <1>2 DEF DeleteRow, t
  <2> QED BY <1>5, <1>6, <2>1
<1> HIDE DEF r, f, u
<1>10. sql'.exists = sql.exists /\ sql'.rows = RowsOf(D \ {x})
  BY <1>7, <1>9 DEF TurnsInv, Shape, IsTable
<1>11. stmt'.kind = stmt.kind /\ stmt'.newKey = stmt.newKey /\ stmt'.found = EmptyBag
  BY <1>8, <1>9 DEF TurnsInv, Shape, IsStmt
<1>12. /\ file'.exists /\ file'.keys = u.keys /\ conn'[c] = u /\ u.linked
       /\ \A d \in Connections \ {c} : ~conn'[d].attached
  BY <1>2, <1>4, <1>9, TurnStore DEF TurnsInv
<1>13. IndexInv'
  <2>1. D \ {x} \in SUBSET Keys
    BY <1>2
  <2> QED BY <1>2, <1>4, <1>10, <1>12, <2>1, IndexNext
<1> QED BY <1>2, <1>10, <1>11, <1>13 DEF TurnRow

\* UPDATE of the key.
LEMMA UpdateRowTurn ==
    ASSUME Plain, TurnsInv, NEW c \in Connections, NEW e \in BagToSet(stmt.found),
           UpdateRow(c, e)
    PROVE  TurnRow
<1> DEFINE D == DOMAIN sql.rows
           x == e[2]
           y == stmt.newKey
           E == (D \ {x}) \cup {y}
           t == [conn[c] EXCEPT !.deletes = conn[c].deletes + 1]
           from == RowsWithKey(sql.rows, x)
           rows == Rekeyed(sql.rows, x, y)
           f == Minus(stmt.found, e)
           key == createTreeKey(y, getRowId(rows, y))
           u == [t EXCEPT !.keys = Minus(t.keys, <<x, x>>)]
           w == [u EXCEPT !.keys = Plus(u.keys, key), !.inserts = u.inserts + 1]
           Succeed == sql' = [sql EXCEPT !.rows = rows] /\ stmt' = [stmt EXCEPT !.found = f]
<1>1. txn = c /\ stmt.kind = "update"
  BY DEF UpdateRow
<1>2. /\ conn[c].attached /\ sql.exists /\ D \in SUBSET Keys /\ sql.rows = RowsOf(D)
      /\ conn[c].keys = Index(D) /\ x \in D /\ e = <<x, x>> /\ f = EmptyBag
      /\ conn[c].linked /\ y \in Keys /\ stmt.before = sql /\ file.exists /\ ~Terminate(c)
      /\ \A d \in Connections \ {c} : ~conn[d].attached
  BY <1>1, TheFoundRow DEF Terminate
<1>3. IsConn(t) /\ t.keys = Index(D) /\ t.linked = conn[c].linked
  <2>1. IsConn(conn[c])
    BY DEF TurnsInv, Shape
  <2> QED BY <1>2, <2>1 DEF IsConn
<1>4. from = {x} /\ rows = RowsOf(E) /\ E \in SUBSET Keys /\ y \in E
  <2>1. D \cap {x} = {x} /\ E \in SUBSET Keys /\ y \in E
    BY <1>2
  <2>2. RowsWithKey(RowsOf(D), x) = D \cap {x} /\ Rekeyed(RowsOf(D), x, y) = RowsOf(E)
    <3> HIDE DEF D, x, y
    <3>1. RowsWithKey(RowsOf(D), x) = D \cap {x}
      BY <1>2, RowsChange
    <3>2. Rekeyed(RowsOf(D), x, y) = RowsOf((D \ {x}) \cup {y})
      BY <1>2, RekeyedRow
    <3> QED BY <3>1, <3>2 DEF E
  <2> QED BY <1>2, <2>1, <2>2
<1>5. key = <<y, y>>
  <2>1. getRowId(RowsOf(E), y) = y
    <3> HIDE DEF E, y
    <3> QED BY <1>2, <1>4, RowsChange
  <2>2. TreeKey(y) = y
    BY <1>2, PlainKey
  <2> QED BY <1>4, <2>1, <2>2 DEF createTreeKey
<1>6. KeysWithKey(t.keys, x) = {<<x, x>>} /\ RemoveAnswers(t) = {TRUE}
  <2>1. x \in Keys /\ D \cap {x} = {x}
    BY <1>2
  <2>2. KeysWithKey(t.keys, x) = {<<z, z>> : z \in D \cap {x}}
    BY <1>2, <1>3, <2>1, IndexMatching
  <2>3. {<<z, z>> : z \in {x}} = {<<x, x>>}
    OBVIOUS
  <2>4. RemoveAnswers(t) = {TRUE}
    BY DEF RemoveAnswers, Plain
  <2> QED BY <2>1, <2>2, <2>3, <2>4
<1> DEFINE conflict == from # {} /\ y \in DOMAIN sql.rows \ from
           same == KeyIsRowid /\ y = x
<1>7. \/ conflict /\ FailStatement /\ conn' = conn /\ file' = file
      \/ ~conflict /\ same /\ Succeed /\ conn' = conn /\ file' = file
      \/ ~conflict /\ ~same /\ Succeed /\ Store(c, w)
  <2>1. \/ conflict /\ FailStatement /\ conn' = conn /\ file' = file
        \/ ~conflict /\ same /\ Succeed /\ conn' = conn /\ file' = file
        \/ /\ ~conflict /\ ~same
           /\ \E h \in KeysWithKey(t.keys, x), ok \in RemoveAnswers(t) :
                 LET v == [t EXCEPT !.keys = Minus(t.keys, h)]
                 IN  \/ ~ok
                     \/ Succeed /\ Store(c, [v EXCEPT !.keys = Plus(v.keys, key),
                                                      !.inserts = v.inserts + 1])
        \/ KeysWithKey(t.keys, x) = {}
    BY <1>2 DEF UpdateRow
  <2> HIDE DEF conflict, same, Succeed, t, key
  <2> QED BY <1>6, <2>1
<1>8. Succeed => /\ sql'.exists = sql.exists /\ sql'.rows = RowsOf(E)
                 /\ stmt'.kind = stmt.kind /\ stmt'.newKey = stmt.newKey
                 /\ stmt'.found = EmptyBag
  <2> SUFFICES ASSUME Succeed
               PROVE  /\ sql'.exists = sql.exists /\ sql'.rows = RowsOf(E)
                      /\ stmt'.kind = stmt.kind /\ stmt'.newKey = stmt.newKey
                      /\ stmt'.found = EmptyBag
    OBVIOUS
  <2> HIDE DEF rows, f, E
  <2>1. sql'.exists = sql.exists /\ sql'.rows = RowsOf(E)
    BY <1>4 DEF TurnsInv, Shape, IsTable
  <2>2. stmt'.kind = stmt.kind /\ stmt'.newKey = stmt.newKey /\ stmt'.found = EmptyBag
    BY <1>2 DEF TurnsInv, Shape, IsStmt
  <2> QED BY <2>1, <2>2
<1>9. CASE conflict /\ FailStatement /\ conn' = conn /\ file' = file
  <2>1. sql' = sql
    BY <1>2, <1>9 DEF FailStatement
  <2>2. IndexInv'
    BY <1>9, <2>1 DEF TurnsInv, IndexInv
  <2> QED BY <1>1, <1>2, <1>9, <2>1, <2>2 DEF TurnRow
<1>10. CASE ~conflict /\ same /\ Succeed /\ conn' = conn /\ file' = file
  <2>1. E = D
    BY <1>2, <1>10
  <2>2. sql'.exists = sql.exists /\ sql'.rows = sql.rows
    BY <1>2, <1>8, <1>10, <2>1
  <2>3. IndexInv'
    BY <1>10, <2>2 DEF TurnsInv, IndexInv
  <2> HIDE DEF E, Succeed
  <2> QED BY <1>2, <1>8, <1>10, <2>2, <2>3 DEF TurnRow
<1>11. CASE ~conflict /\ ~same /\ Succeed /\ Store(c, w)
  <2>1. y \notin D
    BY <1>2, <1>4, <1>11 DEF Plain
  <2>2. u.keys = Index(D \ {x}) /\ IsConn(u) /\ u.linked = conn[c].linked
    <3>1. Minus(t.keys, <<x, x>>) = Index(D \ {x})
      BY <1>2, <1>3, IndexMinus
    <3> HIDE DEF t
    <3> QED BY <1>3, <3>1 DEF IsConn
  <2> HIDE DEF u
  <2>3. w.keys = Index(E) /\ IsConn(w) /\ w.linked = conn[c].linked
    <3>1. Plus(u.keys, key) = Index(E)
      <4>1. y \notin D \ {x}
        BY <2>1
      <4>2. Plus(Index(D \ {x}), <<y, y>>) = Index((D \ {x}) \cup {y})
        BY <4>1, IndexPlus
      <4> QED BY <1>5, <2>2, <4>2
    <3> HIDE DEF key
    <3> QED BY <2>2, <3>1 DEF IsConn
  <2> HIDE DEF w, Succeed, E
  <2>4. /\ file'.exists /\ file'.keys = w.keys /\ conn'[c] = w /\ w.linked
        /\ \A d \in Connections \ {c} : ~conn'[d].attached
    BY <1>2, <1>11, <2>3, TurnStore DEF TurnsInv
  <2>5. IndexInv'
    BY <1>2, <1>4, <1>8, <1>11, <2>3, <2>4, IndexNext
  <2> QED BY <1>2, <1>8, <1>11, <2>5 DEF TurnRow
<1> QED BY <1>7, <1>9, <1>10, <1>11

\* BestIndex and the two forms of INSERT: a row that is added is indexed.
LEMMA IndexTurn ==
    ASSUME Plain, TurnsInv, Agreeable, NEW c \in Connections,
           BestIndex(c) \/ (\E x \in Keys : InsertRow(c, x)) \/ InsertMismatch(c)
    PROVE  /\ IndexInv' /\ ~Terminate(c)
<1> DEFINE D == DOMAIN sql.rows
           t == Reviewed(conn[c])
<1>0. BestIndex(c) => ~Hindered(c)
  BY DEF Agreeable, Unhindered, BestIndex
<1>1. conn[c].attached /\ sql.exists
  BY <1>0 DEF BestIndex, InsertRow, InsertMismatch, Working
<1>2. /\ D \in SUBSET Keys /\ sql.rows = RowsOf(D) /\ conn[c].linked /\ conn[c].keys = Index(D)
      /\ ~Terminate(c)
  BY <1>1 DEF TurnsInv, IndexInv, TypesAgree, Terminate
<1>3. /\ IsConn(t) /\ t.keys = Index(D) /\ t.linked
      /\ IsTable(SqlReviewed(conn[c])) /\ SqlReviewed(conn[c]).exists = sql.exists
      /\ SqlReviewed(conn[c]).rows = sql.rows
  BY <1>2, ReviewEffect DEF TurnsInv
<1>4. ASSUME Finish(c, t), sql'.exists = sql.exists, sql'.rows = sql.rows
      PROVE  IndexInv'
  <2>1. /\ file'.exists /\ file'.keys = t.keys /\ conn'[c] = t
        /\ \A d \in Connections \ {c} : ~conn'[d].attached
    BY <1>1, <1>3, <1>4, TurnFinish DEF TurnsInv
  <2> HIDE DEF t, D
  <2> QED BY <1>1, <1>2, <1>3, <1>4, <2>1, IndexNext
<1>5. CASE BestIndex(c)
  <2>1. Finish(c, t) /\ sql' = SqlReviewed(conn[c])
    BY <1>0, <1>5 DEF BestIndex
  <2> QED BY <1>2, <1>3, <1>4, <2>1
<1>6. ASSUME RefuseInsert(c)
      PROVE  IndexInv'
  <2>1. Finish(c, t) /\ (sql' = sql \/ sql' = SqlReviewed(conn[c]))
    BY <1>6 DEF RefuseInsert
  <2> QED BY <1>3, <1>4, <2>1
<1>7. ASSUME NEW x \in Keys, InsertRow(c, x)
      PROVE  IndexInv'
  <2>1. CASE RefuseInsert(c)
    BY <1>6, <2>1
  <2>2. CASE x \notin D /\ AddRow(c, x)
    <3> DEFINE E == D \cup {x}
               r == WithRow(SqlReviewed(conn[c]).rows, x, NewRowId(sql.rows, x))
               k == Plus(t.keys, createTreeKey(x, NewRowId(sql.rows, x)))
               u == [t EXCEPT !.keys = k, !.inserts = t.inserts + 1]
    <3>1. sql' = [SqlReviewed(conn[c]) EXCEPT !.rows = r] /\ Finish(c, u)
      BY <2>2 DEF AddRow
    <3>2. NewRowId(sql.rows, x) = x /\ TreeKey(x) = x
      BY <1>7, PlainKey
    <3>3. r = RowsOf(E)
      <4>1. WithRow(RowsOf(D), x, x) = RowsOf(D \cup {x})
        <5> HIDE DEF D
        <5> QED BY <1>2, <1>7, RowsChange
      <4> QED BY <1>2, <1>3, <3>2, <4>1
    <3>4. k = Index(E)
      BY <1>3, <2>2, <3>2, IndexPlus DEF createTreeKey
    <3>5. E \in SUBSET Keys
      BY <1>2, <1>7
    <3> HIDE DEF r, k, E, t
    <3>6. IsConn(u) /\ u.keys = Index(E) /\ u.linked
      <4>1. IsConn(u) /\ u.keys = k /\ u.linked = t.linked
        BY <1>3 DEF IsConn
      <4> QED BY <1>3, <3>4, <4>1
    <3> HIDE DEF u
    <3>7. /\ file'.exists /\ file'.keys = u.keys /\ conn'[c] = u
          /\ \A d \in Connections \ {c} : ~conn'[d].attached
      BY <1>1, <3>1, <3>6, TurnFinish DEF TurnsInv
    <3>8. sql'.exists = sql.exists /\ sql'.rows = r
      BY <1>3, <3>1 DEF IsTable
    <3> QED BY <1>1, <3>3, <3>5, <3>6, <3>7, <3>8, IndexNext
  <2> QED BY <1>2, <1>7, <2>1, <2>2 DEF InsertRow
<1> QED BY <1>2, <1>5, <1>6, <1>7 DEF InsertMismatch

\* Filter finds the row with the key x if there is one.
LEMMA FilterTurn ==
    ASSUME Plain, TurnsInv, NEW c \in Connections, NEW kind, NEW x \in Keys, NEW y,
           Filter(c, kind, x, y)
    PROVE  /\ IndexInv' /\ txn' = c /\ conn'[c].attached
           /\ stmt'.found = IndexOf(sql.rows, {stmt'.key})
           /\ \/ stmt'.found = EmptyBag
              \/ x \in DOMAIN sql.rows /\ stmt'.found = Index({x})
<1> DEFINE D == DOMAIN sql.rows
<1>1. /\ sql' = sql /\ file' = file /\ stmt'.key = x /\ stmt'.found = searchAll(conn[c].keys, x)
      /\ conn[c].attached /\ sql.exists
      /\ \A d \in Connections : /\ conn'[d].attached = conn[d].attached
                                /\ conn'[d].linked = conn[d].linked
                                /\ conn'[d].keys = conn[d].keys
  BY FilterEffect DEF TurnsInv, SameConn
<1>2. D \in SUBSET Keys /\ sql.rows = RowsOf(D) /\ conn[c].keys = Index(D)
  BY <1>1 DEF TurnsInv, IndexInv
<1>3. IndexInv' /\ txn' = c /\ conn'[c].attached
  BY <1>1 DEF TurnsInv, IndexInv, Filter
<1> HIDE DEF D
<1>4. stmt'.found = Index(D \cap {x})
  BY <1>1, <1>2, IndexMatching
<1>5. IndexOf(RowsOf(D), {x}) = Index(D \cap {x})
  BY <1>2, IndexOfRows
<1>6. CASE x \in D
  <2>1. D \cap {x} = {x}
    BY <1>6
  <2> QED BY <1>1, <1>2, <1>3, <1>4, <1>5, <1>6, <2>1 DEF D
<1>7. CASE x \notin D
  <2>1. D \cap {x} = {}
    BY <1>7
  <2> QED BY <1>1, <1>2, <1>3, <1>4, <1>5, <2>1, IndexKeys
<1> QED BY <1>6, <1>7


\* A connection that takes its turn is alone.
LEMMA AloneAfter ==
    ASSUME OneAtATime, NEW c \in Connections, conn'[c].attached,
           \A a, b \in Connections \ {c} : conn'[a].attached /\ conn'[b].attached => a = b,
           NEW d \in Connections, d # c
    PROVE  ~conn'[d].attached
<1> SUFFICES ASSUME conn'[d].attached PROVE FALSE
  OBVIOUS
<1> DEFINE A == {b \in Connections : conn'[b].attached}
<1>1. A = {c} \cup {d}
  OBVIOUS
<1>2. IsFiniteSet({c}) /\ Cardinality({c}) = 1 /\ d \notin {c}
  BY FS_Singleton
<1>3. Cardinality({c} \cup {d}) = 1 + 1
  BY <1>2, FS_AddElement
<1>4. Cardinality(A) <= 1
  BY DEF OneAtATime
<1> HIDE DEF A
<1> QED BY <1>1, <1>3, <1>4

\* Create, Connect, Disconnect and Destroy.
LEMMA TableTurn ==
    ASSUME TurnsInv, NEW c \in Connections, TableStep(c), OneAtATime
    PROVE  IndexInv' /\ stmt.kind = "none" /\ stmt' = stmt
<1>1. Shape /\ IndexInv /\ FoundInv
  BY DEF TurnsInv
<1>2. CASE Create(c)
  <2> DEFINE t == [Detached EXCEPT !.attached = TRUE, !.linked = TRUE,
                                   !.isOpened = TRUE, !.isOriginal = TRUE]
  <2>1. stmt.kind = "none" /\ stmt' = stmt /\ ~sql.exists
    BY <1>2, StartRecords DEF Create, Idle
  <2>2. /\ sql'.exists = TRUE /\ sql'.rows = NoRows
        /\ file'.exists = TRUE /\ file'.keys = EmptyBag
    BY <1>2 DEF Create, NoTable, NoFile
  <2>3. t.attached = TRUE /\ t.linked = TRUE /\ t.keys = EmptyBag
    BY DEF Detached
  <2>4. conn' = [conn EXCEPT ![c] = t]
    BY <1>2 DEF Create
  <2> HIDE DEF t
  <2>5. conn'[c] = t /\ \A d \in Connections \ {c} : conn'[d] = conn[d]
    BY <1>1, <2>4 DEF Shape
  <2>6. \A d \in Connections \ {c} : ~conn'[d].attached
    BY <1>1, <2>1, <2>5 DEF IndexInv
  <2>7. NoRows = RowsOf({}) /\ Index({}) = EmptyBag /\ {} \in SUBSET Keys
    BY IndexKeys DEF NoRows, RowsOf
  <2>8. IndexInv'
    BY <2>2, <2>3, <2>5, <2>6, <2>7, IndexNext
  <2> QED BY <2>1, <2>8
<1>3. CASE Connect(c)
  <2> DEFINE t == [Detached EXCEPT !.attached = TRUE, !.linked = TRUE,
                                   !.bestIndex = sql.bestIndex, !.keys = file.keys,
                                   !.isOpened = ReadsRootPage(sql.bestIndex, file.type)]
             D == DOMAIN sql.rows
  <2>1. stmt.kind = "none" /\ stmt' = stmt /\ sql.exists /\ sql' = sql /\ file' = file
    BY <1>3, StartRecords DEF Connect, Idle
  <2>2. /\ sql.rows = RowsOf(D) /\ D \in SUBSET Keys
        /\ file.exists /\ file.keys = Index(D)
    BY <1>1, <2>1 DEF IndexInv
  <2>3. t.attached = TRUE /\ t.linked = TRUE /\ t.keys = file.keys
    BY DEF Detached
  <2>4. conn' = [conn EXCEPT ![c] = t]
    BY <1>3 DEF Connect
  <2> HIDE DEF t, D
  <2>5. conn'[c] = t /\ \A d \in Connections \ {c} : conn'[d] = conn[d]
    BY <1>1, <2>4 DEF Shape
  <2>6. \A d \in Connections \ {c} : ~conn'[d].attached
    BY <1>1, <2>3, <2>5, AloneAfter DEF IndexInv
  <2>7. IndexInv'
    BY <2>1, <2>2, <2>3, <2>5, <2>6, IndexNext
  <2> QED BY <2>1, <2>7
<1>4. CASE Disconnect(c)
  <2>1. txn # c /\ conn[c].attached /\ stmt' = stmt /\ sql' = sql /\ file' = file
        /\ conn' = [conn EXCEPT ![c] = Detached]
    BY <1>4 DEF Disconnect
  <2>2. stmt.kind = "none"
    BY <1>1, <2>1 DEF FoundInv, IndexInv
  <2>3. \A d \in Connections : conn'[d] = IF d = c THEN Detached ELSE conn[d]
    BY <1>1, <2>1 DEF Shape
  <2>4. \A d \in Connections : ~conn'[d].attached
    BY <1>1, <2>1, <2>3, StartRecords DEF IndexInv
  <2>5. IndexInv'
    BY <1>1, <2>1, <2>4 DEF IndexInv
  <2> QED BY <2>1, <2>2, <2>5
<1>5. CASE Destroy(c)
  <2>1. stmt.kind = "none" /\ stmt' = stmt /\ sql' = NoTable /\ conn[c].attached
        /\ conn' = [d \in Connections |->
                       IF d = c THEN Detached ELSE [conn[d] EXCEPT !.linked = FALSE]]
    BY <1>5, StartRecords DEF Destroy, Idle
  <2>2. \A d \in Connections : ~conn'[d].attached
    <3> TAKE d \in Connections
    <3>1. CASE d = c
      BY <2>1, <3>1, StartRecords
    <3>2. CASE d # c
      <4>1. ~conn[d].attached /\ IsConn(conn[d])
        BY <1>1, <2>1, <3>2 DEF IndexInv, Shape
      <4>2. conn'[d] = [conn[d] EXCEPT !.linked = FALSE]
        BY <2>1, <3>2
      <4> QED BY <4>1, <4>2, UnlinkedConn
    <3> QED BY <3>1, <3>2
  <2>3. sql'.exists = FALSE /\ sql'.rows = NoRows
    BY <2>1 DEF NoTable
  <2>4. NoRows = RowsOf(DOMAIN NoRows) /\ DOMAIN NoRows \subseteq Keys
    BY DEF NoRows, RowsOf
  <2>5. IndexInv'
    BY <2>2, <2>3, <2>4 DEF IndexInv
  <2> QED BY <2>1, <2>5
<1> QED BY <1>2, <1>3, <1>4, <1>5 DEF TableStep

\* The step of FilterFindsRows and that of FoundRowsChange.
FilterFinds ==
    stmt.kind = "none" /\ stmt'.kind # "none" => stmt'.found = IndexOf(sql.rows, {stmt'.key})
FoundChanges ==
    (stmt.kind # "none" /\ stmt.found # EmptyBag /\ stmt'.kind = "none") =>
        (stmt.kind = "update" /\ stmt.newKey \in DOMAIN sql.rows)

\* Every step of connections that take turns keeps the index, finds the rows there
\* are and changes the rows it has found.
LEMMA TurnsStep ==
    ASSUME Plain, HasFileInv, TurnsInv, [Next /\ Agreeable /\ OneAtATime]_vars
    PROVE  HasFileInv' /\ TurnsInv' /\ FilterFinds /\ FoundChanges
<1> DEFINE Goal == IndexInv' /\ FoundInv' /\ FilterFinds /\ FoundChanges
<1>0. HasFileInv' /\ TypesAgree'
  <2>1. CASE Next /\ Agreeable
    BY <2>1, HasFileStep DEF TurnsInv
  <2>2. CASE UNCHANGED vars
    <3>1. HasFileInv'
      BY <2>2, HasFileStep
    <3> QED BY <2>2, <3>1 DEF TurnsInv, TypesAgree, vars
  <2> QED BY <2>1, <2>2
<1>1. Shape /\ IndexInv /\ FoundInv
  BY DEF TurnsInv
<1>2. ASSUME NEW c \in Connections, TableStep(c), OneAtATime
      PROVE  Goal
  <2>1. IndexInv' /\ stmt.kind = "none" /\ stmt' = stmt
    BY <1>2, TableTurn
  <2> QED BY <2>1 DEF FoundInv, FilterFinds, FoundChanges
<1>3. ASSUME NEW c \in Connections, Agreeable,
             BestIndex(c) \/ (\E x \in Keys : InsertRow(c, x)) \/ InsertMismatch(c)
      PROVE  Goal
  <2>1. IndexInv' /\ ~Terminate(c)
    BY <1>3, IndexTurn
  <2>2. IndexStep(c)
    BY <1>1, <1>3, <2>1, IndexEffect
  <2>3. stmt.kind = "none" /\ stmt'.kind = "none"
    BY <1>3, <2>2, StartRecords DEF IndexStep, Working, Idle
  <2> QED BY <2>1, <2>3 DEF FoundInv, FilterFinds, FoundChanges
<1>4. ASSUME NEW c \in Connections, NEW kind, NEW x \in Keys, NEW y \in Keys,
             Filter(c, kind, x, y)
      PROVE  Goal
  <2>1. /\ Shape' /\ sql' = sql /\ stmt = NoStmt /\ stmt'.newKey = y /\ stmt'.before = sql
    BY <1>1, <1>4, FilterEffect
  <2>2. /\ IndexInv' /\ txn' = c /\ conn'[c].attached
        /\ stmt'.found = IndexOf(sql.rows, {stmt'.key})
        /\ \/ stmt'.found = EmptyBag
           \/ x \in DOMAIN sql.rows /\ stmt'.found = Index({x})
    BY <1>4, FilterTurn
  <2>3. FoundInv'
    BY <2>1, <2>2 DEF FoundInv
  <2>4. stmt.kind = "none"
    BY <2>1, StartRecords
  <2> QED BY <2>1, <2>2, <2>3, <2>4 DEF FilterFinds, FoundChanges
<1>5. ASSUME NEW c \in Connections, RowStep(c)
      PROVE  Goal
  <2>1. PICK e \in BagToSet(stmt.found) : ReadRow(c, e) \/ DeleteRow(c, e) \/ UpdateRow(c, e)
    BY <1>5 DEF RowStep
  <2>2. stmt.kind # "none" /\ txn = c
    BY <1>1, <2>1, RowEffect
  <2>3. TurnRow
    BY <2>1, ReadRowTurn, DeleteRowTurn, UpdateRowTurn
  <2>4. ~Terminate(c)
    BY <2>1, <2>2, TheFoundRow DEF Terminate
  <2>5. txn' = txn /\ \A d \in Connections : conn'[d].attached = conn[d].attached
    BY <1>1, <2>1, <2>4, RowEffect DEF SameConn
  <2>6. FailStatement => stmt'.kind = "none"
    BY StartRecords DEF FailStatement
  <2>7. FoundInv'
    BY <1>1, <2>2, <2>3, <2>4, <2>5, <2>6 DEF FoundInv, TurnRow
  <2> QED BY <2>2, <2>3, <2>7 DEF FilterFinds, FoundChanges, TurnRow
<1>6. ASSUME NEW c \in Connections, EndStatement(c)
      PROVE  Goal
  <2>1. /\ Shape' /\ sql' = sql /\ file' = file /\ conn' = conn
        /\ stmt' = NoStmt /\ stmt.found = EmptyBag
    BY <1>1, <1>6, EndEffect
  <2>2. IndexInv'
    BY <1>1, <2>1 DEF IndexInv
  <2> QED BY <2>1, <2>2, StartRecords DEF FoundInv, FilterFinds, FoundChanges
<1>7. ASSUME NEW c \in Connections, Commit(c)
      PROVE  Goal
  <2>1. /\ Shape' /\ sql' = sql /\ file' = file /\ stmt' = stmt
        /\ sql.exists => conn' = conn
        /\ ~sql.exists => conn' = [d \in Connections |-> Detached]
    BY <1>1, <1>7, CommitEffect
  <2>2. stmt.kind = "none" /\ stmt'.kind = "none"
    BY <1>7, <2>1, StartRecords DEF Commit
  <2>3. IndexInv'
    <3>1. CASE sql.exists
      BY <1>1, <2>1, <3>1 DEF IndexInv
    <3>2. CASE ~sql.exists
      <4>1. \A d \in Connections : ~conn'[d].attached
        BY <2>1, <3>2, StartRecords
      <4> QED BY <1>1, <2>1, <4>1 DEF IndexInv
    <3> QED BY <3>1, <3>2
  <2> QED BY <2>1, <2>2, <2>3 DEF FoundInv, FilterFinds, FoundChanges
<1>8. ASSUME (\E c \in Connections : Begin(c)) \/ UNCHANGED vars
      PROVE  Goal
  <2>1. /\ sql' = sql /\ saved' = saved /\ file' = file /\ conn' = conn /\ stmt' = stmt
        /\ stmt.kind # "none" => txn' = txn
    BY <1>8, StartRecords DEF Begin, vars
  <2>2. IndexInv'
    BY <1>1, <2>1 DEF IndexInv
  <2>3. FoundInv'
    BY <1>1, <2>1 DEF FoundInv
  <2> QED BY <2>1, <2>2, <2>3 DEF FilterFinds, FoundChanges
<1> HIDE DEF Goal
<1>9. Goal
  BY <1>2, <1>3, <1>4, <1>5, <1>6, <1>7, <1>8 DEF Next, StatementStep
<1> QED BY <1>0, <1>9 DEF Goal, HasFileInv, TurnsInv

\* Connections that take turns start with an empty index.
LEMMA TurnsInit == Init => HasFileInv /\ TurnsInv
<1> SUFFICES ASSUME Init PROVE HasFileInv /\ TurnsInv
  OBVIOUS
<1>1. Shape
  BY ShapeInit
<1>2. sql.rows = NoRows /\ sql.exists = FALSE
  BY DEF Init, NoTable
<1>3. \A c \in Connections : ~conn[c].attached
  BY StartRecords DEF Init
<1>4. NoRows = RowsOf(DOMAIN NoRows) /\ DOMAIN NoRows \subseteq Keys
  BY DEF NoRows, RowsOf
<1>5. IndexInv
  BY <1>2, <1>3, <1>4 DEF IndexInv
<1>6. FoundInv
  BY StartRecords DEF Init, FoundInv
<1>7. StatementInv /\ TableHasFile /\ TypesAgree
  BY <1>2, <1>3, StartRecords DEF Init, StatementInv, TableHasFile, TypesAgree
<1> QED BY <1>1, <1>5, <1>6, <1>7 DEF HasFileInv, TurnsInv

\* The tree file and the tree of the connection that has it open index exactly the
\* rows of the table, each once, however connections take turns to insert, delete,
\* update, rebuild, drop and create.
THEOREM TurnsIndexMatchesRows ==
    ASSUME Plain PROVE TurnsSpec => []IndexMatchesRows
<1>1. HasFileInv /\ TurnsInv /\ [Next /\ Agreeable /\ OneAtATime]_vars => HasFileInv' /\ TurnsInv'
  BY TurnsStep
<1>2. TurnsInv => IndexMatchesRows
  <2> SUFFICES ASSUME TurnsInv, sql.exists
               PROVE  /\ file.keys = IndexOf(sql.rows, Keys)
                      /\ \A c \in Connections : conn[c].attached => conn[c].keys = file.keys
    BY DEF IndexMatchesRows
  <2> DEFINE D == DOMAIN sql.rows
  <2>1. /\ sql.rows = RowsOf(D) /\ D \in SUBSET Keys /\ file.keys = Index(D)
        /\ \A c \in Connections : conn[c].attached => conn[c].keys = Index(D)
    BY DEF TurnsInv, IndexInv
  <2>2. D \cap Keys = D
    BY <2>1
  <2> HIDE DEF D
  <2>3. IndexOf(RowsOf(D), Keys) = Index(D \cap Keys)
    BY <2>1, IndexOfRows
  <2> QED BY <2>1, <2>2, <2>3
<1> QED BY <1>1, <1>2, TurnsInit, PTL DEF TurnsSpec

\* A search of the table finds the row with the key if there is one, and no other.
THEOREM TurnsFilterFindsRows ==
    ASSUME Plain PROVE TurnsSpec => FilterFindsRows
<1>1. HasFileInv /\ TurnsInv /\ [Next /\ Agreeable /\ OneAtATime]_vars
         => HasFileInv' /\ TurnsInv' /\ FilterFinds
  BY TurnsStep
<1> QED BY <1>1, TurnsInit, PTL DEF TurnsSpec, FilterFindsRows, FilterFinds

\* A row that was found is deleted, or gets its new key unless another row has it.
THEOREM TurnsFoundRowsChange ==
    ASSUME Plain PROVE TurnsSpec => FoundRowsChange
<1>1. HasFileInv /\ TurnsInv /\ [Next /\ Agreeable /\ OneAtATime]_vars
         => HasFileInv' /\ TurnsInv' /\ FoundChanges
  BY TurnsStep
<1> QED BY <1>1, TurnsInit, PTL DEF TurnsSpec, FoundRowsChange, FoundChanges

-------------------------------------------------------------------------------
(* Connections that append by turns, with rollbacks and crashes. *)

Covers(keys, rows) == \A x \in DOMAIN rows : createTreeKey(x, rows[x]) \in DOMAIN keys

\* The file indexes the rows of the table, and those that a rollback or a crash
\* would bring back; the tree of the connection whose turn it is is the one in the
\* file.
AppendingInv ==
    /\ Shape
    /\ sql.exists => file.exists /\ Covers(file.keys, sql.rows)
    /\ saved.exists => file.exists /\ Covers(file.keys, saved.rows)
    /\ \A c \in Connections : conn[c].attached =>
          file.exists /\ conn[c].linked /\ conn[c].keys = file.keys
    /\ \A c, d \in Connections : conn[c].attached /\ conn[d].attached => c = d

\* A bag with one key more.
LEMMA PlusKeys ==
    ASSUME NEW b, NEW e
    PROVE  DOMAIN Plus(b, e) = DOMAIN b \cup {e}
<1>1. DOMAIN SetToBag({e}) = {e}
  BY DEF SetToBag
<1> QED BY <1>1 DEF Plus, (+)

\* The key of a row that is added makes the index cover it.
LEMMA CoversNext ==
    ASSUME NEW keys, NEW rows, Covers(keys, rows), NEW x, NEW id
    PROVE  Covers(Plus(keys, createTreeKey(x, id)), WithRow(rows, x, id))
<1> DEFINE e == createTreeKey(x, id)
           r == WithRow(rows, x, id)
<1>1. DOMAIN Plus(keys, e) = DOMAIN keys \cup {e}
  BY PlusKeys
<1>2. DOMAIN r = DOMAIN rows \cup {x} /\ \A z \in DOMAIN r : r[z] = IF z = x THEN id ELSE rows[z]
  BY DEF WithRow
<1> HIDE DEF r
<1>3. \A z \in DOMAIN r : createTreeKey(z, r[z]) \in DOMAIN keys \cup {e}
  BY <1>2 DEF Covers
<1> QED BY <1>1, <1>3 DEF Covers, r

\* The connection whose turn it is changes its tree or rebuilds it.
LEMMA AppendFinish ==
    ASSUME NEW c \in Connections, Shape, file.exists, conn[c].keys = file.keys,
           NEW t, IsConn(t), t.linked, Finish(c, t)
    PROVE  /\ file'.exists /\ file'.keys = t.keys /\ conn'[c] = t
           /\ \A d \in Connections \ {c} : conn'[d].attached = conn[d].attached
<1>1. /\ conn'[c] = t
      /\ \A d \in Connections \ {c} : conn'[d].attached = conn[d].attached
      /\ rebuildIndexIfNecessary(conn[c]) =>
            file' = [exists |-> TRUE, type |-> t.bestIndex, keys |-> t.keys]
      /\ ~rebuildIndexIfNecessary(conn[c]) => Store(c, t)
  BY FinishEffect
<1>2. CASE rebuildIndexIfNecessary(conn[c])
  BY <1>1, <1>2
<1>3. CASE ~rebuildIndexIfNecessary(conn[c])
  <2>1. /\ file'.exists = file.exists
        /\ t.linked /\ file.exists /\ t.keys # conn[c].keys => file'.keys = t.keys
        /\ t.keys = conn[c].keys => file' = file
    BY <1>1, <1>3, StoreEffect
  <2> QED BY <1>1, <2>1
<1> QED BY <1>2, <1>3

\* A process dies: the rows of its transaction go, their keys stay.
LEMMA AppendDie ==
    ASSUME NEW c \in Connections, AppendingInv, Die(c)
    PROVE  AppendingInv'
<1>1. Shape
  BY DEF AppendingInv
<1>2. /\ Shape' /\ saved' = saved /\ file' = file
      /\ conn'[c] = Detached /\ \A d \in Connections \ {c} : conn'[d] = conn[d]
      /\ sql' = saved \/ sql' = sql
  BY <1>1, DieEffect
<1>3. ~conn'[c].attached
  BY <1>2, StartRecords
<1> QED BY <1>2, <1>3 DEF AppendingInv

\* BestIndex and the two forms of INSERT: the index covers the rows that there are,
\* those that were committed, and the one that is added.
LEMMA AppendIndex ==
    ASSUME NEW c \in Connections, AppendingInv,
           BestIndex(c) \/ (\E x \in Keys : InsertRow(c, x)) \/ InsertMismatch(c)
    PROVE  AppendingInv'
<1> DEFINE t == Reviewed(conn[c])
<1>1. conn[c].attached
  BY DEF BestIndex, InsertRow, InsertMismatch, Working, Hindered
<1>2. /\ Shape /\ file.exists /\ conn[c].linked /\ conn[c].keys = file.keys
      /\ \A d \in Connections \ {c} : ~conn[d].attached
      /\ sql.exists => Covers(file.keys, sql.rows)
      /\ saved.exists => Covers(file.keys, saved.rows)
  BY <1>1 DEF AppendingInv
<1>3. Shape' /\ (Terminate(c) \/ IndexStep(c))
  BY <1>1, <1>2, IndexEffect
<1>4. IndexStep(c) => saved' = saved /\ sql'.exists = sql.exists
  BY DEF IndexStep
<1>5. CASE Terminate(c)
  BY <1>5, AppendDie DEF Terminate
<1>6. SUFFICES ASSUME IndexStep(c) PROVE AppendingInv'
  BY <1>3, <1>5
<1>7. /\ IsConn(t) /\ t.keys = file.keys /\ t.linked
      /\ SqlReviewed(conn[c]).rows = sql.rows /\ IsTable(SqlReviewed(conn[c]))
  BY <1>1, <1>2, ReviewEffect
<1>8. ASSUME Finish(c, t), sql'.rows = sql.rows
      PROVE  AppendingInv'
  <2>1. /\ file'.exists /\ file'.keys = t.keys /\ conn'[c] = t
        /\ \A d \in Connections \ {c} : ~conn'[d].attached
    BY <1>2, <1>7, <1>8, AppendFinish
  <2> HIDE DEF t
  <2> QED BY <1>2, <1>3, <1>4, <1>7, <1>8, <1>6, <2>1 DEF AppendingInv
<1>9. CASE BestIndex(c)
  <2>1. Finish(c, t) /\ (sql' = sql \/ sql' = SqlReviewed(conn[c]))
    BY <1>9 DEF BestIndex
  <2> QED BY <1>7, <1>8, <2>1
<1>10. ASSUME RefuseInsert(c)
      PROVE  AppendingInv'
  <2>1. Finish(c, t) /\ (sql' = sql \/ sql' = SqlReviewed(conn[c]))
    BY <1>10 DEF RefuseInsert
  <2> QED BY <1>7, <1>8, <2>1
<1>11. ASSUME NEW x \in Keys, InsertRow(c, x)
      PROVE  AppendingInv'
  <2>1. sql.exists
    BY <1>11 DEF InsertRow, Working
  <2>2. CASE AddRow(c, x)
    <3> DEFINE id == NewRowId(sql.rows, x)
               r == WithRow(SqlReviewed(conn[c]).rows, x, id)
               k == Plus(t.keys, createTreeKey(x, id))
               u == [t EXCEPT !.keys = k, !.inserts = t.inserts + 1]
    <3>1. sql' = [SqlReviewed(conn[c]) EXCEPT !.rows = r] /\ Finish(c, u)
      BY <2>2 DEF AddRow
    <3>2. Covers(k, r)
      <4> HIDE DEF id, t
      <4> QED BY <1>2, <1>7, <2>1, CoversNext
    <3>3. DOMAIN file.keys \subseteq DOMAIN k
      <4>1. DOMAIN k = DOMAIN t.keys \cup {createTreeKey(x, id)}
        BY PlusKeys
      <4> HIDE DEF id, t, k
      <4> QED BY <1>7, <4>1
    <3> HIDE DEF r, k, t, id
    <3>4. IsConn(u) /\ u.keys = k /\ u.linked
      <4>1. IsConn(u) /\ u.keys = k /\ u.linked = t.linked
        BY <1>7 DEF IsConn
      <4> QED BY <1>7, <4>1
    <3> HIDE DEF u
    <3>5. /\ file'.exists /\ file'.keys = k /\ conn'[c] = u
          /\ \A d \in Connections \ {c} : ~conn'[d].attached
      BY <1>2, <3>1, <3>4, AppendFinish
    <3>6. sql'.rows = r
      BY <1>7, <3>1 DEF IsTable
    <3>7. saved.exists => Covers(k, saved.rows)
      BY <1>2, <3>3 DEF Covers
    <3> QED BY <1>3, <1>4, <1>6, <3>2, <3>4, <3>5, <3>6, <3>7 DEF AppendingInv
  <2> QED BY <1>10, <1>11, <1>5, <2>2 DEF InsertRow
<1> QED BY <1>9, <1>10, <1>11 DEF InsertMismatch

\* Every step of connections that append by turns keeps the rows indexed.
LEMMA AppendingStep ==
    ASSUME AppendingInv, [AppendingNext /\ OneAtATime]_vars
    PROVE  AppendingInv'
<1>0. /\ Shape
      /\ \A c, d \in Connections : conn[c].attached /\ conn[d].attached => c = d
  BY DEF AppendingInv
<1>1. ASSUME NEW c \in Connections, Create(c), OneAtATime
      PROVE  AppendingInv'
  <2>1. Shape'
    BY <1>0, <1>1, ShapeTableStep DEF TableStep
  <2>2. ~saved.exists /\ saved' = saved /\ sql'.rows = NoRows
        /\ file'.exists = TRUE /\ file'.keys = EmptyBag
    BY <1>1 DEF Create, NoTable, NoFile
  <2>3. /\ conn'[c].attached /\ conn'[c].linked /\ conn'[c].keys = EmptyBag
        /\ \A d \in Connections \ {c} : conn'[d] = conn[d]
    BY <1>0, <1>1, OpenedFile
  <2>4. \A d \in Connections \ {c} : ~conn'[d].attached
    BY <1>0, <1>1, <2>3, AloneAfter
  <2>5. Covers(EmptyBag, NoRows)
    BY DEF Covers, NoRows
  <2> QED BY <2>1, <2>2, <2>3, <2>4, <2>5 DEF AppendingInv
<1>2. ASSUME NEW c \in Connections, Connect(c), OneAtATime
      PROVE  AppendingInv'
  <2>1. Shape'
    BY <1>0, <1>2, ShapeTableStep DEF TableStep
  <2>2. saved' = saved /\ sql' = sql /\ file' = file /\ file.exists
    BY <1>2 DEF Connect
  <2>3. /\ conn'[c].attached /\ conn'[c].linked /\ conn'[c].keys = file.keys
        /\ \A d \in Connections \ {c} : conn'[d] = conn[d]
    BY <1>0, <1>2, OpenedFile
  <2>4. \A d \in Connections \ {c} : ~conn'[d].attached
    BY <1>0, <1>2, <2>3, AloneAfter
  <2> QED BY <2>1, <2>2, <2>3, <2>4 DEF AppendingInv
<1>3. ASSUME NEW c \in Connections, Disconnect(c)
      PROVE  AppendingInv'
  <2>1. Shape'
    BY <1>0, <1>3, ShapeTableStep DEF TableStep
  <2>2. saved' = saved /\ sql' = sql /\ file' = file /\ conn' = [conn EXCEPT ![c] = Detached]
    BY <1>3 DEF Disconnect
  <2>3. ~conn'[c].attached /\ \A d \in Connections \ {c} : conn'[d] = conn[d]
    BY <1>0, <2>2, StartRecords DEF Shape
  <2> QED BY <2>1, <2>2, <2>3 DEF AppendingInv
<1>4. ASSUME NEW c \in Connections,
             BestIndex(c) \/ (\E x \in Keys : InsertRow(c, x)) \/ InsertMismatch(c)
      PROVE  AppendingInv'
  BY <1>4, AppendIndex
<1>5. ASSUME NEW c \in Connections, NEW x \in Keys, Filter(c, "select", x, x)
      PROVE  AppendingInv'
  <2>1. /\ Shape' /\ sql' = sql /\ file' = file /\ saved' = saved
        /\ \A d \in Connections : /\ conn'[d].attached = conn[d].attached
                                  /\ conn'[d].linked = conn[d].linked
                                  /\ conn'[d].keys = conn[d].keys
    BY <1>0, <1>5, FilterEffect DEF SameConn
  <2> QED BY <2>1 DEF AppendingInv
<1>6. ASSUME Shape', sql' = sql, saved' = saved, file' = file, conn' = conn
      PROVE  AppendingInv'
  BY <1>6 DEF AppendingInv
<1>7. ASSUME NEW c \in Connections, NEW e, ReadRow(c, e)
      PROVE  AppendingInv'
  <2>1. Shape'
    BY <1>0, <1>7, RowEffect
  <2> QED BY <1>6, <1>7, <2>1 DEF ReadRow
<1>8. ASSUME NEW c \in Connections, EndStatement(c)
      PROVE  AppendingInv'
  BY <1>0, <1>6, <1>8, EndEffect
<1>9. ASSUME NEW c \in Connections, Commit(c)
      PROVE  AppendingInv'
  <2>1. /\ Shape' /\ sql' = sql /\ file' = file /\ saved' = sql
        /\ sql.exists => conn' = conn
        /\ ~sql.exists => conn' = [d \in Connections |-> Detached]
    BY <1>0, <1>9, CommitEffect
  <2>2. CASE sql.exists
    BY <2>1, <2>2 DEF AppendingInv
  <2>3. CASE ~sql.exists
    <3>1. \A d \in Connections : ~conn'[d].attached
      BY <1>0, <2>1, <2>3, StartRecords
    <3> QED BY <2>1, <3>1 DEF AppendingInv
  <2> QED BY <2>2, <2>3
<1>10. ASSUME NEW c \in Connections, Rollback(c)
      PROVE  AppendingInv'
  <2>1. /\ saved' = saved /\ file' = file
        /\ conn' = conn \/ conn' = [conn EXCEPT ![c] = Detached]
        /\ sql' = saved /\ stmt' = NoStmt
    BY <1>10 DEF Rollback
  <2>2. Shape'
    BY <1>0, <2>1, StartRecords DEF Shape
  <2>3. \A d \in Connections : conn'[d] = conn[d] \/ ~conn'[d].attached
    BY <1>0, <2>1, StartRecords DEF Shape
  <2> QED BY <2>1, <2>2, <2>3 DEF AppendingInv
<1>11. ASSUME NEW c \in Connections, Crash(c)
      PROVE  AppendingInv'
  BY <1>11, AppendDie DEF Crash
<1>12. ASSUME (\E c \in Connections : Begin(c)) \/ UNCHANGED vars
      PROVE  AppendingInv'
  <2>1. sql' = sql /\ saved' = saved /\ file' = file /\ conn' = conn /\ stmt' = stmt
    BY <1>12 DEF Begin, vars
  <2>2. Shape'
    BY <1>0, <2>1 DEF Shape
  <2> QED BY <1>6, <2>1, <2>2
<1> QED BY <1>1, <1>2, <1>3, <1>4, <1>5, <1>7, <1>8, <1>9, <1>10, <1>11, <1>12
       DEF AppendingNext

\* Any number of connections have the table open by turns, insert and select.  What-
\* ever is refused or rolled back, whenever a process dies (except within a rebuild)
\* and whenever SQLite is too busy to record a new type, every row of the table can be
\* found through the open tree and through the file, as long as the tree is its root
\* page; the key may be any column.  This includes a file that is opened as another
\* type than it was built as: its keys are read, the first insert ends the process,
\* and the row of that insert is undone.  The behaviours are those of AppendingSpec
\* without its bound on surplus keys.
THEOREM AppendedRowsAreIndexed ==
    Init /\ [][AppendingNext /\ OneAtATime]_vars => []RowsAreIndexed
<1>1. Init => AppendingInv
  <2> SUFFICES ASSUME Init PROVE AppendingInv
    OBVIOUS
  <2>1. Shape
    BY ShapeInit
  <2>2. ~sql.exists /\ ~saved.exists /\ \A d \in Connections : ~conn[d].attached
    BY StartRecords DEF Init
  <2> QED BY <2>1, <2>2 DEF AppendingInv
<1>2. AppendingInv /\ [AppendingNext /\ OneAtATime]_vars => AppendingInv'
  BY AppendingStep
<1>3. AppendingInv => RowsAreIndexed
  BY DEF AppendingInv, RowsAreIndexed, Covers, BagIn, BagToSet
<1> QED BY <1>1, <1>2, <1>3, PTL

-------------------------------------------------------------------------------
(* Any number of connections, whose statements may be refused, whose transactions *)
(* may be rolled back, and whose processes may die, within a rebuild as well.      *)

Types == {BPLUSTREE_NUM, BSTARTREE_NUM, BSTARPLUSTREE_NUM}

\* While nobody is in a transaction the SQL side is as committed; who has the table
\* open sees that it exists.
CommittedInv ==
    /\ txn = NoConnection => sql = saved /\ stmt.kind = "none"
    /\ \A d \in Connections : conn[d].attached => IF txn = d THEN sql.exists ELSE saved.exists

\* A table that may be seen again is recorded as the type that all tables start with
\* as long as the file is of that type.
Fresh(s) == s.exists /\ file.exists /\ file.type = BPLUSTREE_NUM => s.bestIndex = BPLUSTREE_NUM

FreshInv ==
    /\ sql.bestIndex \in Types /\ saved.bestIndex \in Types
    /\ stmt.before.bestIndex \in Types /\ file.type \in Types
    /\ Fresh(sql) /\ Fresh(saved) /\ Fresh(stmt.before)

PagesInv == Shape /\ StatementInv /\ CommittedInv /\ FreshInv /\ PagesFit

\* A tree is never rebuilt as the type that all tables start with.
LEMMA ChosenType ==
    ASSUME NEW t
    PROVE  ChosenIndex(t) \in Types /\ ChosenIndex(t) # BPLUSTREE_NUM
BY DEF ChosenIndex, Types, BPLUSTREE_NUM, BSTARTREE_NUM, BSTARPLUSTREE_NUM

\* Who opens a file as another type works with pages of the file's size, or its
\* stream fails.
LEMMA OpenedPages ==
    ASSUME NEW type \in Types, NEW built \in Types,
           built = BPLUSTREE_NUM => type = BPLUSTREE_NUM, ReadsRootPage(type, built)
    PROVE  PageKeys(type) = PageKeys(built)
BY PageSizes DEF ReadsRootPage, Types

\* The records that tables and statements start from.
LEMMA StartTypes ==
    /\ NoTable.bestIndex \in Types /\ NoFile.type \in Types /\ NoStmt.before = NoTable
    /\ BPLUSTREE_NUM \in Types
BY DEF NoTable, NoFile, NoStmt, Types

\* Create, Connect, Disconnect and Destroy.
LEMMA PagesTable ==
    ASSUME PagesInv, NEW c \in Connections, TableStep(c)
    PROVE  PagesInv'
<1>0. Shape /\ StatementInv /\ CommittedInv /\ FreshInv /\ PagesFit /\ c # NoConnection
  BY VirtualTableAssumption DEF PagesInv
<1>1. Shape'
  BY <1>0, ShapeTableStep
<1>2. CASE Create(c)
  <2>1. /\ stmt.kind = "none" /\ stmt' = stmt /\ stmt = NoStmt /\ saved' = saved /\ ~saved.exists
        /\ txn \in {NoConnection, c} /\ txn' = c
    BY <1>2, StartRecords DEF Create, Idle
  <2>2. /\ sql'.exists = TRUE /\ sql'.bestIndex = BPLUSTREE_NUM
        /\ file'.exists = TRUE /\ file'.type = BPLUSTREE_NUM
    BY <1>2 DEF Create, NoTable, NoFile
  <2>3. /\ conn'[c].bestIndex = BPLUSTREE_NUM
        /\ \A d \in Connections \ {c} : conn'[d] = conn[d]
    BY <1>0, <1>2, OpenedFile
  <2>4. \A d \in Connections \ {c} : ~conn'[d].attached
    BY <1>0, <2>1, <2>3, VirtualTableAssumption DEF CommittedInv
  <2>5. StatementInv' /\ CommittedInv'
    BY <1>0, <2>1, <2>2, <2>4 DEF StatementInv, CommittedInv
  <2>6. Fresh(stmt.before)'
    BY <2>1, StartTypes, StartRecords DEF Fresh
  <2>7. FreshInv'
    BY <1>0, <2>1, <2>2, <2>6, StartTypes DEF FreshInv, Fresh
  <2>8. PagesFit'
    BY <2>2, <2>3, <2>4 DEF PagesFit
  <2> QED BY <1>1, <2>5, <2>7, <2>8 DEF PagesInv
<1>3. CASE Connect(c)
  <2>1. /\ stmt.kind = "none" /\ stmt' = stmt /\ saved' = saved /\ sql' = sql /\ file' = file
        /\ txn \in {NoConnection, c} /\ txn' = txn /\ sql.exists /\ file.exists
    BY <1>3, StartRecords DEF Connect, Idle
  <2>2. /\ conn'[c].isOpened = ReadsRootPage(sql.bestIndex, file.type)
        /\ conn'[c].bestIndex = sql.bestIndex
        /\ \A d \in Connections \ {c} : conn'[d] = conn[d]
    BY <1>0, <1>3, OpenedFile
  <2>3. StatementInv' /\ CommittedInv'
    BY <1>0, <2>1, <2>2 DEF StatementInv, CommittedInv
  <2>4. FreshInv'
    BY <1>0, <2>1 DEF FreshInv, Fresh
  <2>5. conn'[c].isOpened => PageKeys(conn'[c].bestIndex) = PageKeys(file.type)
    BY <1>0, <2>1, <2>2, OpenedPages DEF FreshInv, Fresh
  <2>6. PagesFit'
    BY <1>0, <2>1, <2>2, <2>5 DEF PagesFit
  <2> QED BY <1>1, <2>3, <2>4, <2>6 DEF PagesInv
<1>4. CASE Disconnect(c)
  <2>1. /\ stmt' = stmt /\ saved' = saved /\ sql' = sql /\ file' = file /\ txn' = txn /\ txn # c
        /\ conn' = [conn EXCEPT ![c] = Detached]
    BY <1>4 DEF Disconnect
  <2>2. \A d \in Connections : conn'[d] = conn[d] \/ (d = c /\ ~conn'[d].attached)
    BY <1>0, <2>1, StartRecords DEF Shape
  <2>3. StatementInv' /\ CommittedInv'
    BY <1>0, <2>1, <2>2 DEF StatementInv, CommittedInv
  <2>4. FreshInv'
    BY <1>0, <2>1 DEF FreshInv, Fresh
  <2>5. PagesFit'
    BY <1>0, <2>1, <2>2 DEF PagesFit
  <2> QED BY <1>1, <2>3, <2>4, <2>5 DEF PagesInv
<1>5. CASE Destroy(c)
  <2>1. /\ stmt.kind = "none" /\ stmt' = stmt /\ saved' = saved /\ sql' = NoTable /\ file' = NoFile
        /\ txn \in {NoConnection, c} /\ txn' = c
        /\ conn' = [d \in Connections |->
                       IF d = c THEN Detached ELSE [conn[d] EXCEPT !.linked = FALSE]]
    BY <1>5, StartRecords DEF Destroy, Idle
  <2>2. ~conn'[c].attached
    BY <2>1, StartRecords
  <2>3. \A d \in Connections \ {c} : ~conn'[d].linked /\ conn'[d].attached = conn[d].attached
    BY <1>0, <2>1, UnlinkedConn DEF Shape
  <2>4. StatementInv' /\ CommittedInv'
    BY <1>0, <2>1, <2>2, <2>3, VirtualTableAssumption DEF StatementInv, CommittedInv
  <2>5. FreshInv'
    BY <1>0, <2>1, StartTypes, StartRecords DEF FreshInv, Fresh
  <2>6. PagesFit'
    BY <2>2, <2>3 DEF PagesFit
  <2> QED BY <1>1, <2>4, <2>5, <2>6 DEF PagesInv
<1> QED BY <1>2, <1>3, <1>4, <1>5 DEF TableStep

\* A process dies.
LEMMA PagesDie ==
    ASSUME PagesInv, NEW c \in Connections, Die(c)
    PROVE  PagesInv'
<1>0. Shape /\ StatementInv /\ CommittedInv /\ FreshInv /\ PagesFit /\ c # NoConnection
  BY VirtualTableAssumption DEF PagesInv
<1>1. /\ Shape' /\ saved' = saved /\ file' = file
      /\ conn'[c] = Detached /\ \A d \in Connections \ {c} : conn'[d] = conn[d]
      /\ txn = c => sql' = saved /\ txn' = NoConnection /\ stmt' = NoStmt
      /\ txn # c => sql' = sql /\ txn' = txn /\ stmt' = stmt
  BY <1>0, DieEffect
<1>2. StatementInv' /\ CommittedInv'
  BY <1>0, <1>1, StartRecords, VirtualTableAssumption DEF StatementInv, CommittedInv
<1>3. FreshInv'
  BY <1>0, <1>1, StartRecords, StartTypes DEF FreshInv, Fresh
<1>4. PagesFit'
  BY <1>0, <1>1, StartRecords DEF PagesFit
<1> QED BY <1>1, <1>2, <1>3, <1>4 DEF PagesInv

\* A process dies in rebuildIndex().
LEMMA PagesCrashRebuilding ==
    ASSUME PagesInv, NEW c \in Connections, CrashRebuilding(c)
    PROVE  PagesInv'
<1>0. Shape /\ StatementInv /\ CommittedInv /\ FreshInv /\ c # NoConnection
  BY VirtualTableAssumption DEF PagesInv
<1>1. /\ saved' = saved /\ stmt' = stmt
      /\ conn' = [d \in Connections |->
                     IF d = c THEN Detached ELSE [conn[d] EXCEPT !.linked = FALSE]]
      /\ txn = c => sql' = saved /\ txn' = NoConnection
      /\ txn # c => sql' = sql /\ txn' = txn
  BY DEF CrashRebuilding
<1>2. txn = c => stmt.kind = "none"
  BY StartRecords DEF CrashRebuilding, Working, Hindered, Idle
<1>3. \/ file' = NoFile
      \/ \E b : file' = [exists |-> TRUE, type |-> ChosenIndex(conn[c]), keys |-> b]
  BY DEF CrashRebuilding
<1>4. IsFile(file') /\ file'.type \in Types /\ (file'.exists => file'.type # BPLUSTREE_NUM)
  <2>1. CASE file' = NoFile
    BY <2>1, StartRecords, StartTypes
  <2>2. ASSUME NEW b, file' = [exists |-> TRUE, type |-> ChosenIndex(conn[c]), keys |-> b]
        PROVE  IsFile(file') /\ file'.type \in Types /\ file'.type # BPLUSTREE_NUM
    <3>1. ChosenIndex(conn[c]) \in Types /\ ChosenIndex(conn[c]) # BPLUSTREE_NUM
      BY ChosenType
    <3> HIDE DEF ChosenIndex
    <3> QED BY <2>2, <3>1 DEF IsFile
  <2> QED BY <1>3, <2>1, <2>2
<1>5. /\ ~conn'[c].attached
      /\ \A d \in Connections \ {c} : IsConn(conn'[d]) /\ ~conn'[d].linked
                                      /\ conn'[d].attached = conn[d].attached
  BY <1>0, <1>1, UnlinkedConn, StartRecords DEF Shape
<1>6. Shape'
  BY <1>0, <1>1, <1>4, <1>5, StartRecords DEF Shape
<1>7. StatementInv' /\ CommittedInv'
  BY <1>0, <1>1, <1>2, <1>5 DEF StatementInv, CommittedInv
<1>8. FreshInv'
  BY <1>0, <1>1, <1>4 DEF FreshInv, Fresh
<1>9. PagesFit'
  BY <1>5 DEF PagesFit
<1> QED BY <1>6, <1>7, <1>8, <1>9 DEF PagesInv

\* BestIndex and the two forms of INSERT.
LEMMA PagesIndex ==
    ASSUME PagesInv, NEW c \in Connections,
           BestIndex(c) \/ (\E x \in Keys : InsertRow(c, x)) \/ InsertMismatch(c)
    PROVE  PagesInv'
<1>0. Shape /\ StatementInv /\ CommittedInv /\ FreshInv /\ PagesFit /\ c # NoConnection
  BY VirtualTableAssumption DEF PagesInv
<1>1. Shape' /\ ((Working(c) /\ Terminate(c)) \/ IndexStep(c))
  BY <1>0, IndexEffect
<1>2. CASE Terminate(c)
  BY <1>2, PagesDie DEF Terminate
<1>3. CASE IndexStep(c)
  <2> DEFINE rebuild == rebuildIndexIfNecessary(conn[c])
             chosen == ChosenIndex(conn[c])
             t == Reviewed(conn[c])
  <2>1. /\ stmt' = stmt /\ saved' = saved /\ sql'.exists = sql.exists
        /\ conn[c].attached /\ SameConn(conn'[c], t)
        /\ \/ Working(c) /\ txn' = c
           \/ Hindered(c) /\ txn' = txn /\ sql' = sql
        /\ ~rebuild => /\ file'.exists = file.exists /\ file'.type = file.type
                       /\ sql'.bestIndex = sql.bestIndex
                       /\ \A d \in Connections : SameConn(conn'[d], conn[d])
        /\ rebuild => /\ file'.exists = TRUE /\ file'.type = chosen
                      /\ sql'.bestIndex \in {sql.bestIndex, chosen}
                      /\ \A d \in Connections \ {c} : /\ conn'[d].attached = conn[d].attached
                                                      /\ conn'[d].linked = FALSE
    <3> HIDE DEF rebuildIndexIfNecessary, ChosenIndex
    <3> QED BY <1>3 DEF IndexStep
  <2>2. /\ chosen \in Types /\ chosen # BPLUSTREE_NUM
        /\ t.attached = conn[c].attached /\ (rebuild => t.bestIndex = chosen)
    BY <1>0, ReviewEffect, ChosenType
  <2>3. \/ txn \in {NoConnection, c} /\ stmt.kind = "none" /\ txn' = c /\ sql.exists
        \/ txn # c /\ txn' = txn /\ sql' = sql /\ txn # NoConnection
    BY <2>1, StartRecords DEF Working, Idle, Hindered
  <2> HIDE DEF rebuild, chosen, t
  <2>4. \A d \in Connections : conn'[d].attached = conn[d].attached
    BY <2>1, <2>2 DEF SameConn
  <2>5. StatementInv' /\ CommittedInv'
    BY <1>0, <2>1, <2>3, <2>4, VirtualTableAssumption DEF StatementInv, CommittedInv
  <2>6. FreshInv'
    BY <1>0, <2>1, <2>2 DEF FreshInv, Fresh
  <2>7. PagesFit'
    BY <1>0, <2>1, <2>2 DEF PagesFit, SameConn
  <2> QED BY <1>1, <2>5, <2>6, <2>7 DEF PagesInv
<1> QED BY <1>1, <1>2, <1>3

\* A statement on one of the rows it has found.
LEMMA PagesRow ==
    ASSUME PagesInv, NEW c \in Connections, RowStep(c)
    PROVE  PagesInv'
<1>0. Shape /\ StatementInv /\ CommittedInv /\ FreshInv /\ PagesFit /\ c # NoConnection
  BY VirtualTableAssumption DEF PagesInv
<1>1. PICK e \in BagToSet(stmt.found) : ReadRow(c, e) \/ DeleteRow(c, e) \/ UpdateRow(c, e)
  BY DEF RowStep
<1>2. /\ Shape' /\ stmt.kind # "none" /\ txn = c /\ saved' = saved
      /\ \/ Terminate(c)
         \/ /\ txn' = txn
            /\ \A d \in Connections : SameConn(conn'[d], conn[d])
            /\ file'.exists = file.exists /\ file'.type = file.type
            /\ \/ FailStatement
               \/ /\ sql'.exists = sql.exists /\ sql'.bestIndex = sql.bestIndex
                  /\ stmt'.kind = stmt.kind /\ stmt'.before = stmt.before
  BY <1>0, <1>1, RowEffect
<1>3. CASE Terminate(c)
  BY <1>3, PagesDie DEF Terminate
<1>4. CASE ~Terminate(c)
  <2>1. FailStatement => sql' = stmt.before /\ stmt' = NoStmt
    BY DEF FailStatement
  <2>2. sql.exists /\ stmt.before.exists
    BY <1>0, <1>2 DEF StatementInv
  <2>3. StatementInv' /\ CommittedInv'
    BY <1>0, <1>2, <1>4, <2>1, <2>2, StartRecords DEF StatementInv, CommittedInv, SameConn
  <2>4. FreshInv'
    BY <1>0, <1>2, <1>4, <2>1, StartRecords, StartTypes DEF FreshInv, Fresh
  <2>5. PagesFit'
    BY <1>0, <1>2, <1>4 DEF PagesFit, SameConn
  <2> QED BY <1>2, <2>3, <2>4, <2>5 DEF PagesInv
<1> QED BY <1>3, <1>4

\* The other steps of statements and transactions.
LEMMA PagesOther ==
    ASSUME PagesInv, NEW c \in Connections,
           \/ (\E kind, x, y : Filter(c, kind, x, y)) \/ EndStatement(c)
           \/ Begin(c) \/ Commit(c) \/ Rollback(c)
    PROVE  PagesInv'
<1>0. Shape /\ StatementInv /\ CommittedInv /\ FreshInv /\ PagesFit /\ c # NoConnection
  BY VirtualTableAssumption DEF PagesInv
<1>1. ASSUME NEW kind, NEW x, NEW y, Filter(c, kind, x, y)
      PROVE  PagesInv'
  <2>1. /\ Shape' /\ sql' = sql /\ file' = file /\ saved' = saved
        /\ stmt'.before = sql /\ conn[c].attached /\ sql.exists
        /\ txn \in {NoConnection, c} /\ txn' = c
        /\ \A d \in Connections : SameConn(conn'[d], conn[d])
    BY <1>0, <1>1, FilterEffect
  <2>2. StatementInv' /\ CommittedInv'
    BY <1>0, <2>1, VirtualTableAssumption DEF StatementInv, CommittedInv, SameConn
  <2>3. FreshInv'
    BY <1>0, <2>1 DEF FreshInv, Fresh
  <2>4. PagesFit'
    BY <1>0, <2>1 DEF PagesFit, SameConn
  <2> QED BY <2>1, <2>2, <2>3, <2>4 DEF PagesInv
<1>2. CASE EndStatement(c)
  <2>1. /\ Shape' /\ sql' = sql /\ file' = file /\ conn' = conn /\ saved' = saved
        /\ stmt' = NoStmt /\ txn = c /\ txn' = txn
    BY <1>0, <1>2, EndEffect DEF EndStatement
  <2>2. StatementInv' /\ CommittedInv'
    BY <1>0, <2>1, StartRecords DEF StatementInv, CommittedInv
  <2>3. FreshInv'
    BY <1>0, <2>1, StartTypes, StartRecords DEF FreshInv, Fresh
  <2>4. PagesFit'
    BY <1>0, <2>1 DEF PagesFit
  <2> QED BY <2>1, <2>2, <2>3, <2>4 DEF PagesInv
<1>3. CASE Commit(c)
  <2>1. /\ Shape' /\ sql' = sql /\ file' = file /\ stmt' = stmt /\ saved' = sql
        /\ sql.exists => conn' = conn
        /\ ~sql.exists => conn' = [d \in Connections |-> Detached]
    BY <1>0, <1>3, CommitEffect
  <2>2. stmt.kind = "none" /\ txn' = NoConnection
    BY <1>3, StartRecords DEF Commit
  <2>3. \A d \in Connections : conn'[d].attached => sql.exists /\ conn'[d] = conn[d]
    BY <2>1, StartRecords
  <2>4. StatementInv' /\ CommittedInv'
    BY <2>1, <2>2, <2>3 DEF StatementInv, CommittedInv
  <2>5. FreshInv'
    BY <1>0, <2>1 DEF FreshInv, Fresh
  <2>6. PagesFit'
    BY <1>0, <2>1, <2>3 DEF PagesFit
  <2> QED BY <2>1, <2>4, <2>5, <2>6 DEF PagesInv
<1>4. CASE Rollback(c)
  <2>1. /\ txn = c /\ txn' = NoConnection /\ sql' = saved /\ saved' = saved /\ file' = file
        /\ stmt' = NoStmt
        /\ conn' = IF sql.exists = saved.exists THEN conn ELSE [conn EXCEPT ![c] = Detached]
    BY <1>4 DEF Rollback
  <2>2. \A d \in Connections :
           /\ conn'[d] = conn[d] \/ conn'[d] = Detached
           /\ d = c /\ conn'[d] = conn[d] /\ conn[d].attached => saved.exists
    BY <1>0, <2>1, StartRecords DEF Shape, CommittedInv
  <2>3. Shape'
    BY <1>0, <2>1, StartRecords DEF Shape
  <2>4. StatementInv' /\ CommittedInv'
    BY <1>0, <2>1, <2>2, StartRecords, VirtualTableAssumption DEF StatementInv, CommittedInv
  <2>5. FreshInv'
    BY <1>0, <2>1, StartTypes, StartRecords DEF FreshInv, Fresh
  <2>6. PagesFit'
    BY <1>0, <2>1, <2>2, StartRecords DEF PagesFit
  <2> QED BY <2>3, <2>4, <2>5, <2>6 DEF PagesInv
<1>5. CASE Begin(c)
  <2>1. /\ sql' = sql /\ saved' = saved /\ file' = file /\ conn' = conn /\ stmt' = stmt
        /\ txn = NoConnection /\ txn' = c /\ stmt.kind = "none"
    BY <1>5, StartRecords DEF Begin
  <2>2. Shape'
    BY <1>0, <2>1 DEF Shape
  <2>3. StatementInv' /\ CommittedInv'
    BY <1>0, <2>1 DEF StatementInv, CommittedInv
  <2>4. FreshInv'
    BY <1>0, <2>1 DEF FreshInv, Fresh
  <2>5. PagesFit'
    BY <1>0, <2>1 DEF PagesFit
  <2> QED BY <2>2, <2>3, <2>4, <2>5 DEF PagesInv
<1> QED BY <1>1, <1>2, <1>3, <1>4, <1>5

\* No page of another size than the file's is ever written into it by a connection
\* that has the table's file open: for any number of connections, whatever inserts
\* are refused, transactions rolled back and busy databases ignored after a
\* rebuildIndex(), and wherever processes die, a rebuild included.
THEOREM PagesAlwaysFit == UnreliableSpec => []PagesFit
<1>1. Init => PagesInv
  <2> SUFFICES ASSUME Init PROVE PagesInv
    OBVIOUS
  <2>1. Shape
    BY ShapeInit
  <2>2. \A c \in Connections : ~conn[c].attached
    BY StartRecords DEF Init
  <2>3. sql = NoTable /\ saved = NoTable /\ file = NoFile /\ stmt = NoStmt
    BY DEF Init
  <2>4. StatementInv /\ CommittedInv
    BY <2>2, <2>3, StartRecords DEF StatementInv, CommittedInv
  <2>5. FreshInv
    BY <2>3, StartRecords, StartTypes DEF FreshInv, Fresh
  <2>6. PagesFit
    BY <2>2 DEF PagesFit
  <2> QED BY <2>1, <2>4, <2>5, <2>6 DEF PagesInv
<1>2. PagesInv /\ [UnreliableNext]_vars => PagesInv'
  <2> SUFFICES ASSUME PagesInv, [UnreliableNext]_vars PROVE PagesInv'
    OBVIOUS
  <2>1. CASE UNCHANGED vars
    <3>1. sql' = sql /\ saved' = saved /\ file' = file /\ conn' = conn /\ txn' = txn /\ stmt' = stmt
      BY <2>1 DEF vars
    <3> QED BY <3>1 DEF PagesInv, Shape, StatementInv, CommittedInv, FreshInv, Fresh, PagesFit
  <2>2. ASSUME NEW c \in Connections, TableStep(c) PROVE PagesInv'
    BY <2>2, PagesTable
  <2>3. ASSUME NEW c \in Connections, StatementStep(c) PROVE PagesInv'
    BY <2>3, PagesIndex, PagesRow, PagesOther DEF StatementStep
  <2>4. ASSUME NEW c \in Connections, Rollback(c) PROVE PagesInv'
    BY <2>4, PagesOther
  <2>5. ASSUME NEW c \in Connections, CrashStep(c) PROVE PagesInv'
    BY <2>5, PagesDie, PagesCrashRebuilding DEF CrashStep, Crash
  <2> QED BY <2>1, <2>2, <2>3, <2>4, <2>5 DEF UnreliableNext, Next
<1>3. PagesInv => PagesFit
  BY DEF PagesInv
<1> QED BY <1>1, <1>2, <1>3, PTL DEF UnreliableSpec
===============================================================================
