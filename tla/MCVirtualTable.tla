---------------------------- MODULE MCVirtualTable ----------------------------
(* VirtualTable for TLC. *)
EXTENDS VirtualTable

\* Clients whose rebuilt trees are recorded.  No insert that rebuilds the tree is
\* refused, for a key of another type or one that a row has, and undone;
Unrefused ==
    \A c \in Connections :
        (rebuildIndexIfNecessary(conn[c])
            /\ (InsertMismatch(c) \/ \E x \in DOMAIN sql.rows : InsertRow(c, x)))
                => sql' = SqlReviewed(conn[c])

\* and no statement that rebuilds it is prepared while another connection is in a
\* transaction.
Unhindered == \A c \in Connections : ~(Hindered(c) /\ BestIndex(c))

Agreeable == Unrefused /\ Unhindered

UnrefusedSpec == Init /\ [][Next /\ Unrefused]_vars

AgreeableSpec == Init /\ [][Next /\ Agreeable]_vars

\* Only one connection has the table open at a time.
OneAtATime == Cardinality({c \in Connections : conn'[c].attached}) <= 1

TurnsSpec == Init /\ [][Next /\ Agreeable /\ OneAtATime]_vars

\* Clients that only insert and select, and whose transactions may be rolled back;
\* their processes may die, though not while the tree is rebuilt.
AppendingNext ==
    \E c \in Connections :
        \/ Create(c) \/ Connect(c) \/ Disconnect(c)
        \/ BestIndex(c)
        \/ \E x \in Keys : InsertRow(c, x) \/ Filter(c, "select", x, x)
        \/ InsertMismatch(c)
        \/ \E e \in BagToSet(stmt.found) : ReadRow(c, e)
        \/ EndStatement(c)
        \/ Begin(c) \/ Commit(c) \/ Rollback(c) \/ Crash(c)

\* Bound on the keys of the tree: two more than the table can have rows.
FewSurplusKeys == BagCardinality(file'.keys) <= Cardinality(Keys) + 2

AppendingSpec == Init /\ [][AppendingNext /\ OneAtATime /\ FewSurplusKeys]_vars
===============================================================================
