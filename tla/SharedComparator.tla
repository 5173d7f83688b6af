--------------------------- MODULE SharedComparator ---------------------------
(***************************************************************************)
(* The comparator of the extension's trees.  The tables of a process share *)
(* one ByteComparator, which compares the first firstPartBytes bytes of    *)
(* two tree keys: every operation on a table sets firstPartBytes to the    *)
(* size of the table's primary key, except rebuildIndex(), which fills the *)
(* new tree with whatever size the last operation has left.                *)
(*                                                                         *)
(* A tree is the sequence of its keys in key order, and a search scans it. *)
(* That is so within a page, and over several pages as long as no router   *)
(* misleads the search, as removals from a B+- or B*+-tree may make them,  *)
(* whatever the comparator does (module BPlusTree).                        *)
(*                                                                         *)
(* A key is the bytes of a primary key; the row id behind them is never    *)
(* reached by a comparison of two different primary keys.  When a table is *)
(* rebuilt is left open (module VirtualTable).                             *)
(***************************************************************************)
EXTENDS Integers, SequencesExt

CONSTANTS Tables,         \* the virtual tables that one process has open
          KeySize,        \* the bytes of each table's primary key
          Bytes,          \* the values of a byte
          PageCapacity    \* how many keys fit into the root page of a B*-tree

ASSUME ComparatorAssumption ==
    /\ KeySize \in [Tables -> Nat \ {0}]
    /\ Bytes \subseteq Nat
    /\ PageCapacity \in Nat

VARIABLES tree,             \* per table: the keys in its tree
          bestIndex,        \* per table: the type of its tree
          firstPartBytes    \* byteComparator.firstPartBytes

vars == <<tree, bestIndex, firstPartBytes>>

KeysOf(t) == [1..KeySize[t] -> Bytes]

-------------------------------------------------------------------------------
compare(lhv, rhv, n) ==
    \E i \in 1..Len(lhv) : /\ i <= n /\ lhv[i] < rhv[i]
                           /\ \A j \in 1..i - 1 : lhv[j] = rhv[j]

isEqual(lhv, rhv, n) == \A i \in 1..Len(lhv) : i <= n => lhv[i] = rhv[i]

\* Where the scan of insertNonFull() from the right puts x.
PlaceFor(s, x, n) ==
    1 + Len(s) - Cardinality({j \in 1..Len(s) : \A i \in j..Len(s) : compare(x, s[i], n)})

Inserted(s, x, n) == InsertAt(s, PlaceFor(s, x, n), x)

\* Where the scan of search() and remove() from the left stops.
FirstNotLess(s, x, n) ==
    1 + Cardinality({j \in 1..Len(s) : \A i \in 1..j : compare(s[i], x, n)})

\* Whether search() finds x, in a page or over pages whose routers are right.
Finds(s, x, n) ==
    LET i == FirstNotLess(s, x, n) IN i <= Len(s) /\ isEqual(x, s[i], n)

-------------------------------------------------------------------------------
Init ==
    /\ tree = [t \in Tables |-> <<>>]
    /\ bestIndex = [t \in Tables |-> "B_PLUS_TREE"]
    /\ firstPartBytes = 0

\* Fault: the size of the last table used stays.
UseWithoutSize(t) == UNCHANGED firstPartBytes

Use(t) == firstPartBytes' = KeySize[t]

\* The SQL side refuses a key that is there.
Insert(t, x) ==
    /\ ~Contains(tree[t], x)
    /\ Use(t)
    /\ tree' = [tree EXCEPT ![t] = Inserted(@, x, firstPartBytes')]
    /\ UNCHANGED bestIndex

Filter(t) == Use(t) /\ UNCHANGED <<tree, bestIndex>>

Delete(t, x) ==
    /\ Use(t)
    /\ Finds(tree[t], x, firstPartBytes')
    /\ tree' = [tree EXCEPT ![t] = RemoveAt(@, FirstNotLess(@, x, firstPartBytes'))]
    /\ UNCHANGED bestIndex

\* The orders in which searchAll() may return all the keys of table t's tree: a
\* B*-tree with more than one page gives a key of the root before the keys of
\* the child left of it.
AllKeys(t) ==
    LET s == tree[t]
    IN  IF bestIndex[t] # "B_STAR_TREE" \/ Len(s) <= PageCapacity THEN {s}
        ELSE {<<s[r]>> \o RemoveAt(s, r) : r \in 2..Len(s) - 1}

\* The new tree, the keys inserted one after the other.
Rebuilt(all, n) ==
    LET insert[i \in 0..Len(all)] ==
            IF i = 0 THEN <<>> ELSE Inserted(insert[i - 1], all[i], n)
    IN  insert[Len(all)]

\* rebuildIndex(): searchAllByteComparator has a size of its own, which is set,
\* and takes any two keys for equal; byteComparator's size is not set.
rebuildIndex(t, type) ==
    /\ bestIndex[t] # type
    /\ \E all \in AllKeys(t) :
          tree' = [tree EXCEPT ![t] = Rebuilt(all, firstPartBytes)]
    /\ bestIndex' = [bestIndex EXCEPT ![t] = type]
    /\ UNCHANGED firstPartBytes

Next ==
    \E t \in Tables :
        \/ \E x \in KeysOf(t) : Insert(t, x) \/ Delete(t, x)
        \/ Filter(t)
        \/ \E type \in {"B_STAR_TREE", "B_STAR_PLUS_TREE"} : rebuildIndex(t, type)

Spec == Init /\ [][Next]_vars

-------------------------------------------------------------------------------
\* Whatever tables were used and rebuilt in between, an operation on a table
\* finds every key in its tree, and no key that is not there.
StoredKeysAreFound ==
    \A t \in Tables : \A x \in KeysOf(t) :
        Finds(tree[t], x, KeySize[t]) <=> Contains(tree[t], x)
===============================================================================
