-------------------------- MODULE MCSharedComparator --------------------------
(* SharedComparator for TLC: a table with wide keys and one with narrow keys. *)
EXTENDS SharedComparator

CONSTANTS wide, narrow

KeySizes == [t \in Tables |-> IF t = wide THEN 2 ELSE 1]
===============================================================================
