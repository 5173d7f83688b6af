-------------------------------- MODULE KeyBag --------------------------------
(***************************************************************************)
(* What every tree promises to its caller: it is a bag of keys.  A call    *)
(* begins, takes effect once (removeAll(): once per removed occurrence)    *)
(* and returns; the answer of the last call stays visible until the next.  *)
(* Boolean answers are 0 and 1; search() answers 1 when it returns a key.  *)
(***************************************************************************)
EXTENDS Naturals

CONSTANTS Keys, NoKey

VARIABLES bag,     \* how often each key is stored
          op,      \* the call in progress, "none" between calls
          k,       \* its argument
          answer   \* its result once it has returned

vars == <<bag, op, k, answer>>

Init ==
    /\ bag = [x \in Keys |-> 0]
    /\ op = "none"
    /\ k = NoKey
    /\ answer = 0

Call(o, x) ==
    /\ op = "none"
    /\ op' = o
    /\ k' = x
    /\ answer' = 0
    /\ UNCHANGED bag

Return(r) ==
    /\ op' = "none"
    /\ k' = NoKey
    /\ answer' = r

Insert == op = "insert" /\ bag' = [bag EXCEPT ![k] = @ + 1] /\ Return(0)

Search == op = "search" /\ UNCHANGED bag /\ Return(IF bag[k] > 0 THEN 1 ELSE 0)

SearchAll == op = "searchAll" /\ UNCHANGED bag /\ Return(bag[k])

Remove ==
    /\ op = "remove"
    /\ bag' = [bag EXCEPT ![k] = IF @ > 0 THEN @ - 1 ELSE 0]
    /\ Return(IF bag[k] > 0 THEN 1 ELSE 0)

\* removeAll() removes the occurrences one by one and counts them.
RemoveAll ==
    /\ op = "removeAll"
    /\ \/ /\ bag[k] > 0
          /\ bag' = [bag EXCEPT ![k] = @ - 1]
          /\ answer' = answer + 1
          /\ UNCHANGED <<op, k>>
       \/ bag[k] = 0 /\ UNCHANGED bag /\ Return(answer)

Next ==
    \/ \E x \in Keys, o \in {"insert", "search", "searchAll", "remove", "removeAll"} : Call(o, x)
    \/ Insert \/ Search \/ SearchAll \/ Remove \/ RemoveAll

Spec == Init /\ [][Next]_vars
===============================================================================
