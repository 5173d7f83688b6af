------------------------------ MODULE TreeClient ------------------------------
(***************************************************************************)
(* The clients of a tree that the MC modules run.  Each is a constraint on *)
(* the calls that are made.  All of them close and reopen the file when a  *)
(* call has left the root page in memory different from the one on disk,   *)
(* and call removeAll(), which gives them no chance to do so between two   *)
(* removals, on a single leaf only.                                        *)
(***************************************************************************)
EXTENDS TreeShape

CONSTANTS Clients,        \* the clients to check
          FewKeys,        \* the keys of every client but the ascending one
          FewInserted,    \* bounds on the keys stored by the clients: inserting,
          FewEmptied,     \*   emptying
          FewMixed,       \*   and mixing
          MaxRemovals     \* bound on the removals of the ascending client

VARIABLES client,         \* the client that runs
          removals        \* how many removals it has begun, up to MaxRemovals

clientVars == <<client, removals>>

ClientInit == client \in Clients /\ removals = 0

Calls(names) == fn = "idle" /\ op' \in names

Searches == Calls({"search", "searchAll"})
Removes == Calls({"remove", "removeAll"})

\* At most n keys out of FewKeys are stored.
AtMost(n) ==
    /\ Calls({"insert"}) => size < n
    /\ Searches \/ Removes \/ Calls({"insert"}) => k' \in FewKeys

\* Inserts and searches.
Inserting == client = "inserting" /\ AtMost(FewInserted) /\ ~Removes

\* First fills the tree, then empties it.
Emptying ==
    /\ client = "emptying" /\ AtMost(FewEmptied)
    /\ Calls({"insert"}) => removals = 0
    /\ ~Searches

\* Makes any call.
Mixing == client = "mixing" /\ AtMost(FewMixed)

\* Inserts 1..MaxSize in ascending order, which leaves all the pages but the last
\* ones with few keys, and then removes some.
Ascending ==
    /\ client = "ascending"
    /\ ~Searches /\ ~Calls({"removeAll"})
    /\ Calls({"insert"}) => removals = 0 /\ k' = size + 1
    /\ Removes => (size = MaxSize \/ removals > 0) /\ removals < MaxRemovals

ClientStep ==
    /\ Inserting \/ Emptying \/ Mixing \/ Ascending
    /\ op' = "removeAll" => rootPage.leaf
    /\ removals' = IF Removes /\ removals < MaxRemovals THEN removals + 1 ELSE removals
    /\ UNCHANGED client

\* A call is made on an up-to-date root page.
Fresh == fn = "idle" => RootInMemory
===============================================================================
