--------------------------- MODULE MCBTreeReopening ---------------------------
(* BTree for TLC, used by the clients of TreeClient.                         *)
EXTENDS BTree, TreeClient

mcVars == <<vars, clientVars>>

MCInit == Init /\ ClientInit

MCNext == ((Fresh /\ Next) \/ LoadTree) /\ ClientStep

MCSpec ==
    /\ MCInit /\ [][MCNext]_mcVars
    /\ WF_mcVars(MCNext /\ fn # "idle")
===============================================================================
