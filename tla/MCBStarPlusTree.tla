---------------------------- MODULE MCBStarPlusTree ----------------------------
(* BStarPlusTree for TLC, used by the clients of TreeClient.                 *)
EXTENDS BStarPlusTree, TreeClient

mcVars == <<starVars, clientVars>>

MCInit == StarInit /\ ClientInit

MCNext == ((Fresh /\ StarNext) \/ (LoadTree /\ UNCHANGED removeVars)) /\ ClientStep

MCSpec ==
    /\ MCInit /\ [][MCNext]_mcVars
    /\ WF_mcVars(MCNext /\ fn # "idle")
===============================================================================
