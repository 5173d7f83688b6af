------------------------------ MODULE MCBPlusTree ------------------------------
(* BPlusTree for TLC: insertion and removal.                                 *)
EXTENDS BPlusTree

\* A client that fills a tree and takes keys out of it.  It inserts no more once
\* a page is free, closes and reopens the file whenever a call has left the root
\* page in memory different from the one on disk, and calls removeAll(), which
\* gives it no chance to do so between two removals, on a single leaf only.
BPlusReopeningNext ==
    \/ /\ fn = "idle" => RootInMemory
       /\ BPlusNext
       /\ op' = "insert" => freePages = <<>>
       /\ op' = "removeAll" => rootPage.leaf
    \/ LoadTree

BPlusReopeningSpec ==
    Init /\ [][BPlusReopeningNext]_vars /\ WF_vars(BaseStep \/ BPlusRemoveStep)
===============================================================================
