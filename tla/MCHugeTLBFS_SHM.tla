-------------------------- MODULE MCHugeTLBFS_SHM ---------------------------
EXTENDS HugeTLBFS_SHM

\* Nodes 0 and 1 take turns, so that each has runs of one and of two pages.
MCNodeOf == <<0, 1, 0, 0, 1, 1>>

\* A first start over nothing, and one over the files 0 and 3 of an earlier
\* process, which hold the frames 4 and 2.
MCLeftBehind == { {}, { <<0, 4>>, <<3, 2>> } }

\* One page of node 0 is asked for.
MCNumPagesToFree == [n \in {0, 1} |-> 1 - n]

\* Node 0 has two pages left: enough for one of its two users at a time.
MCRequests == { <<"contiguous", 2, 0>>, <<"striped", 1, 0>>, <<"mirrored", 2, 1>> }
=============================================================================
