-------------------------- MODULE MCHazardPointers --------------------------
\* Instances of HazardPointers for TLC: which threads, blocks, nodes and
\* cells play which part makes no difference.
EXTENDS HazardPointers, TLC

Symmetric == Permutations(Thread) \union Permutations(Block) \union Permutations(Node)
             \union Permutations(GuardId)

\* Two nodes without copies, one with them
NodesInUse == TRUE :> 1 @@ FALSE :> 2
=============================================================================
