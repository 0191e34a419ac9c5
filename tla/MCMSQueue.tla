----------------------------- MODULE MCMSQueue -----------------------------
(* TLC instances of MSQueue.                                               *)
EXTENDS MSQueue, TLC

\* Addresses are interchangeable.
Symmetric == Permutations(Node)
=============================================================================
