---------------------------- MODULE MCEpochBased ----------------------------
(***************************************************************************)
(* Instances of EpochBased for TLC.                                        *)
(***************************************************************************)
EXTENDS EpochBased, TLC

CONSTANTS t1, t2

Policy(region, scan, frequency, abandon, calls, n) ==
    [region |-> region, scan |-> scan, frequency |-> frequency, abandon |-> abandon,
     calls |-> calls, guards |-> [t \in Thread |-> IF t = t1 THEN n ELSE 1]]

Update == {"acquire", "insert", "reclaim"}

\* epoch_based, whose threads end, beside a reader with two guards; the policies
\* that extend regions, with those that abandon nodes and scan one thread at a time
MCPolicies == {
    Policy("none", "all", 1, "never", t1 :> {"acquire", "copy"} @@ t2 :> Update \union {"exit"}, 2),
    Policy("eager", "one", 0, "always", t1 :> {"acquire", "region", "exit"} @@ t2 :> Update, 1),
    Policy("lazy", "all", 0, "always", t1 :> {"if_equal", "region"} @@ t2 :> Update \union {"region"}, 1)}

\* epoch_based: two threads only acquire guards, t2 unlinks a node and ends.
EndingPolicy == {
    Policy("none", "all", 0, "never",
           [t \in Thread |-> IF t = t2 THEN Update \union {"exit"} ELSE {"acquire"}], 1)}

Symmetric == Permutations(Block) \union Permutations(Node) \union Permutations(GuardId)
SymmetricReaders == Permutations(Thread \ {t2}) \union Permutations(Block)
=============================================================================
