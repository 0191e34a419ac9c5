-------------------------- MODULE MCNikolaevQueue --------------------------
EXTENDS NikolaevQueue, TLC

CONSTANTS m1, m2, m3  \* the nodes

MCNode == {m1, m2, m3}
MCRing == MCNode \X {"alloc", "free"}

\* Threads that play the same part
Alike(t) == {u \in Thread : \A part \in {Pusher, EarlyPusher, Popper} : u \in part <=> t \in part}
Symmetric == UNION {Permutations(Alike(t)) : t \in Thread} \union Permutations(Value)
=============================================================================
