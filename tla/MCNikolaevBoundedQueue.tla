----------------------- MODULE MCNikolaevBoundedQueue -----------------------
EXTENDS NikolaevBoundedQueue, TLC

\* Threads that play the same part
Alike(t) == {u \in Thread : (u \in Pusher <=> t \in Pusher) /\ (u \in Popper <=> t \in Popper)}
Symmetric == UNION {Permutations(Alike(t)) : t \in Thread} \union Permutations(Value)
=============================================================================
