------------------------- MODULE MCHarrisMichaelMap -------------------------
(***************************************************************************)
(* Instances of HarrisMichaelMap for TLC: two threads, two keys that share *)
(* a bucket and one in the next bucket, and the workloads that meet.       *)
(***************************************************************************)
EXTENDS HarrisMichaelMap, TLC

CONSTANTS t1, t2, v1

MCKey == {<<0, 0>>, <<0, 1>>, <<1, 2>>}
One == <<0, 0>>
Shared == {<<0, 0>>, <<0, 1>>}
Apart == {<<0, 0>>, <<1, 2>>}

Calls(op, how, keys) == [op : {op}, key : keys, val : {v1}, exp : {Value}, how : {how}]
Emplace(keys) == Calls("insert", "emplace", keys)
Lazy(keys) == Calls("insert", "lazy", keys)
Find(keys) == Calls("get", "find", keys)
Erase(keys) == Calls("remove", "key", keys)
EraseIt(keys) == Calls("remove", "iterator", keys)

Does(calls, n) == [calls |-> calls, times |-> n, scans |-> FALSE]
Loops(calls, n) == [calls |-> calls, times |-> n, scans |-> TRUE]
Role(a, b) == t1 :> a @@ t2 :> b

\* Inserts and lookups against erase and insert; lazy inserts against each
\* other, and beside erase; a loop, or an erase with an iterator, against
\* insert and erase; erase against erase; a loop over two buckets.
MCRoles == <<
    Role(Does(Emplace(Shared) \union Find(Shared), 2), Does(Erase(Shared) \union Emplace({One}), 2)),
    Role(Does(Lazy(Shared), 2), Does(Lazy(Shared) \union Find(Shared), 2)),
    Role(Does(Lazy({One}) \union Emplace(Shared \ {One}), 2), Does(Erase(Shared), 2)),
    Role(Does(Emplace(Shared) \union Erase(Shared), 3), Loops(EraseIt(Shared), 1)),
    Role(Does(Emplace(Shared) \union EraseIt(Shared), 3), Does(Erase(Shared) \union EraseIt(Shared), 1)),
    Role(Does(Emplace(Apart) \union Erase(Apart), 3), Loops({}, 1))>>

\* A lazy insert, as operator[] makes it, while the other thread uses the map
LazyRoles == <<Role(Does(Lazy({One}) \union Emplace(Shared \ {One}), 2),
                    Does(Emplace({One}) \union Erase(Shared \ {One}), 2))>>

Symmetric == Permutations(Node)
=============================================================================
