--------------------------- MODULE MCVyukovHashMap ---------------------------
(***************************************************************************)
(* Instances of VyukovHashMap for TLC: two threads on a map of one or two  *)
(* buckets with two cells each and one extension item.                     *)
(***************************************************************************)
EXTENDS VyukovHashMap

CONSTANTS t1, t2, v1, v2

Calls(op, how, keys) == [op : {op}, key : keys, val : {v2}, exp : {Value}, how : {how}]
Insert(keys) == Calls("insert", "emplace", keys)
Lookup(keys) == Calls("get", "try_get_value", keys)
Erase(keys) == Calls("remove", "key", keys)
EraseIt(keys) == Calls("remove", "iterator", keys)

Does(calls, n) == [calls |-> calls, times |-> n, scans |-> FALSE]
Loops(n) == [calls |-> {}, times |-> n, scans |-> TRUE]
Workload(n, keys, a, b) ==
    [buckets |-> n, holds |-> [i \in DOMAIN keys |-> Entry(keys[i], v1)], does |-> t1 :> a @@ t2 :> b]

\* A lookup beside removals and inserts in its bucket, without and with an
\* extension item, which may go to another bucket; a map that has to grow
\* beside lookups, removals and another insert that finds it full; a loop
\* beside removals and inserts; an erase with an iterator beside all of them.
MCRoles == <<
    Workload(1, <<0, 1>>, Does(Lookup({0, 1, 2}), 1), Does(Erase({0, 1, 2}) \union Insert({1, 2}), 3)),
    Workload(1, <<0, 1, 2>>, Does(Lookup({0, 1, 2}), 1), Does(Erase({0, 1, 2}) \union Insert({0}), 2)),
    Workload(2, <<0, 2, 4, 1, 3>>, Does(Lookup({2, 4}), 1), Does(Erase({0, 4}) \union Insert({5}), 2)),
    Workload(1, <<0, 1, 2>>, Does(Insert({3}) \union Lookup({0, 3}), 2), Does(Insert({3}) \union Erase({0, 2}), 2)),
    Workload(2, <<0, 2, 4>>, Loops(1), Does(Insert({1, 6}) \union Erase({0, 4}), 2)),
    Workload(2, <<0, 1>>, Does(EraseIt({0, 1, 2}), 2), Does(Insert({2}) \union Erase({0, 1}) \union Lookup({0, 1}), 2))>>

Symmetric == Permutations(Node)
=============================================================================
