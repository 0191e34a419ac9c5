------------------------------ MODULE MCWfcMap ------------------------------
(***************************************************************************)
(* Instances of WfcMap for TLC: two threads on two keys that share their   *)
(* place in the head and differ in the next bit.                           *)
(***************************************************************************)
EXTENDS WfcMap, TLC

CONSTANTS t1, t2, v1, v2

Inserts == [op : {"insert"}, key : Key, val : {v1}, exp : {Value}]
Gets == [op : {"get"}, key : Key, val : {v1}, exp : {Value}]
Updates == [op : {"update"}, key : Key, val : {v2}, exp : {Value, {v1}}]
Removes == [op : {"remove"}, key : Key, val : {v2}, exp : {Value, {v1}}]

Role(a, b) == t1 :> a @@ t2 :> b

\* Either both insert, or one does and the other one removes or updates, or
\* both remove while one inserts and the other reads.
MCRoles == <<Role(Inserts \union Gets, Inserts \union Gets),
             Role(Inserts \union Gets, Removes),
             Role(Inserts, Removes \union Updates),
             Role(Inserts \union Removes, Gets \union Removes)>>

Symmetric == Permutations(Node)
=============================================================================
