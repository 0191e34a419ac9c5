------------------------------ MODULE SCQRing ------------------------------
(***************************************************************************)
(* One ring and threads that use it as the Nikolaev queues do: each index  *)
(* below the capacity is in the ring or in the hands of somebody, who may  *)
(* enqueue it; anybody may dequeue (nikolaev_scq.hpp).                     *)
(***************************************************************************)
EXTENDS SCQ

CONSTANTS MaxHead, MaxTail  \* bounds for TLC: no operation starts beyond them

VARIABLE pool  \* the indexes in nobody's hands

vars == <<scqVars, pool>>

r == CHOOSE x \in Ring : TRUE

Init == /\ head = [x \in Ring |-> Empty.head]
        /\ tail = [x \in Ring |-> Empty.tail]
        /\ fin = [x \in Ring |-> FALSE]
        /\ thr = [x \in Ring |-> Empty.thr]
        /\ data = [x \in Ring |-> Empty.data]
        /\ LocalsInit
        /\ pool = 0..(Cap - 1)

Put(t, v) == /\ pc[t] = "idle" /\ v \in pool /\ tail[r] <= MaxTail
             /\ Enqueue(t, "idle", r, v, "put")
             /\ pool' = pool \ {v}
             /\ UNCHANGED rings

HasPut(t) == /\ Goto(t, "put", "idle")
             /\ arg' = [arg EXCEPT ![t] = Nil]
             /\ UNCHANGED <<rings, rg, ok, back, temps, pool>>

Get(t) == /\ pc[t] = "idle" /\ head[r] <= MaxHead
          /\ Dequeue(t, "idle", r, "got")
          /\ UNCHANGED <<rings, pool>>

HasGot(t) == /\ Goto(t, "got", "idle")
             /\ pool' = IF ok[t] THEN pool \union {arg[t]} ELSE pool
             /\ arg' = [arg EXCEPT ![t] = Nil]
             /\ ok' = [ok EXCEPT ![t] = TRUE]
             /\ UNCHANGED <<rings, rg, back, temps>>

Next == \E t \in Thread :
           \/ \E v \in 0..(Cap - 1) : Put(t, v)
           \/ HasPut(t) \/ Get(t) \/ HasGot(t)
           \/ (EnqStep(t) \/ DeqStep(t)) /\ UNCHANGED pool

Spec == Init /\ [][Next]_vars

-----------------------------------------------------------------------------
(* Properties                                                              *)

\* What enqueue has put into the ring some dequeue will meet: no value is at
\* a position that the dequeues have passed (is_safe, EnqHead).
NothingPassed == Reachable(r)
=============================================================================
