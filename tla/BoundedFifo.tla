----------------------------- MODULE BoundedFifo -----------------------------
(***************************************************************************)
(* The abstract bounded queue that vyukov_bounded_queue promises: values   *)
(* leave in the order they entered; a strong try_push (try_pop) fails only *)
(* if the queue is full (empty) at some moment during the call, a weak one *)
(* also while another thread is still in an operation of the other kind.   *)
(***************************************************************************)
EXTENDS Sequences, Naturals

CONSTANTS Thread, Value, NoValue, Capacity

VARIABLES items,  \* the values in the queue, oldest first
          op,     \* op[t]: how far the operation of thread t has come
          arg,    \* arg[t]: the value t pushes, or the one its try_pop took
          isWeak  \* isWeak[t]: t called the weak version

bvars == <<items, op, arg, isWeak>>

BInit == /\ items = << >>
         /\ op = [t \in Thread |-> "idle"]
         /\ arg = [t \in Thread |-> NoValue]
         /\ isWeak = [t \in Thread |-> FALSE]

CallPush(t, v, w) == /\ op[t] = "idle"
                     /\ op' = [op EXCEPT ![t] = "push"]
                     /\ arg' = [arg EXCEPT ![t] = v]
                     /\ isWeak' = [isWeak EXCEPT ![t] = w]
                     /\ UNCHANGED items

CallPop(t, w) == /\ op[t] = "idle"
                 /\ op' = [op EXCEPT ![t] = "pop"]
                 /\ isWeak' = [isWeak EXCEPT ![t] = w]
                 /\ UNCHANGED <<items, arg>>

DoPush(t) == /\ op[t] = "push"
             /\ Len(items) < Capacity
             /\ items' = Append(items, arg[t])
             /\ op' = [op EXCEPT ![t] = "pushed"]
             /\ arg' = [arg EXCEPT ![t] = NoValue]
             /\ UNCHANGED isWeak

DoPop(t) == /\ op[t] = "pop"
            /\ items # << >>
            /\ items' = Tail(items)
            /\ op' = [op EXCEPT ![t] = "popped"]
            /\ arg' = [arg EXCEPT ![t] = Head(items)]
            /\ UNCHANGED isWeak

Return(t) == /\ op[t] \in {"pushed", "popped"}
             /\ op' = [op EXCEPT ![t] = "idle"]
             /\ arg' = [arg EXCEPT ![t] = NoValue]
             /\ isWeak' = [isWeak EXCEPT ![t] = FALSE]
             /\ UNCHANGED items

\* The operation of t returns false.
Fail(t) == /\ op' = [op EXCEPT ![t] = "idle"]
           /\ arg' = [arg EXCEPT ![t] = NoValue]
           /\ isWeak' = [isWeak EXCEPT ![t] = FALSE]
           /\ UNCHANGED items

FailPush(t) == /\ op[t] = "push"
               /\ \/ Len(items) = Capacity
                  \/ isWeak[t] /\ \E u \in Thread : op[u] = "popped"
               /\ Fail(t)

FailPop(t) == /\ op[t] = "pop"
              /\ \/ items = << >>
                 \/ isWeak[t] /\ \E u \in Thread : op[u] = "pushed"
              /\ Fail(t)

BNext == \E t \in Thread :
            \/ \E w \in BOOLEAN : CallPop(t, w) \/ \E v \in Value : CallPush(t, v, w)
            \/ DoPush(t) \/ DoPop(t) \/ FailPush(t) \/ FailPop(t) \/ Return(t)

BSpec == BInit /\ [][BNext]_bvars
=============================================================================
