----------------------------- MODULE FifoQueue -----------------------------
(***************************************************************************)
(* The abstract queue that xenium's concurrent queues promise: every push  *)
(* and every try_pop takes effect at one moment between its call and its   *)
(* return, values leave in the order they entered, and try_pop returns     *)
(* false only if the queue was empty at some moment during the call.       *)
(***************************************************************************)
EXTENDS Sequences, Naturals

CONSTANTS Thread, Value, NoValue

VARIABLES items,    \* the values in the queue, oldest first
          op,       \* op[t]: how far the operation of thread t has come
          arg,      \* arg[t]: the value t pushes, or the one its try_pop took
          sawEmpty  \* the threads whose try_pop has seen an empty queue

fvars == <<items, op, arg, sawEmpty>>

FTypeOK == /\ items \in Seq(Value)
           /\ op \in [Thread -> {"idle", "push", "pushed", "pop", "popped", "empty"}]
           /\ arg \in [Thread -> Value \union {NoValue}]
           /\ sawEmpty \in SUBSET Thread

FInit == /\ items = << >>
         /\ op = [t \in Thread |-> "idle"]
         /\ arg = [t \in Thread |-> NoValue]
         /\ sawEmpty = {}

Popping == {t \in Thread : op[t] = "pop"}

CallPush(t, v) == /\ op[t] = "idle"
                  /\ op' = [op EXCEPT ![t] = "push"]
                  /\ arg' = [arg EXCEPT ![t] = v]
                  /\ UNCHANGED <<items, sawEmpty>>

DoPush(t) == /\ op[t] = "push"
             /\ items' = Append(items, arg[t])
             /\ op' = [op EXCEPT ![t] = "pushed"]
             /\ arg' = [arg EXCEPT ![t] = NoValue]
             /\ UNCHANGED sawEmpty

CallPop(t) == /\ op[t] = "idle"
              /\ op' = [op EXCEPT ![t] = "pop"]
              /\ sawEmpty' = IF items = << >> THEN sawEmpty \union {t} ELSE sawEmpty
              /\ UNCHANGED <<items, arg>>

DoPop(t) == /\ op[t] = "pop"
            /\ items # << >>
            /\ items' = Tail(items)
            /\ op' = [op EXCEPT ![t] = "popped"]
            /\ arg' = [arg EXCEPT ![t] = Head(items)]
            /\ sawEmpty' = (IF Len(items) = 1 THEN sawEmpty \union Popping ELSE sawEmpty) \ {t}

FailPop(t) == /\ op[t] = "pop"
              /\ t \in sawEmpty
              /\ op' = [op EXCEPT ![t] = "empty"]
              /\ sawEmpty' = sawEmpty \ {t}
              /\ UNCHANGED <<items, arg>>

Return(t) == /\ op[t] \in {"pushed", "popped", "empty"}
             /\ op' = [op EXCEPT ![t] = "idle"]
             /\ arg' = [arg EXCEPT ![t] = NoValue]
             /\ UNCHANGED <<items, sawEmpty>>

\* The destructor: the values still in the queue are dropped with it.
Drop == /\ \A t \in Thread : op[t] = "idle"
        /\ items' = << >>
        /\ UNCHANGED <<op, arg, sawEmpty>>

FNext == \/ Drop
         \/ \E t \in Thread :
               \/ \E v \in Value : CallPush(t, v)
               \/ DoPush(t) \/ CallPop(t) \/ DoPop(t) \/ FailPop(t) \/ Return(t)

FSpec == FInit /\ [][FNext]_fvars
=============================================================================
