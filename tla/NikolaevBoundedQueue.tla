------------------------ MODULE NikolaevBoundedQueue ------------------------
(***************************************************************************)
(* xenium::nikolaev_bounded_queue (src/xenium/nikolaev_bounded_queue.hpp): *)
(* storage for the values and two rings of indexes, those of the allocated *)
(* and those of the free places.  Values are pushed once each.             *)
(***************************************************************************)
EXTENDS SCQ, QueueHistory, FiniteSets

CONSTANTS Value, NoValue,
          Pusher, Popper,  \* the threads that push, and those that pop
          MaxPush, MaxPop  \* bounds for TLC: no try_push once MaxPush tickets of
                           \* the free ring are taken, no try_pop after MaxPop

ASSUME RingAssumption == Ring = {"alloc", "free"}
ASSUME RoleAssumption == Pusher \subseteq Thread /\ Popper \subseteq Thread
ASSUME ValueAssumption == NoValue \notin Value

VARIABLES storage,  \* storage[i]: a value, or NoValue where none lives
          val,      \* val[t]: the value thread t pushes or has popped
          open      \* FALSE once the destructor has begun

vars == <<scqVars, storage, val, open, history>>

OuterPC == {"idle", "p_got", "p_ret", "o_got", "o_ret", "x_got", "dead"}

TypeOK == /\ SCQTypeOK(OuterPC)
          /\ storage \in [0..(Cap - 1) -> Value \union {NoValue}]
          /\ val \in [Thread -> Value \union {NoValue}]
          /\ open \in BOOLEAN
          /\ HistoryTypeOK(Thread, Value)

Init == LET ring == [alloc |-> Empty, free |-> Full] IN
        /\ head = [r \in Ring |-> ring[r].head]
        /\ tail = [r \in Ring |-> ring[r].tail]
        /\ fin = [r \in Ring |-> FALSE]
        /\ thr = [r \in Ring |-> ring[r].thr]
        /\ data = [r \in Ring |-> ring[r].data]
        /\ LocalsInit
        /\ storage = [i \in 0..(Cap - 1) |-> NoValue]
        /\ val = [t \in Thread |-> NoValue]
        /\ open = TRUE
        /\ HistoryInit(Thread)

\* The operation of thread t has returned.
Finish(t, from) == /\ Goto(t, from, "idle")
                   /\ arg' = [arg EXCEPT ![t] = Nil]
                   /\ ok' = [ok EXCEPT ![t] = TRUE]
                   /\ val' = [val EXCEPT ![t] = NoValue]
                   /\ UNCHANGED <<rings, rg, back, temps, storage, open>>

-----------------------------------------------------------------------------
(* try_push                                                                *)

TryPush(t, v) ==
    /\ pc[t] = "idle" /\ open /\ t \in Pusher /\ head["free"] < MaxPush
    /\ v \notin pushed /\ \A u \in Thread : val[u] # v
    /\ Dequeue(t, "idle", "free", "p_got")
    /\ val' = [val EXCEPT ![t] = v]
    /\ PushBegins(v)
    /\ UNCHANGED <<rings, storage, open>>

PushFull(t) == /\ pc[t] = "p_got" /\ ~ok[t]
               /\ Finish(t, "p_got")
               /\ PushFails(val[t])

\* The value is built in its place before its index can be dequeued.
PushStore(t) ==
    /\ pc[t] = "p_got" /\ ok[t]
    /\ storage' = [storage EXCEPT ![arg[t]] = val[t]]
    /\ Enqueue(t, "p_got", "alloc", arg[t], "p_ret")
    /\ UNCHANGED <<rings, val, open, history>>

PushReturn(t) == Finish(t, "p_ret") /\ PushEnds(val[t])

-----------------------------------------------------------------------------
(* try_pop                                                                 *)

TryPop(t) ==
    /\ pc[t] = "idle" /\ open /\ t \in Popper /\ head["alloc"] < MaxPop
    /\ Dequeue(t, "idle", "alloc", "o_got")
    /\ PopBegins(t)
    /\ UNCHANGED <<rings, storage, val, open>>

PopEmpty(t) == /\ pc[t] = "o_got" /\ ~ok[t]
               /\ Finish(t, "o_got")
               /\ PopEnds(t, {})

PopTake(t) ==
    /\ pc[t] = "o_got" /\ ok[t]
    /\ val' = [val EXCEPT ![t] = storage[arg[t]]]
    /\ storage' = [storage EXCEPT ![arg[t]] = NoValue]
    /\ Enqueue(t, "o_got", "free", arg[t], "o_ret")
    /\ UNCHANGED <<rings, open, history>>

PopReturn(t) == Finish(t, "o_ret") /\ PopEnds(t, {val[t]})

-----------------------------------------------------------------------------
(* ~nikolaev_bounded_queue, when nobody uses the queue any more            *)

Destroy(t) ==
    /\ open /\ \A u \in Thread : pc[u] = "idle"
    /\ open' = FALSE
    /\ Dequeue(t, "idle", "alloc", "x_got")
    /\ UNCHANGED <<rings, storage, val, history>>

DestroyNext(t) ==
    /\ pc[t] = "x_got"
    /\ \/ /\ ok[t]
          /\ storage' = [storage EXCEPT ![arg[t]] = NoValue]
          /\ Dequeue(t, "x_got", "alloc", "x_got")
       \/ /\ ~ok[t]
          /\ Goto(t, "x_got", "dead")
          /\ UNCHANGED <<storage, frame, temps>>
    /\ UNCHANGED <<rings, val, open, history>>

-----------------------------------------------------------------------------
RingStep(t) == (EnqStep(t) \/ DeqStep(t)) /\ UNCHANGED <<storage, val, open, history>>

Next == \E t \in Thread :
           \/ \E v \in Value : TryPush(t, v)
           \/ PushFull(t) \/ PushStore(t) \/ PushReturn(t)
           \/ TryPop(t) \/ PopEmpty(t) \/ PopTake(t) \/ PopReturn(t)
           \/ Destroy(t) \/ DestroyNext(t)
           \/ RingStep(t)

Spec == Init /\ [][Next]_vars

-----------------------------------------------------------------------------
(* Properties                                                              *)

InEntry(i) == {<<r, j>> \in Ring \X (0..(n - 1)) : data[r][j].val = i}

\* The threads that have index i in their hands
HandPC == {"p_got", "o_got", "e_ticket", "e_load", "e_head", "e_cas"}
InHand(i) == {t \in Thread : arg[t] = i /\ pc[t] \in HandPC}

\* Every index is in exactly one entry of one ring or in the hands of exactly
\* one thread: two threads never use the same place of the storage, and no
\* place is lost (try_push, try_pop, nikolaev_scq::enqueue and dequeue).
IndexOnce == open => \A i \in 0..(Cap - 1) :
    Cardinality(InEntry(i)) + Cardinality(InHand(i)) = 1

\* A value whose push returned true is met by some try_pop, and a free place
\* by some try_push: no entry with an index lies behind the head of its ring.
NothingLost == Reachable("alloc") /\ Reachable("free")

\* The threshold never makes dequeue give up too early: when nobody is at work,
\* every ring that is not empty lets the next dequeue get to its first index.
ThresholdSuffices == (\A t \in Thread : pc[t] = "idle") =>
    ThresholdReaches("alloc") /\ ThresholdReaches("free")

\* The queue is first in, first out for operations that do not overlap; it
\* returns only what was pushed, and no value twice (try_push, try_pop).
InOrder == \A t \in Thread : pc[t] = "o_ret" => val[t] \in Value /\ MayReturn(t, val[t])

\* try_pop does not return false while a value is there that nobody takes.
EmptyIsTrue == \A t \in Thread : pc[t] = "o_got" /\ ~ok[t] =>
    MayReturnFalse(t, {u \in Thread \ {t} :
        pc[u] \in {"o_got", "o_ret"} \/ back[u] \in {"o_got", "o_ret"}})

\* The destructor destroys every value that is still in the queue.
AllDestroyed == (\E t \in Thread : pc[t] = "dead") =>
                    \A i \in 0..(Cap - 1) : storage[i] = NoValue
=============================================================================
