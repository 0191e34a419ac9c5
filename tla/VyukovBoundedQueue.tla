------------------------- MODULE VyukovBoundedQueue -------------------------
(***************************************************************************)
(* xenium::vyukov_bounded_queue (src/xenium/vyukov_bounded_queue.hpp): a   *)
(* ring of cells, each with a sequence number that says whose turn it is.  *)
(* A thread claims a position with a CAS and then works on the cell alone, *)
(* until it hands the cell on by storing the next sequence number.         *)
(***************************************************************************)
EXTENDS Integers, Sequences, FiniteSets

CONSTANTS Thread, Value, NoValue,
          Size,     \* the number of cells
          Running,  \* the threads that do not stop inside an operation
          MaxPos    \* bound for TLC: no operation begins at this position

\* vyukov_bounded_queue.hpp:72 asserts it (and that Size is a power of two, by
\* which pos & index_mask is pos % Size).
ASSUME SizeAssumption == Size \in Nat /\ Size >= 2
ASSUME RunningAssumption == Running \subseteq Thread
ASSUME NoValueAssumption == NoValue \notin Value
ASSUME MaxPosAssumption == MaxPos \in Nat

VARIABLES sequence, value,           \* the fields of the cells
          enqueue_pos, dequeue_pos,
          pc,
          weak,                      \* weak[t]: try_push_weak or try_pop_weak
          pos,                       \* the local pos of thread t
          val                        \* what t pushes, or has moved out of a cell

shared == <<sequence, value, enqueue_pos, dequeue_pos>>
vars == <<shared, pc, weak, pos, val>>

Cell == 0..(Size - 1)
cell(p) == p % Size

PushPC == {"p_seq", "p_cas", "p_reload", "p_pos2", "p_full", "p_assign", "p_publish"}
PopPC == {"o_seq", "o_cas", "o_reload", "o_pos2", "o_empty", "o_move", "o_publish"}
PushOwns == {"p_assign", "p_publish"}  \* the thread has claimed its position
PopOwns == {"o_move", "o_publish"}

TypeOK == /\ sequence \in [Cell -> Nat]
          /\ value \in [Cell -> Value \union {NoValue}]
          /\ dequeue_pos \in Nat
          /\ enqueue_pos \in dequeue_pos..(dequeue_pos + Size)
          /\ pc \in [Thread -> {"idle"} \union PushPC \union PopPC]
          /\ weak \in [Thread -> BOOLEAN]
          /\ pos \in [Thread -> Nat]
          /\ val \in [Thread -> Value \union {NoValue}]

Init == /\ sequence = [i \in Cell |-> i]
        /\ value = [i \in Cell |-> NoValue]
        /\ enqueue_pos = 0 /\ dequeue_pos = 0
        /\ pc = [t \in Thread |-> "idle"]
        /\ weak = [t \in Thread |-> FALSE]
        /\ pos = [t \in Thread |-> 0]
        /\ val = [t \in Thread |-> NoValue]

Goto(t, from, to) == pc[t] = from /\ pc' = [pc EXCEPT ![t] = to]

\* Thread t goes on with position p.
SetPos(t, p) == pos' = [pos EXCEPT ![t] = p] /\ UNCHANGED <<shared, weak, val>>

Stay == UNCHANGED <<shared, weak, pos, val>>

Return(t, from) == /\ Goto(t, from, "idle")
                   /\ weak' = [weak EXCEPT ![t] = FALSE]
                   /\ pos' = [pos EXCEPT ![t] = 0]
                   /\ val' = [val EXCEPT ![t] = NoValue]

-----------------------------------------------------------------------------
(* do_try_push                                                             *)

TryPush(t, v, w) == /\ enqueue_pos < MaxPos
                    /\ Goto(t, "idle", "p_seq")
                    /\ pos' = [pos EXCEPT ![t] = enqueue_pos]
                    /\ weak' = [weak EXCEPT ![t] = w]
                    /\ val' = [val EXCEPT ![t] = v]
                    /\ UNCHANGED shared

\* The load of the cell's sequence, and what follows from it at once.
PushSeq(t) == LET seq == sequence[cell(pos[t])] IN
    \/ seq = pos[t] /\ Goto(t, "p_seq", "p_cas") /\ Stay
    \/ seq # pos[t] /\ ~weak[t] /\ Goto(t, "p_seq", "p_pos2") /\ Stay
    \/ seq > pos[t] /\ weak[t] /\ Goto(t, "p_seq", "p_reload") /\ Stay
    \/ seq < pos[t] /\ weak[t] /\ Return(t, "p_seq") /\ UNCHANGED shared

PushCas(t) == /\ Goto(t, "p_cas", "p_assign")
              /\ enqueue_pos = pos[t]
              /\ enqueue_pos' = enqueue_pos + 1
              /\ UNCHANGED <<sequence, value, dequeue_pos, weak, pos, val>>

\* compare_exchange_weak may fail without a reason.
PushCasFails(t) == Goto(t, "p_cas", "p_seq") /\ SetPos(t, enqueue_pos)

\* Mutant: pos keeps its old value.
PushReloadNot(t) == Goto(t, "p_reload", "p_seq") /\ Stay

PushReload(t) == Goto(t, "p_reload", "p_seq") /\ SetPos(t, enqueue_pos)

PushPos2(t) == \/ enqueue_pos = pos[t] /\ Goto(t, "p_pos2", "p_full") /\ Stay
               \/ enqueue_pos # pos[t] /\ Goto(t, "p_pos2", "p_seq") /\ SetPos(t, enqueue_pos)

\* Mutant: dequeue_pos is not looked at.
PushFullUnchecked(t) == Return(t, "p_full") /\ UNCHANGED shared

PushFull(t) == \/ dequeue_pos + Size = pos[t] /\ Return(t, "p_full") /\ UNCHANGED shared
               \/ dequeue_pos + Size # pos[t] /\ Goto(t, "p_full", "p_seq") /\ Stay

PushAssign(t) == /\ Goto(t, "p_assign", "p_publish")
                 /\ value' = [value EXCEPT ![cell(pos[t])] = val[t]]
                 /\ val' = [val EXCEPT ![t] = NoValue]
                 /\ UNCHANGED <<sequence, enqueue_pos, dequeue_pos, weak, pos>>

PushPublish(t) == /\ Return(t, "p_publish")
                  /\ sequence' = [sequence EXCEPT ![cell(pos[t])] = pos[t] + 1]
                  /\ UNCHANGED <<value, enqueue_pos, dequeue_pos>>

-----------------------------------------------------------------------------
(* do_try_pop                                                              *)

TryPop(t, w) == /\ dequeue_pos < MaxPos
                /\ Goto(t, "idle", "o_seq")
                /\ pos' = [pos EXCEPT ![t] = dequeue_pos]
                /\ weak' = [weak EXCEPT ![t] = w]
                /\ UNCHANGED <<shared, val>>

PopSeq(t) == LET seq == sequence[cell(pos[t])] new_pos == pos[t] + 1 IN
    \/ seq = new_pos /\ Goto(t, "o_seq", "o_cas") /\ Stay
    \/ seq # new_pos /\ ~weak[t] /\ Goto(t, "o_seq", "o_pos2") /\ Stay
    \/ seq > new_pos /\ weak[t] /\ Goto(t, "o_seq", "o_reload") /\ Stay
    \/ seq < new_pos /\ weak[t] /\ Return(t, "o_seq") /\ UNCHANGED shared

PopCas(t) == /\ Goto(t, "o_cas", "o_move")
             /\ dequeue_pos = pos[t]
             /\ dequeue_pos' = dequeue_pos + 1
             /\ UNCHANGED <<sequence, value, enqueue_pos, weak, pos, val>>

PopCasFails(t) == Goto(t, "o_cas", "o_seq") /\ SetPos(t, dequeue_pos)

PopReload(t) == Goto(t, "o_reload", "o_seq") /\ SetPos(t, dequeue_pos)

PopPos2(t) == \/ dequeue_pos = pos[t] /\ Goto(t, "o_pos2", "o_empty") /\ Stay
              \/ dequeue_pos # pos[t] /\ Goto(t, "o_pos2", "o_seq") /\ SetPos(t, dequeue_pos)

PopEmpty(t) == \/ enqueue_pos = pos[t] /\ Return(t, "o_empty") /\ UNCHANGED shared
               \/ enqueue_pos # pos[t] /\ Goto(t, "o_empty", "o_seq") /\ Stay

\* Mutant: the cell is handed on before the value is moved out of it.
PopMoveLate(t) == /\ Goto(t, "o_move", "o_publish")
                  /\ val' = [val EXCEPT ![t] = value[cell(pos[t])]]
                  /\ sequence' = [sequence EXCEPT ![cell(pos[t])] = pos[t] + Size]
                  /\ UNCHANGED <<value, enqueue_pos, dequeue_pos, weak, pos>>

\* result = std::move(c->value): the cell keeps a value that has been moved from.
PopMove(t) == /\ Goto(t, "o_move", "o_publish")
              /\ val' = [val EXCEPT ![t] = value[cell(pos[t])]]
              /\ value' = [value EXCEPT ![cell(pos[t])] = NoValue]
              /\ UNCHANGED <<sequence, enqueue_pos, dequeue_pos, weak, pos>>

PopPublish(t) == /\ Return(t, "o_publish")
                 /\ sequence' = [sequence EXCEPT ![cell(pos[t])] = pos[t] + Size]
                 /\ UNCHANGED <<value, enqueue_pos, dequeue_pos>>

PushStep(t) == \/ PushSeq(t) \/ PushCas(t) \/ PushCasFails(t) \/ PushReload(t)
               \/ PushPos2(t) \/ PushFull(t) \/ PushAssign(t) \/ PushPublish(t)
PopStep(t) == \/ PopSeq(t) \/ PopCas(t) \/ PopCasFails(t) \/ PopReload(t)
              \/ PopPos2(t) \/ PopEmpty(t) \/ PopMove(t) \/ PopPublish(t)

Next == \E t \in Thread : \/ \E w \in BOOLEAN : TryPop(t, w) \/ \E v \in Value : TryPush(t, v, w)
                          \/ PushStep(t) \/ PopStep(t)

Spec == Init /\ [][Next]_vars

-----------------------------------------------------------------------------
(* Safety                                                                  *)

\* No two threads are at the same cell between their CAS and their store to its
\* sequence: value is a plain field that only the sequence numbers guard.
Owner(t) == pc[t] \in PushOwns \union PopOwns
Exclusive == \A t, u \in Thread :
                Owner(t) /\ Owner(u) /\ cell(pos[t]) = cell(pos[u]) => t = u

\* Every operation is atomic, at the CAS that claims its position or at the load
\* by which it decides to return false: the claimed positions, oldest first, are
\* the items of BoundedFifo, also those whose value is still to be assigned.
Item(p) == LET Late == {t \in Thread : pc[t] = "p_assign" /\ pos[t] = p} IN
           IF Late = {} THEN value[cell(p)] ELSE val[CHOOSE t \in Late : TRUE]
Items == [i \in 1..(enqueue_pos - dequeue_pos) |-> Item(dequeue_pos + i - 1)]
Op == [t \in Thread |-> CASE pc[t] = "idle" -> "idle"
                          [] pc[t] \in PushOwns -> "pushed"
                          [] pc[t] \in PushPC \ PushOwns -> "push"
                          [] pc[t] \in PopOwns -> "popped"
                          [] pc[t] \in PopPC \ PopOwns -> "pop"]
Arg == [t \in Thread |-> CASE pc[t] = "p_assign" -> NoValue
                           [] pc[t] = "o_move" -> value[cell(pos[t])]
                           [] OTHER -> val[t]]

Fifo == INSTANCE BoundedFifo
           WITH Capacity <- Size, items <- Items, op <- Op, arg <- Arg, isWeak <- weak
Linearizable == Fifo!BSpec

-----------------------------------------------------------------------------
(* The inductive invariant behind TypeOK and Exclusive                     *)

\* Between the counters, a cell waits for its pop or for the end of its push...
ClaimedOK == \A p \in dequeue_pos..(enqueue_pos - 1) : sequence[cell(p)] \in {p, p + 1}

\* ... and before them, for its next push or for the end of the pop before that.
FreeOK == \A p \in enqueue_pos..(dequeue_pos + Size - 1) :
             sequence[cell(p)] \in {p, p + 1 - Size}

\* The cell of a claimed position does not change hands, and both counters stay
\* within Size positions of it, until its sequence is stored.
PushOwnerOK(t) ==
    pc[t] \in PushOwns =>
       /\ dequeue_pos <= pos[t] /\ pos[t] < enqueue_pos
       /\ sequence[cell(pos[t])] = pos[t]
       /\ \A u \in Thread : pc[u] \in PushOwns /\ pos[u] = pos[t] => u = t
PopOwnerOK(t) ==
    pc[t] \in PopOwns =>
       /\ pos[t] < dequeue_pos /\ enqueue_pos <= pos[t] + Size
       /\ sequence[cell(pos[t])] = pos[t] + 1
       /\ \A u \in Thread : pc[u] \in PopOwns /\ pos[u] = pos[t] => u = t

\* What the load of a sequence has shown still holds if the CAS succeeds.
PushReadOK(t) ==
    /\ pc[t] \in PushPC => pos[t] <= enqueue_pos
    /\ pc[t] = "p_cas" /\ enqueue_pos = pos[t] => sequence[cell(pos[t])] = pos[t]
PopReadOK(t) ==
    /\ pc[t] \in PopPC => pos[t] <= dequeue_pos
    /\ pc[t] = "o_cas" /\ dequeue_pos = pos[t] => sequence[cell(pos[t])] = pos[t] + 1

ThreadOK(t) == PushOwnerOK(t) /\ PopOwnerOK(t) /\ PushReadOK(t) /\ PopReadOK(t)

IInv == TypeOK /\ ClaimedOK /\ FreeOK /\ \A t \in Thread : ThreadOK(t)

-----------------------------------------------------------------------------
(* Liveness                                                                *)

Fair(t) == WF_vars(PushStep(t) \/ PopStep(t)) /\ SF_vars(PushCas(t)) /\ SF_vars(PopCas(t))

\* The threads of Running keep running inside an operation; every other thread
\* may stop for ever at any step.
FairSpec == Spec /\ \A t \in Running : Fair(t)

\* vyukov_bounded_queue.hpp:136 "Progress guarantees: lock-free" (weak) and :114
\* "blocking" (strong): an operation returns wherever the others have stopped,
\* except that a strong one may wait for a thread that has claimed a position.
\* (Finitely many positions can be claimed below MaxPos, so that a lock-free
\* operation has to return.)
Returns == \A t \in Running :
    pc[t] # "idle" ~> pc[t] = "idle" \/ (~weak[t] /\ \E u \in Thread \ {t} : Owner(u))
=============================================================================
