--------------------------- MODULE NikolaevQueue ---------------------------
(***************************************************************************)
(* xenium::nikolaev_queue (src/xenium/nikolaev_queue.hpp), the unbounded   *)
(* queue of the benchmark (LSCQ): a list of nodes, each with storage for   *)
(* Cap values and two rings of indexes.  A push that finds no free place   *)
(* finalizes its node and appends a new one; a try_pop that finds a node   *)
(* empty that has a successor moves _head on and reclaims the node.        *)
(*                                                                         *)
(* guard_ptr::acquire is one step here (module HazardPointers has its      *)
(* steps); what the guard is worth is the promise of module Reclaimer.     *)
(* The constructor and the destructor of a node touch what no other thread *)
(* can reach, and are one step each.  Values are pushed once each.         *)
(***************************************************************************)
EXTENDS SCQ, QueueHistory, FiniteSets

CONSTANTS Node, Null,
          Value, NoValue,
          Pusher, Popper,  \* the threads that push, and those that pop
          EarlyPusher,     \* those of Pusher that push before the first try_pop only,
                           \* which then waits for all that push
          MaxPops,         \* bound for TLC: the number of calls of try_pop
          MaxHead          \* bound for TLC: tickets of a ring before its node
                           \* spares try_pop the spurious failures of a CAS

ASSUME RingAssumption == Ring = Node \X {"alloc", "free"}
ASSUME NodeAssumption == Null \notin Node
ASSUME ValueAssumption == NoValue \notin Value
ASSUME RoleAssumption == EarlyPusher \subseteq Pusher /\ Pusher \union Popper \subseteq Thread

VARIABLES qhead, qtail,          \* _head and _tail of the queue
          next,                  \* next[m]: _next
          storage,               \* storage[m][i]
          status, slot, pinned,  \* as in module Reclaimer; slot[t]["n"] is guard n
          val,                   \* val[t]: value or result
          mine,                  \* mine[t]: the new node of a push
          pops                   \* the number of calls of try_pop

R == INSTANCE Reclaimer WITH Slot <- {"n"}

list == <<qhead, qtail, next, storage>>
guards == <<status, slot, pinned>>
vars == <<scqVars, list, guards, val, mine, pops, history>>

OuterPC == {"idle", "p_acq", "p_next", "p_help", "p_got", "p_enq", "p_back", "p_new", "p_link",
            "p_swing", "o_acq", "o_first", "o_next", "o_thr", "o_second", "o_ret", "o_cas",
            "o_retire"}

Place == 0..(Cap - 1)

TypeOK == /\ SCQTypeOK(OuterPC)
          /\ qhead \in Node /\ qtail \in Node
          /\ next \in [Node -> Node \union {Null}]
          /\ storage \in [Node -> [Place -> Value \union {NoValue}]]
          /\ R!RTypeOK
          /\ val \in [Thread -> Value \union {NoValue}]
          /\ mine \in [Thread -> Node \union {Null}]
          /\ pops \in 0..MaxPops
          /\ HistoryTypeOK(Thread, Value)

alloc(m) == <<m, "alloc">>
free(m) == <<m, "free">>
g(t) == slot[t]["n"]

Init == LET m0 == CHOOSE m \in Node : TRUE
            Of(x) == IF x[2] = "alloc" THEN Empty ELSE Full
        IN
        /\ head = [x \in Ring |-> Of(x).head]
        /\ tail = [x \in Ring |-> Of(x).tail]
        /\ fin = [x \in Ring |-> FALSE]
        /\ thr = [x \in Ring |-> Of(x).thr]
        /\ data = [x \in Ring |-> Of(x).data]
        /\ LocalsInit
        /\ qhead = m0 /\ qtail = m0
        /\ next = [m \in Node |-> Null]
        /\ storage = [m \in Node |-> [i \in Place |-> NoValue]]
        /\ status = [m \in Node |-> IF m = m0 THEN "live" ELSE "free"]
        /\ slot = [t \in Thread |-> [s \in {"n"} |-> Null]]
        /\ pinned = {}
        /\ val = [t \in Thread |-> NoValue]
        /\ mine = [t \in Thread |-> Null]
        /\ pops = 0
        /\ HistoryInit(Thread)

Quiet == UNCHANGED <<rings, frame, temps>>

\* The operation of thread t has returned; its guard goes out of scope.
Finish(t, from) == /\ Goto(t, from, "idle")
                   /\ R!Release(t, {"n"})
                   /\ arg' = [arg EXCEPT ![t] = Nil]
                   /\ ok' = [ok EXCEPT ![t] = TRUE]
                   /\ val' = [val EXCEPT ![t] = NoValue]
                   /\ mine' = [mine EXCEPT ![t] = Null]
                   /\ UNCHANGED <<rings, rg, back, temps, status, pops>>

SetPlace(m, i, v) == storage' = [storage EXCEPT ![m][i] = v]

-----------------------------------------------------------------------------
(* push                                                                    *)

Push(t, v) == /\ Goto(t, "idle", "p_acq")
              /\ t \in Pusher /\ (t \in EarlyPusher => pops = 0)
              /\ v \notin pushed /\ \A u \in Thread : val[u] # v
              /\ val' = [val EXCEPT ![t] = v]
              /\ PushBegins(v)
              /\ Quiet /\ UNCHANGED <<list, guards, mine, pops>>

PushAcquire(t) == /\ Goto(t, "p_acq", "p_next")
                  /\ R!Publish(t, "n", qtail)
                  /\ Quiet /\ UNCHANGED <<list, status, val, mine, pops, history>>

\* n->_next: help a push that has linked its node, or try_push into node n
PushNext(t) ==
    /\ pc[t] = "p_next"
    /\ \/ /\ next[g(t)] # Null
          /\ Goto(t, "p_next", "p_help")
          /\ UNCHANGED <<frame, temps>>
       \/ /\ next[g(t)] = Null
          /\ Dequeue(t, "p_next", free(g(t)), "p_got")
    /\ UNCHANGED <<rings, list, guards, val, mine, pops, history>>

PushHelp(t) == /\ Goto(t, "p_help", "p_acq")
               /\ qtail' = IF qtail = g(t) THEN next[g(t)] ELSE qtail
               /\ Quiet /\ UNCHANGED <<qhead, next, storage, guards, val, mine, pops, history>>

\* The CAS of PushHelp is weak.
PushHelpFails(t) == /\ Goto(t, "p_help", "p_acq")
                    /\ Quiet /\ UNCHANGED <<list, guards, val, mine, pops, history>>

\* A free place: build the value there, then enqueue its index.
PushStore(t) == /\ pc[t] = "p_got" /\ ok[t]
                /\ SetPlace(g(t), arg[t], val[t])
                /\ Enqueue(t, "p_got", alloc(g(t)), arg[t], "p_enq")
                /\ UNCHANGED <<rings, qhead, qtail, next, guards, val, mine, pops, history>>

\* No free place: finalize the ring of allocated places.
PushFinalize(t) == /\ Goto(t, "p_got", "p_new") /\ ~ok[t]
                   /\ fin' = [fin EXCEPT ![alloc(g(t))] = TRUE]
                   /\ UNCHANGED <<head, tail, thr, data, frame, temps>>
                   /\ UNCHANGED <<list, guards, val, mine, pops, history>>

PushDone(t) == /\ pc[t] = "p_enq" /\ ok[t]
               /\ Finish(t, "p_enq")
               /\ PushEnds(val[t])
               /\ UNCHANGED list

\* The ring has been finalized: take the value back and free the place.
PushUndo(t) == /\ pc[t] = "p_enq" /\ ~ok[t]
               /\ SetPlace(g(t), arg[t], NoValue)
               /\ Enqueue(t, "p_enq", free(g(t)), arg[t], "p_back")
               /\ UNCHANGED <<rings, qhead, qtail, next, guards, val, mine, pops, history>>

PushUndone(t) == /\ Goto(t, "p_back", "p_new")
                 /\ Quiet /\ UNCHANGED <<list, guards, val, mine, pops, history>>

\* new node(value)
PushNew(t, m) ==
    /\ Goto(t, "p_new", "p_link")
    /\ R!Allocate(m)
    /\ mine' = [mine EXCEPT ![t] = m]
    /\ head' = [head EXCEPT ![alloc(m)] = FirstUsed.head, ![free(m)] = FirstEmpty.head]
    /\ tail' = [tail EXCEPT ![alloc(m)] = FirstUsed.tail, ![free(m)] = FirstEmpty.tail]
    /\ fin' = [fin EXCEPT ![alloc(m)] = FALSE]
    /\ thr' = [thr EXCEPT ![alloc(m)] = FirstUsed.thr, ![free(m)] = FirstEmpty.thr]
    /\ data' = [data EXCEPT ![alloc(m)] = FirstUsed.data, ![free(m)] = FirstEmpty.data]
    /\ storage' = [storage EXCEPT ![m] = [i \in Place |-> IF i = 0 THEN val[t] ELSE NoValue]]
    /\ next' = [next EXCEPT ![m] = Null]
    /\ UNCHANGED <<frame, temps, qhead, qtail, slot, pinned, val, pops, history>>

PushLink(t) == /\ Goto(t, "p_link", "p_swing")
               /\ next[g(t)] = Null
               /\ next' = [next EXCEPT ![g(t)] = mine[t]]
               /\ Quiet /\ UNCHANGED <<qhead, qtail, storage, guards, val, mine, pops, history>>

PushLinkFailsReturns(t) ==
    /\ pc[t] = "p_link" /\ next[g(t)] # Null
    /\ Finish(t, "p_link")
    /\ PushEnds(val[t])
    /\ SetPlace(mine[t], 0, NoValue)
    /\ UNCHANGED <<qhead, qtail, next>>

\* Another push was faster: steal_init_value, delete the node, start again.
PushLinkFails(t) == /\ Goto(t, "p_link", "p_acq")
                    /\ next[g(t)] # Null
                    /\ status' = [status EXCEPT ![mine[t]] = "free"]
                    /\ SetPlace(mine[t], 0, NoValue)
                    /\ mine' = [mine EXCEPT ![t] = Null]
                    /\ Quiet /\ UNCHANGED <<qhead, qtail, next, slot, pinned, val, pops, history>>

PushSwing(t) == /\ Finish(t, "p_swing")
                /\ qtail' = IF qtail = g(t) THEN mine[t] ELSE qtail
                /\ PushEnds(val[t])
                /\ UNCHANGED <<qhead, next, storage>>

-----------------------------------------------------------------------------
(* try_pop                                                                 *)

TryPop(t) == /\ Goto(t, "idle", "o_acq")
             /\ t \in Popper /\ pops < MaxPops
             /\ pops = 0 /\ EarlyPusher # {} => \A u \in Thread : pc[u] = "idle"
             /\ pops' = pops + 1
             /\ PopBegins(t)
             /\ Quiet /\ UNCHANGED <<list, guards, val, mine>>

PopAcquire(t) == /\ pc[t] = "o_acq"
                 /\ R!Publish(t, "n", qhead)
                 /\ Dequeue(t, "o_acq", alloc(qhead), "o_first")
                 /\ UNCHANGED <<rings, list, status, val, mine, pops, history>>

PopTake(t, from) == /\ pc[t] = from /\ ok[t]
                    /\ val' = [val EXCEPT ![t] = storage[g(t)][arg[t]]]
                    /\ SetPlace(g(t), arg[t], NoValue)
                    /\ Enqueue(t, from, free(g(t)), arg[t], "o_ret")
                    /\ UNCHANGED <<rings, qhead, qtail, next, guards, mine, pops, history>>

PopReturn(t) == /\ Finish(t, "o_ret")
                /\ PopEnds(t, {val[t]})
                /\ UNCHANGED list

PopFirstFails(t) == /\ Goto(t, "o_first", "o_next") /\ ~ok[t]
                    /\ Quiet /\ UNCHANGED <<list, guards, val, mine, pops, history>>

PopEmpty(t) == /\ pc[t] = "o_next" /\ next[g(t)] = Null
               /\ Finish(t, "o_next")
               /\ PopEnds(t, {})
               /\ UNCHANGED list

\* Node n has a successor: it is empty only if a second try fails, too.
PopNext(t) == /\ Goto(t, "o_next", "o_thr")
              /\ next[g(t)] # Null
              /\ Quiet /\ UNCHANGED <<list, guards, val, mine, pops, history>>

PopSetThreshold(t) ==
    /\ pc[t] = "o_thr"
    /\ thr' = [thr EXCEPT ![alloc(g(t))] = full]
    /\ Dequeue(t, "o_thr", alloc(g(t)), "o_second")
    /\ UNCHANGED <<head, tail, fin, data, list, guards, val, mine, pops, history>>

PopSecondFails(t) == /\ Goto(t, "o_second", "o_cas") /\ ~ok[t]
                     /\ Quiet /\ UNCHANGED <<list, guards, val, mine, pops, history>>

PopCas(t) == /\ Goto(t, "o_cas", "o_retire")
             /\ qhead = g(t)
             /\ qhead' = next[g(t)]
             /\ Quiet /\ UNCHANGED <<qtail, next, storage, guards, val, mine, pops, history>>

PopCasUnchecked(t) ==
    /\ Goto(t, "o_cas", "o_retire")
    /\ qhead # g(t) \/ head[alloc(g(t))] < MaxHead
    /\ Quiet /\ UNCHANGED <<list, guards, val, mine, pops, history>>

\* Another try_pop has moved _head, or the weak CAS just fails.
PopCasFails(t) == /\ Goto(t, "o_cas", "o_acq")
                  /\ qhead # g(t) \/ head[alloc(g(t))] < MaxHead
                  /\ Quiet /\ UNCHANGED <<list, guards, val, mine, pops, history>>

\* n.reclaim() resets the guard, then retires the node.
PopRetire(t) == /\ Goto(t, "o_retire", "o_acq")
                /\ status' = [status EXCEPT ![g(t)] = "retired"]
                /\ slot' = [slot EXCEPT ![t]["n"] = Null]
                /\ pinned' = (pinned \union R!Holders(g(t))) \ {<<t, "n">>}
                /\ Quiet /\ UNCHANGED <<list, val, mine, pops, history>>

\* The scheme deletes a node; ~node destroys what its ring still holds.
ReclaimNode(m) == /\ R!Reclaim(m)
                  /\ storage' = [storage EXCEPT ![m] = [i \in Place |-> NoValue]]
                  /\ Quiet /\ UNCHANGED <<pc, qhead, qtail, next, slot, pinned, val, mine, pops,
                                          history>>

-----------------------------------------------------------------------------
PushStep(t) ==
    \/ \E v \in Value : Push(t, v)
    \/ PushAcquire(t) \/ PushNext(t) \/ PushHelp(t) \/ PushHelpFails(t) \/ PushStore(t)
    \/ PushFinalize(t) \/ PushDone(t) \/ PushUndo(t) \/ PushUndone(t)
    \/ \E m \in Node : PushNew(t, m)
    \/ PushLink(t) \/ PushLinkFails(t) \/ PushSwing(t)

PopStep(t) ==
    \/ TryPop(t) \/ PopAcquire(t) \/ PopTake(t, "o_first") \/ PopTake(t, "o_second")
    \/ PopReturn(t) \/ PopFirstFails(t) \/ PopEmpty(t) \/ PopNext(t) \/ PopSetThreshold(t)
    \/ PopSecondFails(t) \/ PopCas(t) \/ PopCasFails(t) \/ PopRetire(t)

RingStep(t) == /\ EnqStep(t) \/ DeqStep(t)
               /\ UNCHANGED <<list, guards, val, mine, pops, history>>

Next == \/ \E t \in Thread : PushStep(t) \/ PopStep(t) \/ RingStep(t)
        \/ \E m \in Node : ReclaimNode(m)

Spec == Init /\ [][Next]_vars

-----------------------------------------------------------------------------
(* Properties                                                              *)

\* No thread touches a deleted node: the node of its guard exists from
\* acquire() to the end of its use (push, try_pop).
MemorySafe == \A t \in Thread : g(t) # Null => status[g(t)] # "free"

\* The nodes from _head on
RECURSIVE From(_, _)
From(m, k) == IF m = Null \/ k = 0 THEN {} ELSE {m} \union From(next[m], k - 1)
Chain == From(qhead, Cardinality(Node))

Taken(m, i) == \E t \in Thread : /\ pc[t] \in {"o_first", "o_second"} /\ ok[t]
                                 /\ g(t) = m /\ arg[t] = i

\* The entry j is one that some try_pop will look at: it is not behind the head
\* of a node in use, or its dequeue is under way.
WillBeMet(m, j) == LET p == position(alloc(m), j) IN
    (m \in Chain /\ p >= head[alloc(m)]) \/ Coming(alloc(m), p)

\* A value whose push has returned is what some try_pop has in its hands, or
\* lies at a place that some try_pop will come to (push, try_pop, finalize).
NothingLost == \A v \in pushed \ popped :
    \/ \E t \in Thread : val[t] = v
    \/ \E m \in Node, i \in Place :
          /\ storage[m][i] = v
          /\ \/ Taken(m, i)
             \/ \E j \in 0..(n - 1) : data[alloc(m)][j].val = i /\ WillBeMet(m, j)

InEntry(m, i) == {e \in {alloc(m), free(m)} \X (0..(n - 1)) : data[e[1]][e[2]].val = i}
HandPC == {"p_got", "p_enq", "o_first", "o_second", "e_ticket", "e_load", "e_head", "e_cas"}
InHand(m, i) == {t \in Thread : g(t) = m /\ arg[t] = i /\ pc[t] \in HandPC
                                 /\ ~(pc[t] = "p_enq" /\ ok[t])}

\* A place of a node in use is in exactly one entry of its rings, or in the
\* hands of exactly one thread: no two threads write to the same storage.
IndexOnce == \A m \in Chain :
    \A i \in Place : Cardinality(InEntry(m, i)) + Cardinality(InHand(m, i)) = 1

PopPC == {"o_acq", "o_first", "o_next", "o_thr", "o_second", "o_ret", "o_cas", "o_retire"}

\* try_pop does not return false while a value is there that nobody takes.
EmptyIsTrue == \A t \in Thread : pc[t] = "o_next" /\ next[g(t)] = Null =>
    MayReturnFalse(t, {u \in Thread \ {t} : pc[u] \in PopPC \/ back[u] \in PopPC})
=============================================================================
