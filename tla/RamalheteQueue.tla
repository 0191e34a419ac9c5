--------------------------- MODULE RamalheteQueue ---------------------------
(***************************************************************************)
(* xenium::ramalhete_queue (src/xenium/ramalhete_queue.hpp), the unbounded *)
(* queue of arrays: a push takes an index of the last node by fetch_add    *)
(* and stores its value there, a try_pop takes an index of the first node  *)
(* and reads.  A try_pop that comes before its push spoils the entry, and  *)
(* both go on to another index.  A node whose indexes are used up gets a   *)
(* successor, and is retired when _head leaves it.                         *)
(*                                                                         *)
(* As in module NikolaevQueue, acquire() is one step and the guard is      *)
(* worth what module Reclaimer promises.  The reads that try_pop repeats   *)
(* pop_retries times are one read that it may give up on finding nothing.  *)
(***************************************************************************)
EXTENDS QueueHistory, FiniteSets, Naturals

CONSTANTS Thread, Node, Null,
          EntriesPerNode,
          Value, NoValue, Spoiled,  \* Spoiled: marked_value(nullptr, 1)
          Pusher, Popper,           \* the threads that push, and those that pop
          EarlyPusher,              \* those of Pusher that push before the first try_pop
                                    \* only, which then waits for all that push
          MaxPops                   \* bound for TLC: the number of calls of try_pop

ASSUME NodeAssumption == Node # {} /\ IsFiniteSet(Node) /\ Null \notin Node
ASSUME EntriesAssumption == EntriesPerNode \in Nat \ {0}
ASSUME ValueAssumption == NoValue \notin Value /\ Spoiled \notin Value \union {NoValue}
ASSUME RoleAssumption == EarlyPusher \subseteq Pusher /\ Pusher \union Popper \subseteq Thread

VARIABLES qhead, qtail,           \* _head and _tail of the queue
          next,                   \* next[m]
          entries,                \* entries[m][i].value
          push_idx, pop_idx,      \* of node m, in steps of step_size
          status, slot, pinned,   \* as in module Reclaimer; slot[t]["n"] is t or h
          pc,
          idx,                    \* idx[t]: idx, or the pop_idx a try_pop has read
          val,                    \* val[t]: value or result
          mine,                   \* mine[t]: new_node
          pops,                   \* the number of calls of try_pop
          deleted                 \* deleted[v]: how often a destructor has deleted v

R == INSTANCE Reclaimer WITH Slot <- {"n"}

nodes == <<qhead, qtail, next, entries, push_idx, pop_idx>>
guards == <<status, slot, pinned>>
vars == <<nodes, guards, pc, idx, val, mine, pops, deleted, history>>

step_size == 11
max_idx == step_size * EntriesPerNode
Place == 0..(EntriesPerNode - 1)
place(i) == i % EntriesPerNode

PC == {"idle", "p_acq", "p_idx", "p_tail", "p_next", "p_link", "p_swing", "p_help", "p_cas",
       "o_acq", "o_load", "o_check", "o_empty", "o_idx", "o_next", "o_cas", "o_retire",
       "o_read", "o_spoil", "o_ret", "destroy"}

TypeOK == /\ qhead \in Node \union {Null} /\ qtail \in Node
          /\ next \in [Node -> Node \union {Null}]
          /\ entries \in [Node -> [Place -> Value \union {NoValue, Spoiled}]]
          /\ push_idx \in [Node -> Nat] /\ pop_idx \in [Node -> Nat]
          /\ R!RTypeOK
          /\ pc \in [Thread -> PC]
          /\ idx \in [Thread -> Nat]
          /\ val \in [Thread -> Value \union {NoValue}]
          /\ mine \in [Thread -> Node \union {Null}]
          /\ pops \in 0..MaxPops
          /\ deleted \in [Value -> Nat]
          /\ HistoryTypeOK(Thread, Value)

g(t) == slot[t]["n"]

Init == LET m0 == CHOOSE m \in Node : TRUE IN
        /\ qhead = m0 /\ qtail = m0
        /\ next = [m \in Node |-> Null]
        /\ entries = [m \in Node |-> [i \in Place |-> NoValue]]
        /\ push_idx = [m \in Node |-> 0] /\ pop_idx = [m \in Node |-> 0]
        /\ status = [m \in Node |-> IF m = m0 THEN "live" ELSE "free"]
        /\ slot = [t \in Thread |-> [s \in {"n"} |-> Null]]
        /\ pinned = {}
        /\ pc = [t \in Thread |-> "idle"]
        /\ idx = [t \in Thread |-> 0]
        /\ val = [t \in Thread |-> NoValue]
        /\ mine = [t \in Thread |-> Null]
        /\ pops = 0 /\ deleted = [v \in Value |-> 0]
        /\ HistoryInit(Thread)

Closed == \E t \in Thread : pc[t] = "destroy"

Goto(t, from, to) == pc[t] = from /\ pc' = [pc EXCEPT ![t] = to]
Set(t, i) == idx' = [idx EXCEPT ![t] = i]

\* The operation of thread t has returned; its guard goes out of scope.
Finish(t, from) == /\ Goto(t, from, "idle")
                   /\ R!Release(t, {"n"})
                   /\ Set(t, 0)
                   /\ val' = [val EXCEPT ![t] = NoValue]
                   /\ mine' = [mine EXCEPT ![t] = Null]
                   /\ UNCHANGED <<status, pops, deleted>>

Quiet == UNCHANGED <<val, mine, pops, deleted, history>>

-----------------------------------------------------------------------------
(* push                                                                    *)

Push(t, v) == /\ Goto(t, "idle", "p_acq")
              /\ t \in Pusher /\ ~Closed /\ (t \in EarlyPusher => pops = 0)
              /\ v \notin pushed /\ \A u \in Thread : val[u] # v
              /\ val' = [val EXCEPT ![t] = v]
              /\ PushBegins(v)
              /\ UNCHANGED <<nodes, guards, idx, mine, pops, deleted>>

PushAcquire(t) == /\ Goto(t, "p_acq", "p_idx")
                  /\ R!Publish(t, "n", qtail)
                  /\ Quiet /\ UNCHANGED <<nodes, status, idx>>

\* push_idx.fetch_add: an index of this node, or none is left
PushIdx(t) == /\ Goto(t, "p_idx", IF push_idx[g(t)] >= max_idx THEN "p_tail" ELSE "p_cas")
              /\ Set(t, push_idx[g(t)])
              /\ push_idx' = [push_idx EXCEPT ![g(t)] = @ + step_size]
              /\ Quiet /\ UNCHANGED <<qhead, qtail, next, entries, pop_idx, guards>>

\* Somebody else may have added a node since.
PushTail(t) == /\ Goto(t, "p_tail", IF qtail = g(t) THEN "p_next" ELSE "p_acq")
               /\ Quiet /\ UNCHANGED <<nodes, guards, idx>>

\* new node(raw_val), with the value in its first entry
PushNew(t, m) ==
    /\ Goto(t, "p_next", "p_link")
    /\ next[g(t)] = Null
    /\ R!Allocate(m)
    /\ mine' = [mine EXCEPT ![t] = m]
    /\ entries' = [entries EXCEPT ![m] = [i \in Place |-> IF i = 0 THEN val[t] ELSE NoValue]]
    /\ push_idx' = [push_idx EXCEPT ![m] = step_size]
    /\ pop_idx' = [pop_idx EXCEPT ![m] = 0]
    /\ next' = [next EXCEPT ![m] = Null]
    /\ UNCHANGED <<qhead, qtail, slot, pinned, idx, val, pops, deleted, history>>

PushMustHelp(t) == /\ Goto(t, "p_next", "p_help")
                   /\ next[g(t)] # Null
                   /\ Quiet /\ UNCHANGED <<nodes, guards, idx>>

SwingTail(t, m) == qtail' = IF qtail = g(t) THEN m ELSE qtail

PushHelp(t) == /\ Goto(t, "p_help", "p_acq")
               /\ SwingTail(t, next[g(t)])
               /\ Quiet /\ UNCHANGED <<qhead, next, entries, push_idx, pop_idx, guards, idx>>

PushLink(t) == /\ Goto(t, "p_link", "p_swing")
               /\ next[g(t)] = Null
               /\ next' = [next EXCEPT ![g(t)] = mine[t]]
               /\ Quiet /\ UNCHANGED <<qhead, qtail, entries, push_idx, pop_idx, guards, idx>>

\* Another push was faster: empty the new node, delete it and start again.
PushLinkFails(t) == /\ Goto(t, "p_link", "p_acq")
                    /\ next[g(t)] # Null
                    /\ status' = [status EXCEPT ![mine[t]] = "free"]
                    /\ entries' = [entries EXCEPT ![mine[t]] = [i \in Place |-> NoValue]]
                    /\ push_idx' = [push_idx EXCEPT ![mine[t]] = 0]
                    /\ mine' = [mine EXCEPT ![t] = Null]
                    /\ UNCHANGED <<qhead, qtail, next, pop_idx, slot, pinned, idx, val, pops,
                                   deleted, history>>

PushSwingOmitted(t) == /\ Finish(t, "p_swing")
                       /\ PushEnds(val[t])
                       /\ UNCHANGED nodes

PushSwing(t) == /\ Finish(t, "p_swing")
                /\ SwingTail(t, mine[t])
                /\ PushEnds(val[t])
                /\ UNCHANGED <<qhead, next, entries, push_idx, pop_idx>>

Entry(t) == entries[g(t)][place(idx[t])]
SetEntry(t, v) == entries' = [entries EXCEPT ![g(t)][place(idx[t])] = v]

PushCas(t) == /\ Finish(t, "p_cas")
              /\ Entry(t) = NoValue
              /\ SetEntry(t, val[t])
              /\ PushEnds(val[t])
              /\ UNCHANGED <<qhead, qtail, next, push_idx, pop_idx>>

\* A try_pop has spoiled the entry.
PushCasFails(t) == /\ Goto(t, "p_cas", "p_acq")
                   /\ Entry(t) # NoValue
                   /\ Quiet /\ UNCHANGED <<nodes, guards, idx>>

-----------------------------------------------------------------------------
(* try_pop                                                                 *)

TryPop(t) == /\ Goto(t, "idle", "o_acq")
             /\ t \in Popper /\ ~Closed /\ pops < MaxPops
             /\ pops = 0 /\ EarlyPusher # {} => \A u \in Thread : pc[u] = "idle"
             /\ pops' = pops + 1
             /\ PopBegins(t)
             /\ UNCHANGED <<nodes, guards, idx, val, mine, deleted>>

PopAcquire(t) == /\ Goto(t, "o_acq", "o_load")
                 /\ R!Publish(t, "n", qhead)
                 /\ Quiet /\ UNCHANGED <<nodes, status, idx>>

PopLoad(t) == /\ Goto(t, "o_load", "o_check")
              /\ Set(t, pop_idx[g(t)])
              /\ Quiet /\ UNCHANGED <<nodes, guards>>

PopCheckOneLess(t) ==
    /\ Goto(t, "o_check", IF idx[t] + step_size >= push_idx[g(t)] THEN "o_empty" ELSE "o_idx")
    /\ Quiet /\ UNCHANGED <<nodes, guards, idx>>

\* Not more indexes taken by push than by try_pop: there may be a next node.
PopCheck(t) == /\ Goto(t, "o_check", IF idx[t] >= push_idx[g(t)] THEN "o_empty" ELSE "o_idx")
               /\ Quiet /\ UNCHANGED <<nodes, guards, idx>>

PopNotEmpty(t) == /\ Goto(t, "o_empty", "o_idx")
                  /\ next[g(t)] # Null
                  /\ Quiet /\ UNCHANGED <<nodes, guards, idx>>

PopEmpty(t, from) == /\ Finish(t, from)
                     /\ next[g(t)] = Null
                     /\ PopEnds(t, {})
                     /\ UNCHANGED nodes

PopIdxLoaded(t) == /\ Goto(t, "o_idx", IF idx[t] >= max_idx THEN "o_next" ELSE "o_read")
                   /\ pop_idx' = [pop_idx EXCEPT ![g(t)] = idx[t] + step_size]
                   /\ Quiet /\ UNCHANGED <<qhead, qtail, next, entries, push_idx, guards, idx>>

PopIdx(t) == /\ Goto(t, "o_idx", IF pop_idx[g(t)] >= max_idx THEN "o_next" ELSE "o_read")
             /\ Set(t, pop_idx[g(t)])
             /\ pop_idx' = [pop_idx EXCEPT ![g(t)] = @ + step_size]
             /\ Quiet /\ UNCHANGED <<qhead, qtail, next, entries, push_idx, guards>>

PopNext(t) == /\ Goto(t, "o_next", "o_cas")
              /\ next[g(t)] # Null
              /\ Quiet /\ UNCHANGED <<nodes, guards, idx>>

PopCas(t) == /\ Goto(t, "o_cas", "o_retire")
             /\ qhead = g(t)
             /\ qhead' = next[g(t)]
             /\ Quiet /\ UNCHANGED <<qtail, next, entries, push_idx, pop_idx, guards, idx>>

\* Another try_pop has moved _head.
PopCasFails(t) == /\ Goto(t, "o_cas", "o_acq")
                  /\ qhead # g(t)
                  /\ Quiet /\ UNCHANGED <<nodes, guards, idx>>

\* h.reclaim() resets the guard, then retires the node.
PopRetire(t) == /\ Goto(t, "o_retire", "o_acq")
                /\ status' = [status EXCEPT ![g(t)] = "retired"]
                /\ slot' = [slot EXCEPT ![t]["n"] = Null]
                /\ pinned' = (pinned \union R!Holders(g(t))) \ {<<t, "n">>}
                /\ Quiet /\ UNCHANGED <<nodes, idx>>

PopFound(t, from) == /\ Goto(t, from, "o_ret")
                     /\ Entry(t) # NoValue
                     /\ val' = [val EXCEPT ![t] = Entry(t)]
                     /\ UNCHANGED <<guards, idx, mine, pops, deleted, history>>

PopRead(t) == /\ PopFound(t, "o_read")
              /\ UNCHANGED nodes

PopGiveUp(t) == /\ Goto(t, "o_read", "o_spoil")
                /\ Entry(t) = NoValue
                /\ Quiet /\ UNCHANGED <<nodes, guards, idx>>

\* exchange(marked_value(nullptr, 1)): the push was late, or comes too late.
PopSpoilFinds(t) == /\ PopFound(t, "o_spoil")
                    /\ SetEntry(t, Spoiled)
                    /\ UNCHANGED <<qhead, qtail, next, push_idx, pop_idx>>

PopLeaves(t) == /\ Goto(t, "o_spoil", "o_acq")
                /\ Entry(t) = NoValue
                /\ Quiet /\ UNCHANGED <<nodes, guards, idx>>

PopSpoil(t) == /\ Goto(t, "o_spoil", "o_acq")
               /\ Entry(t) = NoValue
               /\ SetEntry(t, Spoiled)
               /\ Quiet /\ UNCHANGED <<qhead, qtail, next, push_idx, pop_idx, guards, idx>>

PopReturn(t) == /\ Finish(t, "o_ret")
                /\ PopEnds(t, {val[t]})
                /\ UNCHANGED nodes

-----------------------------------------------------------------------------
(* The destructors                                                         *)

\* ~node of m deletes the entries of its indexes from pop_idx up to push_idx.
DeleteRemaining(m) ==
    LET Met(v) == {i \in pop_idx[m]..(push_idx[m] - 1) :
                      (i - pop_idx[m]) % step_size = 0 /\ entries[m][place(i)] = v}
    IN  deleted' = [v \in Value |-> deleted[v] + Cardinality(Met(v))]

DeleteNode(m) == /\ DeleteRemaining(m)
                 /\ status' = [status EXCEPT ![m] = "free"]
                 /\ entries' = [entries EXCEPT ![m] = [i \in Place |-> NoValue]]
                 /\ push_idx' = [push_idx EXCEPT ![m] = 0]
                 /\ pop_idx' = [pop_idx EXCEPT ![m] = 0]
                 /\ UNCHANGED <<qtail, next, slot, idx, val, mine, pops, history>>

\* The scheme deletes a node that has been retired.
ReclaimNode(m) == /\ R!Reclaim(m)
                  /\ DeleteNode(m)
                  /\ UNCHANGED <<qhead, pinned, pc>>

\* ~ramalhete_queue runs when no operation does, and deletes node by node.
Destroy(t) == /\ \A u \in Thread : pc[u] = "idle"
              /\ Goto(t, "idle", "destroy")
              /\ UNCHANGED <<nodes, guards, idx>> /\ Quiet

DestroyNode(t) == /\ pc[t] = "destroy" /\ qhead # Null
                  /\ qhead' = next[qhead]
                  /\ DeleteNode(qhead)
                  /\ UNCHANGED <<pinned, pc>>

PushStep(t) ==
    \/ \E v \in Value : Push(t, v)
    \/ PushAcquire(t) \/ PushIdx(t) \/ PushTail(t) \/ PushMustHelp(t) \/ PushHelp(t)
    \/ \E m \in Node : PushNew(t, m)
    \/ PushLink(t) \/ PushLinkFails(t) \/ PushSwing(t) \/ PushCas(t) \/ PushCasFails(t)

PopStep(t) ==
    \/ TryPop(t) \/ PopAcquire(t) \/ PopLoad(t) \/ PopCheck(t) \/ PopNotEmpty(t)
    \/ PopEmpty(t, "o_empty") \/ PopEmpty(t, "o_next") \/ PopIdx(t) \/ PopNext(t)
    \/ PopCas(t) \/ PopCasFails(t) \/ PopRetire(t) \/ PopRead(t) \/ PopGiveUp(t)
    \/ PopSpoilFinds(t) \/ PopSpoil(t) \/ PopReturn(t)

Next == \/ \E t \in Thread : PushStep(t) \/ PopStep(t) \/ Destroy(t) \/ DestroyNode(t)
        \/ \E m \in Node : ReclaimNode(m)

Spec == Init /\ [][Next]_vars

-----------------------------------------------------------------------------
(* Properties                                                              *)

\* No thread touches a deleted node: the node of its guard exists from
\* acquire() to the end of its use (push, try_pop).
MemorySafe == \A t \in Thread : g(t) # Null => status[g(t)] # "free"

\* The nodes from _head on
Chain == LET at[i \in 0..Cardinality(Node)] ==
                   IF i = 0 THEN qhead ELSE IF at[i - 1] = Null THEN Null ELSE next[at[i - 1]]
         IN {at[i] : i \in DOMAIN at} \ {Null}

\* The try_pop of t has taken the index of entry i of node m.
TakenBy(t, m, i) == pc[t] \in {"o_read", "o_spoil"} /\ g(t) = m /\ place(idx[t]) = i
AtIndex(m, i) == CHOOSE k \in 0..(max_idx - 1) : k % step_size = 0 /\ place(k) = i

\* A value whose push has returned and that no try_pop has returned yet is in
\* the hands of a try_pop, or in an entry whose index a try_pop holds or will
\* still be given, until ~ramalhete_queue deletes it (push 207, try_pop 277).
NothingLost == \A v \in pushed \ popped :
    \/ Closed /\ deleted[v] > 0
    \/ \E t \in Thread : val[t] = v
    \/ \E m \in Node, i \in Place :
          /\ entries[m][i] = v
          /\ \/ \E t \in Thread : TakenBy(t, m, i)
             \/ m \in Chain /\ AtIndex(m, i) >= pop_idx[m]

\* The queue is first in, first out, and gives no value twice: what a try_pop
\* is about to return is new, and nothing pushed after it had left before.
InOrder == \A t \in Thread : pc[t] = "o_ret" => MayReturn(t, val[t])

\* try_pop returns false only if every value that was there when it began is
\* popped, or is one that another try_pop has taken (try_pop 235 and 245).
EmptyIsTrue ==
    \A t \in Thread : pc[t] \in {"o_empty", "o_next"} /\ next[g(t)] = Null =>
        \A v \in due[t] \ popped : \E u \in Thread \ {t} :
            \/ val[u] = v
            \/ \E m \in Node, i \in Place : entries[m][i] = v /\ TakenBy(u, m, i)

\* A value is given to one owner: the destructors delete what no try_pop has
\* handed out, and delete it once (~node 131, with a std::unique_ptr as T).
DeletedOnce == \A v \in Value : deleted[v] + (IF v \in popped THEN 1 ELSE 0) <= 1
=============================================================================
