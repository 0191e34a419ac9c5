------------------------------ MODULE MSQueue ------------------------------
(***************************************************************************)
(* xenium::michael_scott_queue (src/xenium/michael_scott_queue.hpp) on top *)
(* of a reclamation scheme that keeps the promise of module Reclaimer.     *)
(*                                                                         *)
(* Every read, write and compare-and-swap of shared memory is one step of  *)
(* one thread.  acquire() of a guard is three steps -- read the source,    *)
(* publish, read the source again -- because a node can be unlinked,       *)
(* retired, deleted and allocated again between any two of them.           *)
(* compare_exchange_weak may fail for no reason (action ..Fails).          *)
(*                                                                         *)
(* chain and sawEmpty are history variables: no action reads them.         *)
(***************************************************************************)
EXTENDS Reclaimer, Sequences, FiniteSets

CONSTANTS Producers,  \* the threads that call push
          Consumers,  \* the threads that call try_pop
          Running,    \* the threads that never stop inside an operation
          Value, NoValue

ASSUME RoleAssumption == Producers \subseteq Thread /\ Consumers \subseteq Thread
ASSUME RunningAssumption == Running \subseteq Thread
ASSUME SlotAssumption == Slot = {"anchor", "next"}
ASSUME ValueAssumption == NoValue \notin Value

VARIABLES
  head, tail,  \* _head and _tail; in the destructor, head is its cursor n
  next, val,   \* the members _next and _value of each node
  open,        \* FALSE once the destructor has been entered
  pc,          \* where thread t is
  node,        \* push: the node n it allocated
  cur,         \* the last pointer read: p1 of acquire(), next in push
  old,         \* try_pop: the node it has unlinked
  res,         \* try_pop: the value it has taken
  chain,       \* history: the nodes of the list, the dummy first
  sawEmpty     \* history: the threads whose try_pop has met an empty queue

shared == <<head, tail, next, val, open>>
locals == <<node, cur, old, res>>
vars == <<rvars, shared, pc, locals, chain, sawEmpty>>

PushPC == {"p_load", "p_publish", "p_validate", "p_next", "p_help", "p_link", "p_swing"}
PopPC == {"o_load", "o_publish", "o_validate", "o_nload", "o_npublish", "o_nvalidate",
          "o_check", "o_tail", "o_help", "o_cas"}
DonePC == {"o_value", "o_retire", "o_empty"}

TypeOK ==
    /\ RTypeOK
    /\ head \in Node \union {Null} /\ tail \in Node
    /\ next \in [Node -> Node \union {Null}]
    /\ val \in [Node -> Value \union {NoValue}]
    /\ open \in BOOLEAN
    /\ pc \in [Thread -> {"idle"} \union PushPC \union PopPC \union DonePC]
    /\ node \in [Thread -> Node \union {Null}]
    /\ cur \in [Thread -> Node \union {Null}]
    /\ old \in [Thread -> Node \union {Null}]
    /\ res \in [Thread -> Value \union {NoValue}]
    /\ chain \in Seq(Node)
    /\ sawEmpty \in SUBSET Thread

\* The constructor: one dummy node, with a default value.
Init ==
    /\ slot = [t \in Thread |-> [s \in Slot |-> Null]]
    /\ pinned = {}
    /\ head \in Node
    /\ tail = head
    /\ status = [n \in Node |-> IF n = head THEN "live" ELSE "free"]
    /\ next = [n \in Node |-> Null]
    /\ val = [n \in Node |-> NoValue]
    /\ open = TRUE
    /\ pc = [t \in Thread |-> "idle"]
    /\ node = [t \in Thread |-> Null]
    /\ cur = [t \in Thread |-> Null]
    /\ old = [t \in Thread |-> Null]
    /\ res = [t \in Thread |-> NoValue]
    /\ chain = <<head>>
    /\ sawEmpty = {}

Goto(t, from, to) == pc[t] = from /\ pc' = [pc EXCEPT ![t] = to]

anchor(t) == slot[t]["anchor"]  \* guard t of push, guard h of try_pop
nextg(t) == slot[t]["next"]     \* guard next of try_pop

-----------------------------------------------------------------------------
(* guard_ptr::acquire(src), with the pc values of its caller.              *)

\* The first read: nothing to do if the guard already has the pointer, and a
\* null pointer resets it (publishing what is there already changes nothing).
AcquireLoad(t, s, src, here, publish, done) ==
    /\ pc[t] = here
    /\ IF src \in {slot[t][s], Null}
       THEN /\ Goto(t, here, done)
            /\ Publish(t, s, src)
            /\ UNCHANGED cur
       ELSE /\ Goto(t, here, publish)
            /\ cur' = [cur EXCEPT ![t] = src]
            /\ UNCHANGED <<slot, pinned>>

AcquirePublish(t, s, here, validate) ==
    /\ Goto(t, here, validate)
    /\ Publish(t, s, cur[t])
    /\ UNCHANGED cur

\* The second read: the guard counts only if the source has not changed.
AcquireValidate(t, s, src, here, publish, done) ==
    /\ pc[t] = here
    /\ IF src \in {cur[t], Null}
       THEN /\ Goto(t, here, done)
            /\ cur' = [cur EXCEPT ![t] = Null]
            /\ Publish(t, s, src)
       ELSE /\ Goto(t, here, publish)
            /\ cur' = [cur EXCEPT ![t] = src]
            /\ UNCHANGED <<slot, pinned>>

-----------------------------------------------------------------------------
(* push(value)                                                             *)

Push(t, n, v) ==
    /\ t \in Producers /\ open
    /\ Goto(t, "idle", "p_load")
    /\ Allocate(n)
    /\ next' = [next EXCEPT ![n] = Null]
    /\ val' = [val EXCEPT ![n] = v]
    /\ node' = [node EXCEPT ![t] = n]
    /\ UNCHANGED <<slot, pinned, head, tail, open, cur, old, res, chain, sawEmpty>>

PushLoad(t) == /\ AcquireLoad(t, "anchor", tail, "p_load", "p_publish", "p_next")
               /\ UNCHANGED <<status, shared, node, old, res, chain, sawEmpty>>

PushPublish(t) == /\ AcquirePublish(t, "anchor", "p_publish", "p_validate")
                  /\ UNCHANGED <<status, shared, node, old, res, chain, sawEmpty>>

\* Mutant: the pointer is not read again after it was published.
PushValidateUnchecked(t) ==
    /\ Goto(t, "p_validate", "p_next")
    /\ cur' = [cur EXCEPT ![t] = Null]
    /\ UNCHANGED <<rvars, shared, node, old, res, chain, sawEmpty>>

PushValidate(t) ==
    /\ AcquireValidate(t, "anchor", tail, "p_validate", "p_publish", "p_next")
    /\ UNCHANGED <<status, shared, node, old, res, chain, sawEmpty>>

\* auto next = t->_next.load()
PushNext(t) == /\ Goto(t, "p_next", IF next[anchor(t)] = Null THEN "p_link" ELSE "p_help")
               /\ cur' = [cur EXCEPT ![t] = next[anchor(t)]]
               /\ UNCHANGED <<rvars, shared, node, old, res, chain, sawEmpty>>

\* Mutant: push waits for the other thread to swing _tail.
PushHelpOmitted(t) == /\ tail = anchor(t)
                      /\ Goto(t, "p_help", "p_load")
                      /\ cur' = [cur EXCEPT ![t] = Null]
                      /\ UNCHANGED <<rvars, shared, node, old, res, chain, sawEmpty>>

\* _tail.compare_exchange_weak(t, next)
PushHelp(t) == /\ tail = anchor(t)
               /\ Goto(t, "p_help", "p_load")
               /\ tail' = cur[t]
               /\ cur' = [cur EXCEPT ![t] = Null]
               /\ UNCHANGED <<rvars, head, next, val, open, node, old, res, chain, sawEmpty>>

PushHelpFails(t) == /\ Goto(t, "p_help", "p_load")
                    /\ cur' = [cur EXCEPT ![t] = Null]
                    /\ UNCHANGED <<rvars, shared, node, old, res, chain, sawEmpty>>

\* The CAS that links the node into the list: here the push takes effect.
PushLink(t) ==
    /\ Goto(t, "p_link", "p_swing")
    /\ next[anchor(t)] = Null
    /\ next' = [next EXCEPT ![anchor(t)] = node[t]]
    /\ chain' = Append(chain, node[t])
    /\ UNCHANGED <<rvars, head, tail, val, open, locals, sawEmpty>>

PushLinkFails(t) == /\ Goto(t, "p_link", "p_load")
                    /\ UNCHANGED <<rvars, shared, locals, chain, sawEmpty>>

\* _tail.compare_exchange_strong(t, n), then guard t goes out of scope.
PushSwing(t) ==
    /\ Goto(t, "p_swing", "idle")
    /\ tail' = IF tail = anchor(t) THEN node[t] ELSE tail
    /\ Release(t, {"anchor"})
    /\ node' = [node EXCEPT ![t] = Null]
    /\ UNCHANGED <<status, head, next, val, open, cur, old, res, chain, sawEmpty>>

-----------------------------------------------------------------------------
(* try_pop(result)                                                         *)

TryPop(t) == /\ t \in Consumers /\ open
             /\ Goto(t, "idle", "o_load")
             /\ sawEmpty' = IF Len(chain) = 1 THEN sawEmpty \union {t} ELSE sawEmpty
             /\ UNCHANGED <<rvars, shared, locals, chain>>

PopLoad(t) == /\ AcquireLoad(t, "anchor", head, "o_load", "o_publish", "o_nload")
              /\ UNCHANGED <<status, shared, node, old, res, chain, sawEmpty>>

PopPublish(t) == /\ AcquirePublish(t, "anchor", "o_publish", "o_validate")
                 /\ UNCHANGED <<status, shared, node, old, res, chain, sawEmpty>>

PopValidate(t) ==
    /\ AcquireValidate(t, "anchor", head, "o_validate", "o_publish", "o_nload")
    /\ UNCHANGED <<status, shared, node, old, res, chain, sawEmpty>>

\* auto next = acquire_guard(h->_next), in the same three steps.
PopNextLoad(t) ==
    /\ AcquireLoad(t, "next", next[anchor(t)], "o_nload", "o_npublish", "o_check")
    /\ UNCHANGED <<status, shared, node, old, res, chain, sawEmpty>>

PopNextPublish(t) == /\ AcquirePublish(t, "next", "o_npublish", "o_nvalidate")
                     /\ UNCHANGED <<status, shared, node, old, res, chain, sawEmpty>>

PopNextValidate(t) ==
    /\ AcquireValidate(t, "next", next[anchor(t)], "o_nvalidate", "o_npublish", "o_check")
    /\ UNCHANGED <<status, shared, node, old, res, chain, sawEmpty>>

\* Leave the body of the loop: guard next goes out of scope, guard h stays.
Retry(t, from) == Goto(t, from, "o_load") /\ Release(t, {"next"})

\* _head has moved since h was acquired: next may be anything.
PopStale(t) == /\ head # anchor(t)
               /\ Retry(t, "o_check")
               /\ UNCHANGED <<status, shared, locals, chain, sawEmpty>>

\* return false
PopEmpty(t) == /\ head = anchor(t) /\ nextg(t) = Null
               /\ Goto(t, "o_check", "o_empty")
               /\ sawEmpty' = sawEmpty \ {t}
               /\ UNCHANGED <<rvars, shared, locals, chain>>

PopCheck(t) == /\ head = anchor(t) /\ nextg(t) # Null
               /\ Goto(t, "o_check", "o_tail")
               /\ UNCHANGED <<rvars, shared, locals, chain, sawEmpty>>

\* Mutant: _head and _tail are not compared.
PopTailIgnored(t) == /\ Goto(t, "o_tail", "o_cas")
                     /\ UNCHANGED <<rvars, shared, locals, chain, sawEmpty>>

\* marked_ptr t = _tail.load()
PopTail(t) == /\ Goto(t, "o_tail", IF tail = anchor(t) THEN "o_help" ELSE "o_cas")
              /\ UNCHANGED <<rvars, shared, locals, chain, sawEmpty>>

\* Mutant: try_pop waits for the other thread to swing _tail.
PopHelpOmitted(t) == /\ tail = anchor(t)
                     /\ Retry(t, "o_help")
                     /\ UNCHANGED <<status, shared, locals, chain, sawEmpty>>

\* _tail.compare_exchange_weak(h, next)
PopHelp(t) == /\ tail = anchor(t)
              /\ Retry(t, "o_help")
              /\ tail' = nextg(t)
              /\ UNCHANGED <<status, head, next, val, open, locals, chain, sawEmpty>>

PopHelpFails(t) == /\ Retry(t, "o_help")
                   /\ UNCHANGED <<status, shared, locals, chain, sawEmpty>>

\* Mutant: _head is stored, not compared and swapped.
PopStore(t) ==
    /\ Goto(t, "o_cas", "o_value")
    /\ head' = nextg(t)
    /\ old' = [old EXCEPT ![t] = anchor(t)]
    /\ chain' = IF head = anchor(t) THEN Tail(chain) ELSE chain
    /\ UNCHANGED <<rvars, tail, next, val, open, node, cur, res, sawEmpty>>

\* The CAS that unlinks the old dummy: here try_pop takes effect.
PopCas(t) ==
    /\ head = anchor(t)
    /\ Goto(t, "o_cas", "o_value")
    /\ head' = nextg(t)
    /\ old' = [old EXCEPT ![t] = anchor(t)]
    /\ chain' = Tail(chain)
    /\ sawEmpty' = (IF Len(chain) = 2
                    THEN sawEmpty \union {u \in Thread : pc[u] \in PopPC}
                    ELSE sawEmpty) \ {t}
    /\ UNCHANGED <<rvars, tail, next, val, open, node, cur, res>>

PopCasFails(t) == /\ Retry(t, "o_cas")
                  /\ UNCHANGED <<status, shared, locals, chain, sawEmpty>>

\* result = std::move(next->_value), then both guards are reset.
PopValue(t) ==
    /\ Goto(t, "o_value", "o_retire")
    /\ res' = [res EXCEPT ![t] = val[nextg(t)]]
    /\ val' = [val EXCEPT ![nextg(t)] = NoValue]
    /\ Release(t, {"anchor", "next"})
    /\ UNCHANGED <<status, head, tail, next, open, node, cur, old, chain, sawEmpty>>

\* Mutant: the old dummy is dropped, not reclaimed.
PopDrop(t) == /\ Goto(t, "o_retire", "idle")
              /\ old' = [old EXCEPT ![t] = Null]
              /\ res' = [res EXCEPT ![t] = NoValue]
              /\ UNCHANGED <<rvars, shared, node, cur, chain, sawEmpty>>

\* h.reclaim(), return true
PopRetire(t) ==
    /\ Goto(t, "o_retire", "idle")
    /\ Retire(old[t])
    /\ old' = [old EXCEPT ![t] = Null]
    /\ res' = [res EXCEPT ![t] = NoValue]
    /\ UNCHANGED <<slot, shared, node, cur, chain, sawEmpty>>

PopReturnFalse(t) ==
    /\ Goto(t, "o_empty", "idle")
    /\ Release(t, {"anchor", "next"})
    /\ UNCHANGED <<status, shared, locals, chain, sawEmpty>>

-----------------------------------------------------------------------------
\* The reclamation scheme deletes a node; its address may be used again.
ReclaimNode(n) ==
    /\ Reclaim(n)
    /\ next' = [next EXCEPT ![n] = Null]
    /\ val' = [val EXCEPT ![n] = NoValue]
    /\ UNCHANGED <<slot, pinned, head, tail, open, pc, locals, chain, sawEmpty>>

\* ~michael_scott_queue, once no operation is in progress: it deletes the
\* nodes of the list one after the other, following _next.
Destroy == /\ open /\ \A t \in Thread : pc[t] = "idle"
           /\ open' = FALSE
           /\ UNCHANGED <<rvars, head, tail, next, val, pc, locals, chain, sawEmpty>>

DestroyNode == /\ ~open /\ head # Null
               /\ status' = [status EXCEPT ![head] = "free"]
               /\ head' = next[head]
               /\ chain' = Tail(chain)
               /\ UNCHANGED <<slot, pinned, tail, next, val, open, pc, locals, sawEmpty>>

PushStep(t) == \/ PushLoad(t) \/ PushPublish(t) \/ PushValidate(t) \/ PushNext(t)
               \/ PushHelp(t) \/ PushHelpFails(t) \/ PushLink(t) \/ PushLinkFails(t)
               \/ PushSwing(t)

PopStep(t) == \/ PopLoad(t) \/ PopPublish(t) \/ PopValidate(t)
              \/ PopNextLoad(t) \/ PopNextPublish(t) \/ PopNextValidate(t)
              \/ PopStale(t) \/ PopEmpty(t) \/ PopCheck(t) \/ PopTail(t) \/ PopHelp(t)
               \/ PopHelpFails(t)
              \/ PopCas(t) \/ PopCasFails(t) \/ PopValue(t) \/ PopRetire(t)
              \/ PopReturnFalse(t)

Next == \/ \E t \in Thread : \/ \E n \in Node, v \in Value : Push(t, n, v)
                             \/ TryPop(t) \/ PushStep(t) \/ PopStep(t)
        \/ \E n \in Node : ReclaimNode(n)
        \/ Destroy \/ DestroyNode

Spec == Init /\ [][Next]_vars

-----------------------------------------------------------------------------
(* Safety                                                                  *)

\* A thread that dereferences guard t, h or next holds a guard that keeps the
\* node from deletion, and the node it retires has not been retired before.
MemorySafe ==
    \A t \in Thread :
       /\ pc[t] \in {"p_next", "p_link", "o_nload", "o_nvalidate"} => Protected(t, "anchor")
       /\ pc[t] = "o_value" => Protected(t, "next")
       /\ pc[t] = "o_retire" => status[old[t]] = "live"

\* _next leads from _head through every node of the list, all of them live,
\* and _tail is the last of them or the one before it: _head never overtakes
\* _tail, although try_pop reads the two at different moments.
ListShape ==
    open => LET len == Len(chain) IN
            /\ len >= 1 /\ chain[1] = head
            /\ \A i \in 1..len : status[chain[i]] = "live"
            /\ \A i \in 1..(len - 1) : next[chain[i]] = chain[i + 1]
            /\ next[chain[len]] = Null
            /\ \/ tail = chain[len]
               \/ len >= 2 /\ tail = chain[len - 1]

\* No node is lost: a live node is in the list, or is the node one push is
\* about to link, or the one one try_pop is about to retire.
InList(n) == \E i \in 1..Len(chain) : chain[i] = n
NoLeak ==
    \A n \in Node : status[n] = "live" =>
       \/ InList(n)
       \/ \E t \in Thread : node[t] = n /\ pc[t] \in PushPC \ {"p_swing"}
       \/ \E t \in Thread : old[t] = n

\* Every push and try_pop is atomic (linearizable): the values after the dummy
\* are the abstract queue, and every step of the code is a step of FifoQueue
\* or leaves the abstract queue as it is.
Items == IF open THEN [i \in 1..(Len(chain) - 1) |-> val[chain[i + 1]]] ELSE << >>
Op == [t \in Thread |->
         CASE pc[t] = "idle" -> "idle"
           [] pc[t] = "p_swing" -> "pushed"
           [] pc[t] \in PushPC \ {"p_swing"} -> "push"
           [] pc[t] \in PopPC -> "pop"
           [] pc[t] \in {"o_value", "o_retire"} -> "popped"
           [] pc[t] = "o_empty" -> "empty"]
Arg == [t \in Thread |->
          CASE pc[t] \in PushPC \ {"p_swing"} -> val[node[t]]
            [] pc[t] = "o_value" -> val[nextg(t)]
            [] pc[t] = "o_retire" -> res[t]
            [] OTHER -> NoValue]

Fifo == INSTANCE FifoQueue WITH items <- Items, op <- Op, arg <- Arg
Linearizable == Fifo!FSpec

-----------------------------------------------------------------------------
(* The inductive invariant behind MemorySafe, ListShape and NoLeak         *)

PrivatePC == PushPC \ {"p_swing"}  \* node[t] is known to thread t only
OldPC == {"o_value", "o_retire"}
NextPC == {"o_nvalidate", "o_check", "o_tail", "o_help", "o_cas", "o_value"}
PushAnchorPC == {"p_next", "p_help", "p_link", "p_swing"}
PopAnchorPC == {"o_nload", "o_npublish", "o_nvalidate", "o_check", "o_tail", "o_help", "o_cas"}

\* The list, also while the destructor takes it apart: head is its first node.
ListOK ==
    LET len == Len(chain) IN
    /\ open => len >= 1
    /\ head = IF len = 0 THEN Null ELSE chain[1]
    /\ \A i \in 1..len : status[chain[i]] = "live"
    /\ \A i, j \in 1..len : chain[i] = chain[j] => i = j
    /\ \A i \in 1..(len - 1) : next[chain[i]] = chain[i + 1]
    /\ len >= 1 => next[chain[len]] = Null
    /\ open => tail = chain[len] \/ (len >= 2 /\ tail = chain[len - 1])
    /\ ~open => \A t \in Thread : pc[t] = "idle"

\* Only the last node of the list and the nodes of unfinished pushes have no
\* successor; hence a CAS on the _next of an unlinked node fails.
RetiredOK == \A n \in Node : status[n] = "retired" => next[n] # Null

\* The node of a push before it is linked, and the node of a try_pop after it
\* is unlinked, belong to that thread alone.
PrivateOK(t) ==
    pc[t] \in PrivatePC =>
       /\ node[t] # Null /\ status[node[t]] = "live" /\ next[node[t]] = Null
       /\ ~InList(node[t])
       /\ \A u \in Thread : pc[u] \in PrivatePC /\ node[u] = node[t] => u = t

OldOK(t) ==
    /\ pc[t] \notin OldPC => old[t] = Null
    /\ pc[t] \in OldPC =>
          /\ old[t] # Null /\ status[old[t]] = "live" /\ next[old[t]] # Null
          /\ ~InList(old[t])
          /\ \A u \in Thread : pc[u] \in OldPC /\ old[u] = old[t] => u = t

\* What acquire() knows between its steps.
AcquireOK(t) ==
    /\ pc[t] \in {"p_publish", "p_validate", "o_publish", "o_validate"} => cur[t] # Null
    /\ pc[t] \in {"p_validate", "o_validate"} => anchor(t) = cur[t]
    /\ pc[t] \notin NextPC => nextg(t) = Null

\* A validated anchor is protected and was linked: it is in the list, or it has
\* a successor and so is no longer its last node.
AnchorOK(t) ==
    pc[t] \in PushAnchorPC \union PopAnchorPC =>
       /\ Protected(t, "anchor")
       /\ next[anchor(t)] = Null => InList(anchor(t))

PushOK(t) ==
    /\ pc[t] \in {"p_next", "p_help", "p_link"} => tail = anchor(t) \/ next[anchor(t)] # Null
    /\ pc[t] = "p_help" => cur[t] # Null /\ cur[t] = next[anchor(t)]
    /\ pc[t] = "p_swing" => node[t] # Null /\ node[t] = next[anchor(t)]

\* The anchor of try_pop is the dummy, or has left the list for good.
PopOK(t) ==
    /\ pc[t] \in PopAnchorPC => \A i \in 2..Len(chain) : chain[i] # anchor(t)
    /\ pc[t] \in {"o_npublish", "o_nvalidate"} => cur[t] # Null /\ cur[t] = next[anchor(t)]
    /\ pc[t] = "o_nvalidate" => nextg(t) = cur[t]
    /\ pc[t] = "o_check" => nextg(t) = Null \/ nextg(t) = next[anchor(t)]
    /\ pc[t] \in {"o_tail", "o_help", "o_cas"} => nextg(t) = next[anchor(t)]
    /\ pc[t] \in {"o_tail", "o_help", "o_cas", "o_value"} => Protected(t, "next")
    /\ pc[t] = "o_cas" /\ head = anchor(t) => tail # anchor(t)

ThreadOK(t) == AcquireOK(t) /\ AnchorOK(t) /\ PushOK(t) /\ PopOK(t)

IInv == /\ TypeOK /\ ListOK /\ RetiredOK /\ NoLeak
        /\ \A t \in Thread : PrivateOK(t) /\ OldOK(t) /\ ThreadOK(t)

-----------------------------------------------------------------------------
(* Liveness                                                                *)

Fair(t) == /\ WF_vars(PushStep(t) \/ PopStep(t))
           /\ SF_vars(PushLink(t)) /\ SF_vars(PushHelp(t))
           /\ SF_vars(PopCas(t)) /\ SF_vars(PopHelp(t))

\* The threads of Running keep running inside an operation; every other thread
\* may stop for ever at any step, as a preempted or killed thread does.
FairSpec == Spec /\ \A t \in Running : Fair(t)

\* An operation takes effect.
Effect == \E t \in Thread : PushLink(t) \/ PopCas(t) \/ PopEmpty(t)

\* "Progress guarantees: lock-free": a thread that keeps running returns from
\* its operation, or else other operations take effect again and again --
\* wherever the other threads have stopped.
LockFree ==
    \A t \in Running : []<>(pc[t] = "idle") \/ []<><<Effect>>_vars

\* The oldest value does not stay in the queue for ever, as long as one consumer
\* keeps running and calls try_pop again and again -- even if the producer that
\* linked its node never swings _tail.
Drained == \A c \in Consumers : Fair(c) /\ WF_vars(TryPop(c)) =>
    \A n \in Node : (head = n /\ Items # << >>) ~> (head # n \/ ~open)
=============================================================================
