-------------------------------- MODULE SCQ --------------------------------
(***************************************************************************)
(* xenium::detail::nikolaev_scq (src/xenium/detail/nikolaev_scq.hpp), the  *)
(* ring of indexes that the Nikolaev queues are built of: enqueue,         *)
(* dequeue, catchup, finalize and set_threshold, one step per access of an *)
(* atomic variable.  The queues EXTEND this module, call an operation with *)
(* Call and find its result in arg and ok when pc has come back.           *)
(*                                                                         *)
(* The code keeps _head and _tail shifted by one bit, for the finalized    *)
(* flag of _tail; here they are positions, and the flag is fin.  An entry  *)
(* is the word <cycle, is_safe, value>; an empty one has the value Nil.    *)
(* Counters do not wrap (64 bits).  remap_index is the identity, as it is  *)
(* for capacities below 8; any permutation of the slots gives the same.    *)
(***************************************************************************)
EXTENDS Integers

CONSTANTS Thread, Ring,
          Cap,         \* capacity
          PopRetries,  \* how often dequeue waits for a pending enqueue
          Nil

ASSUME CapAssumption == Cap \in Nat \ {0} /\ PopRetries \in Nat
ASSUME NilAssumption == Nil \notin 0..(Cap - 1)

n == 2 * Cap
full == 3 * Cap - 1  \* the threshold after an enqueue

VARIABLES head, tail, fin, thr, data,             \* the rings
          pc, rg, arg, ok, back,                  \* call and return
          tk, ent, new, att, seen, hd             \* local variables of the code

rings == <<head, tail, fin, thr, data>>
temps == <<tk, ent, new, att, seen, hd>>
frame == <<rg, arg, ok, back>>
scqVars == <<rings, pc, frame, temps>>

Entry == [cyc : {-1} \union Nat, safe : BOOLEAN, val : 0..(Cap - 1) \union {Nil}]
Unused == [cyc |-> -1, safe |-> TRUE, val |-> Nil]

EnqPC == {"e_ticket", "e_load", "e_head", "e_cas", "e_thr", "e_set"}
DeqPC == {"d_thr", "d_ticket", "d_load", "d_nil", "d_cas", "d_take",
          "d_tail", "d_catch", "d_head", "d_dec", "d_sub"}

SCQTypeOK(otherPC) ==
    /\ head \in [Ring -> Nat] /\ tail \in [Ring -> Nat]
    /\ fin \in [Ring -> BOOLEAN]
    /\ thr \in [Ring -> Int]
    /\ data \in [Ring -> [0..(n - 1) -> Entry]]
    /\ pc \in [Thread -> EnqPC \union DeqPC \union otherPC]
    /\ back \in [Thread -> otherPC]
    /\ rg \in [Thread -> Ring \union {Nil}]
    /\ arg \in [Thread -> 0..(Cap - 1) \union {Nil}]
    /\ ok \in [Thread -> BOOLEAN]
    /\ tk \in [Thread -> Nat]
    /\ ent \in [Thread -> Entry] /\ new \in [Thread -> Entry]
    /\ att \in [Thread -> 0..PopRetries]
    /\ seen \in [Thread -> [pos : Nat, fin : BOOLEAN]]
    /\ hd \in [Thread -> Nat]

\* The states the four constructors leave a ring in
EmptyData == [j \in 0..(n - 1) |-> Unused]
FullData(from) == [j \in 0..(n - 1) |->
                     IF j \in from..(Cap - 1) THEN [cyc |-> 0, safe |-> TRUE, val |-> j]
                                              ELSE Unused]
Empty == [head |-> 0, tail |-> 0, thr |-> -1, data |-> EmptyData]
Full == [head |-> 0, tail |-> Cap, thr |-> full, data |-> FullData(0)]
FirstUsed == [head |-> 0, tail |-> 1, thr |-> full,
              data |-> [EmptyData EXCEPT ![0] = [cyc |-> 0, safe |-> TRUE, val |-> 0]]]
FirstEmpty == [head |-> 1, tail |-> Cap, thr |-> full, data |-> FullData(1)]

LocalsInit ==
    /\ pc = [t \in Thread |-> "idle"]
    /\ back = [t \in Thread |-> "idle"]
    /\ rg = [t \in Thread |-> Nil]
    /\ arg = [t \in Thread |-> Nil]
    /\ ok = [t \in Thread |-> TRUE]
    /\ tk = [t \in Thread |-> 0]
    /\ ent = [t \in Thread |-> Unused]
    /\ new = [t \in Thread |-> Unused]
    /\ att = [t \in Thread |-> 0]
    /\ seen = [t \in Thread |-> [pos |-> 0, fin |-> FALSE]]
    /\ hd = [t \in Thread |-> 0]

Goto(t, from, to) == pc[t] = from /\ pc' = [pc EXCEPT ![t] = to]

\* Thread t, at "from", calls an operation of ring r and goes on at "to".
Call(t, from, first, r, v, to) ==
    /\ Goto(t, from, first)
    /\ rg' = [rg EXCEPT ![t] = r]
    /\ arg' = [arg EXCEPT ![t] = v]
    /\ back' = [back EXCEPT ![t] = to]
    /\ UNCHANGED <<ok, temps>>

Enqueue(t, from, r, v, to) == Call(t, from, "e_ticket", r, v, to)
Dequeue(t, from, r, to) == Call(t, from, "d_thr", r, Nil, to)

\* The operation is over: its local variables are gone.
Return(t, from, result) ==
    /\ Goto(t, from, back[t])
    /\ ok' = [ok EXCEPT ![t] = result]
    /\ rg' = [rg EXCEPT ![t] = Nil]
    /\ back' = [back EXCEPT ![t] = "idle"]
    /\ tk' = [tk EXCEPT ![t] = 0]
    /\ ent' = [ent EXCEPT ![t] = Unused]
    /\ new' = [new EXCEPT ![t] = Unused]
    /\ att' = [att EXCEPT ![t] = 0]
    /\ seen' = [seen EXCEPT ![t] = [pos |-> 0, fin |-> FALSE]]
    /\ hd' = [hd EXCEPT ![t] = 0]

slotOfMappedOnce(t) == LET p == tk[t] % n IN
    IF pc[t] \in EnqPC THEN (IF p % 2 = 0 THEN p + 1 ELSE p - 1) ELSE p

slotOf(t) == tk[t] % n
cycle(t) == tk[t] \div n
dataOf(t) == data[rg[t]][slotOf(t)]

SetData(t, e) == data' = [data EXCEPT ![rg[t]][slotOf(t)] = e]

-----------------------------------------------------------------------------
(* enqueue                                                                 *)

\* A finalized ring refuses: nobody enqueues in it any more.
EnqTicket(t) ==
    /\ pc[t] = "e_ticket"
    /\ tail' = [tail EXCEPT ![rg[t]] = @ + 1]
    /\ \/ /\ fin[rg[t]]
          /\ Return(t, "e_ticket", FALSE)
          /\ UNCHANGED arg
       \/ /\ ~fin[rg[t]]
          /\ Goto(t, "e_ticket", "e_load")
          /\ tk' = [tk EXCEPT ![t] = tail[rg[t]]]
          /\ UNCHANGED <<frame, ent, new, att, seen, hd>>
    /\ UNCHANGED <<head, fin, thr, data>>

\* What enqueue does about entry e: it wants an empty one of an older cycle.
EnqConsider(t, from, e) ==
    /\ ent' = [ent EXCEPT ![t] = e]
    /\ \/ /\ e.cyc < cycle(t) /\ e.val = Nil /\ e.safe
          /\ Goto(t, from, "e_cas")
       \/ /\ e.cyc < cycle(t) /\ e.val = Nil /\ ~e.safe
          /\ Goto(t, from, "e_head")
       \/ /\ e.cyc >= cycle(t) \/ e.val # Nil
          /\ Goto(t, from, "e_ticket")
    /\ UNCHANGED <<rings, frame, tk, new, att, seen, hd>>

EnqLoad(t) == pc[t] = "e_load" /\ EnqConsider(t, "e_load", dataOf(t))

\* An unsafe entry may be used as long as its dequeuer is still to come.
EnqHeadUnchecked(t) ==
    /\ Goto(t, "e_head", "e_cas")
    /\ UNCHANGED <<rings, frame, temps>>

EnqHead(t) ==
    /\ Goto(t, "e_head", IF head[rg[t]] <= tk[t] THEN "e_cas" ELSE "e_ticket")
    /\ UNCHANGED <<rings, frame, temps>>

\* The new entry has is_safe cleared: value ^= is_safe_and_value_mask.
EnqCas(t) ==
    /\ Goto(t, "e_cas", "e_thr")
    /\ dataOf(t) = ent[t]
    /\ SetData(t, [cyc |-> cycle(t), safe |-> FALSE, val |-> arg[t]])
    /\ UNCHANGED <<head, tail, fin, thr, frame, temps>>

\* The CAS is weak: it may fail on the entry it expects, too.
EnqCasFails(t) == pc[t] = "e_cas" /\ EnqConsider(t, "e_cas", dataOf(t))

EnqThresholdSkipped(t) ==
    /\ pc[t] = "e_thr"
    /\ Return(t, "e_thr", TRUE)
    /\ UNCHANGED <<rings, arg>>

EnqThreshold(t) ==
    /\ pc[t] = "e_thr"
    /\ \/ /\ thr[rg[t]] = full
          /\ Return(t, "e_thr", TRUE)
          /\ UNCHANGED arg
       \/ /\ thr[rg[t]] # full
          /\ Goto(t, "e_thr", "e_set")
          /\ UNCHANGED <<frame, temps>>
    /\ UNCHANGED rings

EnqSetThresholdToZero(t) ==
    /\ pc[t] = "e_set"
    /\ thr' = [thr EXCEPT ![rg[t]] = 0]
    /\ Return(t, "e_set", TRUE)
    /\ UNCHANGED <<head, tail, fin, data, arg>>

EnqSetThreshold(t) ==
    /\ pc[t] = "e_set"
    /\ thr' = [thr EXCEPT ![rg[t]] = full]
    /\ Return(t, "e_set", TRUE)
    /\ UNCHANGED <<head, tail, fin, data, arg>>

-----------------------------------------------------------------------------
(* dequeue                                                                 *)

DeqThreshold(t) ==
    /\ pc[t] = "d_thr"
    /\ \/ /\ thr[rg[t]] < 0
          /\ Return(t, "d_thr", FALSE)
          /\ UNCHANGED arg
       \/ /\ thr[rg[t]] >= 0
          /\ Goto(t, "d_thr", "d_ticket")
          /\ UNCHANGED <<frame, temps>>
    /\ UNCHANGED rings

DeqTicket(t) ==
    /\ Goto(t, "d_ticket", "d_load")
    /\ head' = [head EXCEPT ![rg[t]] = @ + 1]
    /\ tk' = [tk EXCEPT ![t] = head[rg[t]]]
    /\ att' = [att EXCEPT ![t] = 0]
    /\ UNCHANGED <<tail, fin, thr, data, frame, ent, new, seen, hd>>

\* What dequeue does about entry e: it is the one of this ticket, or an older
\* value that has to be marked unsafe, or empty.
DeqConsider(t, from, e) ==
    /\ ent' = [ent EXCEPT ![t] = e]
    /\ \/ /\ e.cyc = cycle(t)
          /\ Goto(t, from, "d_take")
          /\ UNCHANGED new
       \/ /\ e.cyc # cycle(t) /\ e.val # Nil
          /\ IF e.safe /\ e.cyc < cycle(t)
             THEN /\ Goto(t, from, "d_cas")
                  /\ new' = [new EXCEPT ![t] = [e EXCEPT !.safe = FALSE]]
             ELSE Goto(t, from, "d_tail") /\ UNCHANGED new
       \/ /\ e.cyc # cycle(t) /\ e.val = Nil
          /\ Goto(t, from, "d_nil")
          /\ UNCHANGED new
    /\ UNCHANGED <<rings, frame, tk, att, seen, hd>>

DeqLoad(t) == pc[t] = "d_load" /\ DeqConsider(t, "d_load", dataOf(t))

\* diff(tail, head + index_inc) > 0, with the finalized bit of the tail
Beyond(t) == LET r == rg[t] IN tail[r] > tk[t] + 1 \/ (tail[r] = tk[t] + 1 /\ fin[r])

DeqNilLeavesEntry(t) ==
    /\ Goto(t, "d_nil", "d_tail")
    /\ UNCHANGED <<rings, frame, temps>>

\* An enqueue of this ticket may be pending: wait, then spoil the entry for it.
DeqNilWaits(t, retries) ==
    /\ pc[t] = "d_nil"
    /\ \/ /\ Beyond(t) /\ att[t] < retries
          /\ Goto(t, "d_nil", "d_load")
          /\ att' = [att EXCEPT ![t] = @ + 1]
          /\ UNCHANGED new
       \/ /\ ~(Beyond(t) /\ att[t] < retries)
          /\ UNCHANGED att
          /\ IF ent[t].cyc < cycle(t)
             THEN /\ Goto(t, "d_nil", "d_cas")
                  /\ new' = [new EXCEPT ![t] = [cyc |-> cycle(t), safe |-> TRUE, val |-> Nil]]
             ELSE Goto(t, "d_nil", "d_tail") /\ UNCHANGED new
    /\ UNCHANGED <<rings, frame, tk, ent, seen, hd>>

DeqNil(t) == DeqNilWaits(t, PopRetries)

DeqCas(t) ==
    /\ Goto(t, "d_cas", "d_tail")
    /\ dataOf(t) = ent[t]
    /\ SetData(t, new[t])
    /\ UNCHANGED <<head, tail, fin, thr, frame, temps>>

DeqCasFails(t) == pc[t] = "d_cas" /\ DeqConsider(t, "d_cas", dataOf(t))

\* fetch_or(value_mask): whatever the flag of the entry is by now, it stays.
DeqTake(t) ==
    /\ pc[t] = "d_take"
    /\ SetData(t, [dataOf(t) EXCEPT !.val = Nil])
    /\ arg' = [arg EXCEPT ![t] = ent[t].val]
    /\ Return(t, "d_take", TRUE)
    /\ UNCHANGED <<head, tail, fin, thr>>

\* Nothing at this ticket.  Is the ring empty?
DeqTail(t) ==
    /\ pc[t] = "d_tail"
    /\ \/ /\ Beyond(t)
          /\ Goto(t, "d_tail", "d_sub")
          /\ UNCHANGED <<seen, hd>>
       \/ /\ ~Beyond(t)
          /\ Goto(t, "d_tail", "d_catch")
          /\ seen' = [seen EXCEPT ![t] = [pos |-> tail[rg[t]], fin |-> fin[rg[t]]]]
          /\ hd' = [hd EXCEPT ![t] = tk[t] + 1]
    /\ UNCHANGED <<rings, frame, tk, ent, new, att>>

\* catchup: the CAS writes a tail without the finalized bit.
DeqCatch(t) ==
    /\ Goto(t, "d_catch", "d_dec")
    /\ tail[rg[t]] = seen[t].pos /\ fin[rg[t]] = seen[t].fin
    /\ tail' = [tail EXCEPT ![rg[t]] = hd[t]]
    /\ fin' = [fin EXCEPT ![rg[t]] = FALSE]
    /\ UNCHANGED <<head, thr, data, frame, temps>>

DeqCatchFails(t) ==
    /\ Goto(t, "d_catch", "d_head")
    /\ seen' = [seen EXCEPT ![t] = [pos |-> tail[rg[t]], fin |-> fin[rg[t]]]]
    /\ UNCHANGED <<rings, frame, tk, ent, new, att, hd>>

DeqHead(t) ==
    /\ Goto(t, "d_head", IF seen[t].pos >= head[rg[t]] THEN "d_dec" ELSE "d_catch")
    /\ hd' = [hd EXCEPT ![t] = head[rg[t]]]
    /\ UNCHANGED <<rings, frame, tk, ent, new, att, seen>>

DeqDecrement(t) ==
    /\ pc[t] = "d_dec"
    /\ thr' = [thr EXCEPT ![rg[t]] = @ - 1]
    /\ Return(t, "d_dec", FALSE)
    /\ UNCHANGED <<head, tail, fin, data, arg>>

DeqSubtract(t) ==
    /\ pc[t] = "d_sub"
    /\ thr' = [thr EXCEPT ![rg[t]] = @ - 1]
    /\ \/ /\ thr[rg[t]] <= 0
          /\ Return(t, "d_sub", FALSE)
       \/ /\ thr[rg[t]] > 0
          /\ Goto(t, "d_sub", "d_ticket")
          /\ UNCHANGED <<rg, ok, back, temps>>
    /\ UNCHANGED <<head, tail, fin, data, arg>>

-----------------------------------------------------------------------------
EnqStep(t) == \/ EnqTicket(t) \/ EnqLoad(t) \/ EnqHead(t) \/ EnqCas(t) \/ EnqCasFails(t)
              \/ EnqThreshold(t) \/ EnqSetThreshold(t)

DeqStep(t) == \/ DeqThreshold(t) \/ DeqTicket(t) \/ DeqLoad(t) \/ DeqNil(t) \/ DeqCas(t)
              \/ DeqCasFails(t) \/ DeqTake(t) \/ DeqTail(t) \/ DeqCatch(t)
              \/ DeqCatchFails(t) \/ DeqHead(t) \/ DeqDecrement(t) \/ DeqSubtract(t)

\* The dequeue that holds ticket p of ring r and is still to look at it
Coming(r, p) == \E t \in Thread : /\ pc[t] \in {"d_load", "d_nil", "d_cas", "d_take"}
                                  /\ rg[t] = r /\ tk[t] = p

position(r, j) == data[r][j].cyc * n + j

\* Every value in ring r will be met: the dequeue of its position has not
\* passed yet.  A value behind it stays in the ring for ever.
Reachable(r) == \A j \in 0..(n - 1) :
    data[r][j].val # Nil => position(r, j) >= head[r] \/ Coming(r, position(r, j))

\* The threshold of ring r allows as many misses as there are positions before
\* its first value.
ThresholdReaches(r) ==
    LET Vals == {j \in 0..(n - 1) : data[r][j].val # Nil} IN
    Vals # {} => \E j \in Vals : position(r, j) - head[r] <= thr[r]
=============================================================================
