--------------------------- MODULE HarrisMichaelMap ---------------------------
(***************************************************************************)
(* xenium::harris_michael_hash_map (harris_michael_hash_map.hpp): an array *)
(* of sorted lists.  erase marks the next pointer of a node, then unlinks  *)
(* it; whoever meets a marked node in find unlinks and retires it.  The    *)
(* list of a bucket is harris_michael_list_based_set, whose operations     *)
(* have the same steps.                                                    *)
(*                                                                         *)
(* Nodes are deleted as module Reclaimer promises.  A guard_ptr is one of  *)
(* four slots of its thread; std::move and std::swap pass the slot on.     *)
(***************************************************************************)
EXTENDS Reclaimer, FiniteSets

CONSTANTS Key,          \* keys <<hash, value of the key>>
          Value, Absent, NoCall,
          Buckets,      \* num_buckets
          MemoizeHash,  \* memoize_hash
          Roles         \* Roles[i][t]: what thread t does in workload i (see MCHarrisMichaelMap)

ASSUME HMSlotAssumption == Slot = {"a", "b", "c", "start"}
\* The hash is a function of the value of the key; no node is a bucket.
ASSUME HMKeyAssumption == /\ Key \subseteq Nat \X Nat /\ Buckets \in Nat \ {0}
                          /\ \A j, k \in Key : j[2] = k[2] => j = k
                          /\ Node \cap (0..Buckets) = {}

VARIABLES next,   \* next[l]: what bucket or node l points to, and its mark
          data,   \* data[n]: key and value of a node
          pc,
          info,   \* info[t]: find_info and the other local variables of thread t
          role, left,   \* the workload, and how many calls t still makes
          scan,   \* scan[t]: keys that a loop over the map has met, and must meet
          call, could, res  \* as in module ConcurrentMap

history == <<call, could, res>>
vars == <<rvars, next, data, pc, info, role, left, scan, history>>

Bucket == 0..(Buckets - 1)
BucketOf(k) == k[1] % Buckets  \* map_to_bucket

\* Mutant of GreaterOrEqual: > instead of >=
Greater(a, k) == IF MemoizeHash THEN a[1] > k[1] /\ a[2] > k[2] ELSE a[2] > k[2]

\* greater_or_equal of data_with_hash and data_without_hash
GreaterOrEqual(a, k) == IF MemoizeHash THEN a[1] >= k[1] /\ a[2] >= k[2] ELSE a[2] >= k[2]

\* The places from the head of bucket b on
ListOf(b) == LET at[i \in 0..Cardinality(Node)] ==
                   IF i = 0 THEN next[b].ptr
                   ELSE IF at[i - 1] = Null THEN Null ELSE next[at[i - 1]].ptr
             IN at

Link(p) == [ptr |-> p, mark |-> FALSE]
Marked(x) == [x EXCEPT !.mark = TRUE]

\* A node is in the map from its insertion until it is marked.
Fresh(n) == \E t \in Thread : info[t].mine = n
Present(k) == {n \in Node : /\ status[n] = "live" /\ ~next[n].mark /\ ~Fresh(n)
                            /\ data[n].key = k}
map == [k \in Key |-> IF Present(k) = {} THEN Absent
                      ELSE data[CHOOSE n \in Present(k) : TRUE].val]

MapCalls == UNION {Roles[i][t].calls : i \in DOMAIN Roles, t \in Thread}
\* An erase asks for a key, whatever its value.
ASSUME HMCallAssumption ==
    \A c \in MapCalls : /\ c.key \in Key /\ c.val \in Value
                        /\ c.op \in {"insert", "get", "remove"}
                        /\ c.op = "remove" => Value \subseteq c.exp
\* Answers and values can be told apart.
ASSUME HMAnswerAssumption ==
    /\ Absent \notin Value /\ NoCall \notin Value \union {Absent} \union MapCalls
    /\ \A a \in {"success", "already_present", "element_not_found"} :
          a \notin Value \union {Absent, NoCall}
M == INSTANCE ConcurrentMap WITH Calls <- MapCalls

NoInfo == [key |-> NoCall, bucket |-> 0, prev |-> 0, next |-> Link(Null), start |-> 0, mine |-> Null,
           then |-> "call", cur |-> "a", save |-> "b", new |-> "c"]

Init == /\ RInit
        /\ next = [l \in Bucket \union Node |-> Link(Null)]
        /\ data = [n \in Node |-> NoCall]
        /\ pc = [t \in Thread |-> "idle"]
        /\ info = [t \in Thread |-> NoInfo]
        /\ role \in DOMAIN Roles
        /\ left = [t \in Thread |-> Roles[role][t].times]
        /\ scan = [t \in Thread |-> [met |-> {}, due |-> {}]]
        /\ call = [t \in Thread |-> NoCall]
        /\ could = [t \in Thread |-> {}]
        /\ res = [t \in Thread |-> NoCall]

Cur(t) == slot[t][info[t].cur]
New(t) == slot[t][info[t].new]
At(t) == next[info[t].prev]   \* *info.prev

Goto(t, from, to) == pc[t] = from /\ pc' = [pc EXCEPT ![t] = to]
Set(t, r) == info' = [info EXCEPT ![t] = [f \in DOMAIN @ |-> IF f \in DOMAIN r THEN r[f] ELSE @[f]]]
Store(l, x) == next' = [next EXCEPT ![l] = x]
Quiet == UNCHANGED <<status, data, role, left, scan, call, could>>
Pure == Quiet /\ UNCHANGED <<slot, pinned, next>>
Answer(t, a) == /\ pc' = [pc EXCEPT ![t] = "done"]
                /\ res' = [res EXCEPT ![t] = a]
Continue(t, to) == pc' = [pc EXCEPT ![t] = to] /\ UNCHANGED res

\* guard.reclaim(): the guard is reset and its node retired.
ReclaimGuard(t, s) ==
    LET n == slot[t][s] IN
    /\ status' = [status EXCEPT ![n] = "retired"]
    /\ slot' = [slot EXCEPT ![t][s] = Null]
    /\ pinned' = (pinned \union Holders(n)) \ {<<t, s>>}

\* The calls of the map that have an effect now
Effect(t) == M!Witness(t, map') /\ UNCHANGED <<call, res>>

-----------------------------------------------------------------------------
(* find                                                                    *)

\* start = info.prev, and start_guard is a copy of info.save
Enter(t) == /\ Goto(t, "enter", "first")
            /\ Publish(t, "start", slot[t][info[t].save])
            /\ Set(t, [start |-> info[t].prev])
            /\ Quiet /\ UNCHANGED <<next, res>>

\* retry: info.prev = start, info.save = start_guard
Retry(t) == /\ Goto(t, "retry", "first")
            /\ Publish(t, info[t].save, slot[t]["start"])
            /\ Set(t, [prev |-> info[t].start])
            /\ Quiet /\ UNCHANGED <<next, res>>

First(t) == /\ Goto(t, "first", "acquire")
            /\ ~At(t).mark
            /\ Set(t, [next |-> At(t)])
            /\ Pure /\ UNCHANGED res

\* The start node is marked: restart from the head.
FirstMarked(t) == /\ Goto(t, "first", "retry")
                  /\ At(t).mark
                  /\ Set(t, [start |-> info[t].bucket])
                  /\ Release(t, {"start"})
                  /\ Quiet /\ UNCHANGED <<next, res>>

\* What follows once find returns; then is "call", "scan", or the answer of
\* an erase that searched again after its effect.
Outcome(t, found) ==
    LET c == call[t] IN
    CASE info[t].then = "scan" -> Continue(t, IF pc[t] = "acquire" THEN "next_bucket" ELSE "visit")
      [] info[t].then \notin {"call", "scan"} -> Answer(t, info[t].then)
      [] info[t].then = "call" /\ found ->
            Continue(t, IF c.op # "remove" THEN "use" ELSE IF c.how = "key" THEN "mark" ELSE "it_load")
      [] info[t].then = "call" /\ ~found ->
            IF c.op = "insert" THEN Continue(t, IF info[t].mine = Null THEN "new" ELSE "link")
            ELSE Answer(t, IF c.op = "get" THEN Absent ELSE "element_not_found")

\* acquire_if_equal: a null pointer ends the search.
AcquireNull(t) == /\ pc[t] = "acquire" /\ info[t].next.ptr = Null
                  /\ IF At(t) = info[t].next
                     THEN Outcome(t, FALSE) /\ Release(t, {info[t].cur, "start"})
                     ELSE Continue(t, "retry") /\ Release(t, {info[t].cur})
                  /\ Quiet /\ UNCHANGED <<next, info>>

Acquire(t) == /\ Goto(t, "acquire", "validate")
              /\ info[t].next.ptr # Null
              /\ Publish(t, info[t].cur, info[t].next.ptr)
              /\ Quiet /\ UNCHANGED <<next, info, res>>

\* Mutant of Validate: the pointer is not read again.
ValidateOmitted(t) == Goto(t, "validate", "load") /\ Pure /\ UNCHANGED <<info, res>>

Validate(t) == /\ Goto(t, "validate", IF At(t) = info[t].next THEN "load" ELSE "retry")
               /\ IF At(t) = info[t].next THEN UNCHANGED <<slot, pinned>>
                                          ELSE Release(t, {info[t].cur})
               /\ Quiet /\ UNCHANGED <<next, info, res>>

\* info.next = info.cur->next
Load(t) == /\ Goto(t, "load", IF next[Cur(t)].mark THEN "splice" ELSE "check")
           /\ Set(t, [next |-> Link(next[Cur(t)].ptr)])
           /\ Pure /\ UNCHANGED res

\* *cur is marked for deletion: update the link ...
Splice(t) == /\ Goto(t, "splice", "retire")
             /\ At(t) = Link(Cur(t))
             /\ Store(info[t].prev, info[t].next)
             /\ Quiet /\ UNCHANGED <<slot, pinned, info, res>>

SpliceFails(t) == Goto(t, "splice", "retry") /\ Pure /\ UNCHANGED <<info, res>>

\* ... and retire the element
RetireCur(t) == /\ Goto(t, "retire", "acquire")
              /\ ReclaimGuard(t, info[t].cur)
              /\ UNCHANGED <<next, data, info, role, left, scan, history>>

\* The end of Check: compare the keys, or go on with the next node.
Compare(t) ==
    LET k == data[Cur(t)].key IN
    IF GreaterOrEqual(k, info[t].key)
    THEN Outcome(t, k = info[t].key) /\ Release(t, {"start"}) /\ UNCHANGED info
    ELSE /\ Continue(t, "acquire")
         /\ Set(t, [prev |-> Cur(t), cur |-> info[t].save, save |-> info[t].cur])
         /\ UNCHANGED <<slot, pinned>>

\* *prev must still be cur.
Check(t) == /\ pc[t] = "check"
            /\ IF At(t) = Link(Cur(t)) THEN Compare(t)
               ELSE Continue(t, "retry") /\ UNCHANGED <<slot, pinned, info>>
            /\ Quiet /\ UNCHANGED next

FindStep(t) == \/ Enter(t) \/ Retry(t) \/ First(t) \/ FirstMarked(t) \/ AcquireNull(t) \/ Acquire(t)
               \/ Validate(t) \/ Load(t) \/ Splice(t) \/ SpliceFails(t) \/ RetireCur(t) \/ Check(t)

-----------------------------------------------------------------------------
(* The calls: emplace and emplace_or_get, get_or_emplace_lazy and          *)
(* operator[], find, contains, erase with a key or with an iterator        *)

\* emplace makes its node first, the lazy version when it is needed.
Call(t, c) ==
    /\ Goto(t, "idle", IF c.op = "insert" /\ c.how = "emplace" THEN "new" ELSE "first")
    /\ c \in Roles[role][t].calls /\ left[t] > 0
    /\ left' = [left EXCEPT ![t] = @ - 1]
    /\ Set(t, [key |-> c.key, bucket |-> BucketOf(c.key), prev |-> BucketOf(c.key), start |-> BucketOf(c.key)])
    /\ call' = [call EXCEPT ![t] = c]
    /\ could' = [could EXCEPT ![t] = M!Answers(c, map)]
    /\ UNCHANGED <<rvars, next, data, role, scan, res>>

\* All guards are reset when the result goes out of scope.
Return(t) == /\ Goto(t, "done", "idle")
             /\ Release(t, Slot)
             /\ info' = [info EXCEPT ![t] = NoInfo]
             /\ call' = [call EXCEPT ![t] = NoCall]
             /\ could' = [could EXCEPT ![t] = {}]
             /\ res' = [res EXCEPT ![t] = NoCall]
             /\ UNCHANGED <<status, next, data, role, left, scan>>

NewNode(t) == /\ Goto(t, "new", IF call[t].how = "emplace" THEN "first" ELSE "link")
              /\ \E n \in Node : /\ Allocate(n)
                                /\ data' = [data EXCEPT ![n] = [key |-> call[t].key, val |-> call[t].val]]
                                /\ Store(n, Link(Null))
                                /\ Set(t, [mine |-> n])
              /\ UNCHANGED <<slot, pinned, role, left, scan, history>>

\* n->next = expected; emplace_or_get guards the new node besides cur, the
\* lazy version has reset the guard of cur.
LinkNode(t) ==
    /\ Goto(t, "link", "insert")
    /\ Store(info[t].mine, Link(Cur(t)))
    /\ IF call[t].how = "emplace" THEN Publish(t, info[t].new, info[t].mine) /\ UNCHANGED info
       ELSE Publish(t, info[t].cur, info[t].mine) /\ UNCHANGED info
    /\ Quiet /\ UNCHANGED res

InsertCas(t) == /\ Goto(t, "insert", "inserted")
                /\ At(t) = next[info[t].mine]
                /\ Store(info[t].prev, Link(info[t].mine))
                /\ Set(t, IF call[t].how = "emplace"
                          THEN [mine |-> Null, cur |-> info[t].new, new |-> info[t].cur]
                          ELSE [mine |-> Null])
                /\ UNCHANGED <<rvars, data, role, left, scan>>
                /\ Effect(t)

InsertCasFails(t) == /\ Goto(t, "insert", "enter")
                     /\ Release(t, {info[t].new})
                     /\ Quiet /\ UNCHANGED <<next, info, res>>

\* The element that the call has inserted is used through its guard.
Inserted(t) == /\ pc[t] = "inserted"
               /\ Answer(t, "success")
               /\ Pure /\ UNCHANGED info

\* The element that was found is used; an insert deletes its own node.
Use(t) == /\ pc[t] = "use"
          /\ Answer(t, IF call[t].op = "get" THEN data[Cur(t)].val ELSE "already_present")
          /\ status' = [n \in Node |-> IF n = info[t].mine THEN "free" ELSE status[n]]
          /\ Set(t, [mine |-> Null])
          /\ UNCHANGED <<slot, pinned, next, data, role, left, scan, call, could>>

\* erase(key): mark the node, so that it is no longer in the map ...
Mark(t) == /\ Goto(t, "mark", "unlink")
           /\ next[Cur(t)] = info[t].next
           /\ Store(Cur(t), Marked(info[t].next))
           /\ scan' = [u \in Thread |-> [scan[u] EXCEPT !.due = @ \ {info[t].key}]]
           /\ Set(t, [then |-> "success"])
           /\ UNCHANGED <<rvars, data, role, left>>
           /\ Effect(t)

MarkFails(t) == Goto(t, "mark", "enter") /\ Pure /\ UNCHANGED <<info, res>>

\* ... and unlink it
Unlink(t) == /\ Goto(t, "unlink", "reclaim")
             /\ At(t) = Link(Cur(t))
             /\ Store(info[t].prev, info[t].next)
             /\ Quiet /\ UNCHANGED <<slot, pinned, info, res>>

\* Mutant of UnlinkFails: nobody is asked to finish the removal.
UnlinkGivenUp(t) == pc[t] = "unlink" /\ Answer(t, info[t].then) /\ Pure /\ UNCHANGED info

\* Another thread interfered: find it again, to be sure that it is unlinked.
UnlinkFails(t) == /\ Goto(t, "unlink", "enter")
                  /\ Release(t, {info[t].new})
                  /\ Quiet /\ UNCHANGED <<next, info, res>>

\* erase(pos) goes on with next_guard as the guard of the element.
ReclaimErased(t) == /\ pc[t] = "reclaim"
                    /\ ReclaimGuard(t, info[t].cur)
                    /\ Answer(t, info[t].then)
                    /\ Set(t, [cur |-> info[t].new, new |-> info[t].cur])
                    /\ UNCHANGED <<next, data, role, left, scan, call, could>>

\* erase(pos): if the node is marked already, another thread removes it.
ItLoad(t) == /\ pc[t] \in {"it_load", "it_mark"}
             /\ Continue(t, IF next[Cur(t)].mark THEN "it_guard" ELSE "it_mark")
             /\ Set(t, [next |-> Link(next[Cur(t)].ptr), then |-> "element_not_found"])
             /\ Pure

ItMark(t) == /\ Goto(t, "it_mark", "it_guard")
             /\ next[Cur(t)] = info[t].next
             /\ Store(Cur(t), Marked(info[t].next))
             /\ scan' = [u \in Thread |-> [scan[u] EXCEPT !.due = @ \ {info[t].key}]]
             /\ Set(t, [then |-> "success"])
             /\ UNCHANGED <<rvars, data, role, left>>
             /\ Effect(t)

\* guard_ptr next_guard(next)
ItGuard(t) == /\ Goto(t, "it_guard", "unlink")
              /\ Publish(t, info[t].new, info[t].next.ptr)
              /\ Quiet /\ UNCHANGED <<next, info, res>>

CallStep(t) == \/ NewNode(t) \/ LinkNode(t) \/ InsertCas(t) \/ InsertCasFails(t) \/ Inserted(t)
               \/ Use(t) \/ Mark(t) \/ MarkFails(t) \/ Unlink(t) \/ UnlinkFails(t)
               \/ ReclaimErased(t) \/ ItLoad(t) \/ ItMark(t) \/ ItGuard(t) \/ Return(t)

-----------------------------------------------------------------------------
(* A loop with an iterator, from begin() to end()                          *)

ScanBegin(t) == /\ Goto(t, "idle", "head")
                /\ Roles[role][t].scans /\ left[t] > 0
                /\ left' = [left EXCEPT ![t] = @ - 1]
                /\ Set(t, [then |-> "scan"])
                /\ scan' = [scan EXCEPT ![t] = [met |-> {}, due |-> {k \in Key : map[k] # Absent}]]
                /\ UNCHANGED <<rvars, next, data, role, history>>

\* cur.acquire(*info.prev): load, publish and validate
Head(t) == /\ pc[t] = "head"
           /\ Continue(t, IF At(t).ptr = Null THEN "next_bucket" ELSE "head_check")
           /\ Publish(t, info[t].cur, At(t).ptr)
           /\ Quiet /\ UNCHANGED <<next, info>>

HeadCheck(t) == /\ Goto(t, "head_check", IF At(t).ptr = Cur(t) THEN "visit" ELSE "head")
                /\ Pure /\ UNCHANGED <<info, res>>

\* Mutant of NextBucket: it loses the last bucket.
NextBucketShort(t) ==
    /\ Goto(t, "next_bucket", IF info[t].bucket + 1 < Buckets - 1 THEN "head" ELSE "end")
    /\ Release(t, {info[t].save})
    /\ Set(t, [bucket |-> info[t].bucket + 1, prev |-> info[t].bucket + 1])
    /\ Quiet /\ UNCHANGED <<next, res>>

\* move_to_next_bucket(), or the end
NextBucket(t) ==
    /\ Goto(t, "next_bucket", IF info[t].bucket < Buckets - 1 THEN "head" ELSE "end")
    /\ Release(t, {info[t].save})
    /\ Set(t, [bucket |-> info[t].bucket + 1, prev |-> info[t].bucket + 1])
    /\ Quiet /\ UNCHANGED <<next, res>>

\* The body of the loop
Visit(t) == /\ Goto(t, "visit", "step")
            /\ Set(t, [key |-> data[Cur(t)].key])
            /\ scan' = [scan EXCEPT ![t].met = @ \union {data[Cur(t)].key}]
            /\ UNCHANGED <<rvars, next, data, role, left, history>>

\* operator++: a node that is marked is searched for, which unlinks it ...
Step(t) == /\ Goto(t, "step", IF next[Cur(t)].mark THEN "enter" ELSE "step_check")
           /\ IF next[Cur(t)].mark THEN UNCHANGED <<slot, pinned>>
              ELSE Publish(t, info[t].new, next[Cur(t)].ptr)
           /\ Set(t, [next |-> next[Cur(t)]])
           /\ Quiet /\ UNCHANGED <<next, res>>

StepCheckFails(t) == /\ Goto(t, "step_check", "enter")
                     /\ next[Cur(t)] # info[t].next
                     /\ Release(t, {info[t].new})
                     /\ Quiet /\ UNCHANGED <<next, info, res>>

\* ... otherwise save = cur, cur = next
StepCheck(t) == /\ Goto(t, "step_check", IF info[t].next.ptr = Null THEN "next_bucket" ELSE "visit")
                /\ next[Cur(t)] = info[t].next
                /\ Set(t, [prev |-> Cur(t), save |-> info[t].cur, cur |-> info[t].new, new |-> info[t].save])
                /\ Release(t, {info[t].save})
                /\ Quiet /\ UNCHANGED <<next, res>>

ScanEnd(t) == /\ Goto(t, "end", "idle")
              /\ Release(t, Slot)
              /\ info' = [info EXCEPT ![t] = NoInfo]
              /\ scan' = [scan EXCEPT ![t] = [met |-> {}, due |-> {}]]
              /\ UNCHANGED <<status, next, data, role, left, history>>

ScanStep(t) == \/ ScanBegin(t) \/ Head(t) \/ HeadCheck(t) \/ NextBucket(t) \/ Visit(t)
               \/ Step(t) \/ StepCheckFails(t) \/ StepCheck(t) \/ ScanEnd(t)

-----------------------------------------------------------------------------
\* ~harris_michael_hash_map, when no thread is left that uses the map
Destroy == /\ \A t \in Thread : pc[t] = "idle" /\ left[t] = 0
           /\ pc' = [t \in Thread |-> "gone"]
           /\ status' = [n \in Node |-> IF \E b \in Bucket : \E i \in DOMAIN ListOf(b) : ListOf(b)[i] = n
                                        THEN "free" ELSE status[n]]
           /\ next' = [l \in Bucket \union Node |-> Link(Null)]
           /\ UNCHANGED <<slot, pinned, data, info, role, left, scan, call, could, res>>

Delete(n) == Reclaim(n) /\ UNCHANGED <<slot, pinned, next, data, pc, info, role, left, scan, history>>

Next == \/ \E t \in Thread : \/ \E c \in MapCalls : Call(t, c)
                           \/ CallStep(t) \/ FindStep(t) \/ ScanStep(t)
        \/ Destroy
        \/ \E n \in Node : Delete(n)

Spec == Init /\ [][Next]_vars

-----------------------------------------------------------------------------
(* Properties                                                              *)

TypeOK == /\ RTypeOK
          /\ next \in [Bucket \union Node -> [ptr : Node \union {Null}, mark : BOOLEAN]]
          /\ data \in [Node -> [key : Key, val : Value] \union {NoCall}]
          /\ \A t \in Thread : /\ info[t].prev \in 0..Buckets \union Node
                             /\ info[t].next \in [ptr : Node \union {Null}, mark : BOOLEAN]
                             /\ {info[t].cur, info[t].save, info[t].new} = Slot \ {"start"}
                             /\ scan[t] \in [met : SUBSET Key, due : SUBSET Key]

\* The nodes whose fields thread t touches in its next step
Touched(t) ==
    (CASE pc[t] \in {"first", "acquire", "validate", "splice", "insert", "unlink", "head", "head_check"}
             -> {info[t].prev}
       [] pc[t] = "check" -> {info[t].prev, Cur(t)}
       [] pc[t] \in {"load", "use", "inserted", "mark", "it_load", "it_mark", "visit", "step", "step_check"}
             -> {Cur(t)}
       [] OTHER -> {}) \ Bucket

\* A thread touches neither null nor a node that is deleted, and it retires only
\* what is not retired: what its guards refer to has been protected all the time.
MemorySafe == \A t \in Thread :
    /\ \A n \in Touched(t) : n \in Node /\ status[n] # "free"
    /\ pc[t] \in {"retire", "reclaim"} => status[Cur(t)] = "live"

\* Every node that is not deleted is in the list of its bucket once, in the
\* hands of the one thread that made it or unlinked it, or retired: nothing
\* leaks.  No node stands behind one where a search for its key would stop, and
\* a marked one is in the list no longer than the erase that marked it.
NodesOwned == \A n \in Node :
    LET places == {p \in Bucket \X (0..Cardinality(Node)) : ListOf(p[1])[p[2]] = n}
        holders == {t \in Thread : info[t].mine = n \/ (pc[t] \in {"retire", "reclaim"} /\ Cur(t) = n)}
    IN /\ Cardinality(places) + Cardinality(holders) = (IF status[n] = "live" THEN 1 ELSE 0)
       /\ \A p \in places :
             /\ p[1] = BucketOf(data[n].key)
             /\ \A j \in 0..(p[2] - 1) :
                   ~next[n].mark => ~GreaterOrEqual(data[ListOf(p[1])[j]].key, data[n].key)
       /\ places # {} /\ next[n].mark =>
             \E t \in Thread : info[t].then = "success" /\ info[t].key = data[n].key /\ pc[t] # "done"

\* No key has two elements, whoever inserts it.
OneElementPerKey == \A k \in Key : Cardinality(Present(k)) <= 1

\* A loop meets every element that is in the map all the time.
ScanComplete == \A t \in Thread : pc[t] = "end" => scan[t].due \subseteq scan[t].met

\* Every call takes effect, or reads, at one moment (module ConcurrentMap),
\* until the destructor ends the map.
Linearizable == M!MInit /\ [][M!MNext \/ Destroy]_(M!mvars)
=============================================================================
