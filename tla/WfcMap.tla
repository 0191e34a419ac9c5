------------------------------- MODULE WfcMap -------------------------------
(***************************************************************************)
(* wfc::unordered_map (src/wfc/unordered_map.hpp): a tree of arrays.  The  *)
(* head has 2^ArrayLength places, every other array ArrayLength; a place   *)
(* is empty, refers to a data node or to an array one level down.  An      *)
(* insert that meets a node with another hash replaces it by an array that *)
(* holds it.  A thread announces the node it is about to read in           *)
(* m_watched_nodes; whoever unlinks a node deletes it when no other thread *)
(* watches it.                                                             *)
(*                                                                         *)
(* The hash is the identity, as in the benchmark, so that two keys part    *)
(* before the last level and insert returns from inside its loop.  A weak  *)
(* CAS fails only if the values differ, as compiled for x86.  No call sees *)
(* a place change more than max_fail_count times, so that the marking of   *)
(* data nodes (lines 266-269 and 693-698), and all that follows from it,   *)
(* does not occur.  visit() is for one thread alone and is left out.       *)
(***************************************************************************)
EXTENDS Naturals, Sequences, FiniteSets

CONSTANTS Thread, Key, Value, Node,
          ArrayLength, ArrayPow,  \* m_arrayLength, and its logarithm
          HashBits,               \* hash_size_in_bits
          Null, Array,            \* contents of a place besides data nodes
          Free,                   \* the contents of an address that is not allocated
          NoCall,
          Roles,                  \* Roles[i][t]: the calls that thread t makes in workload i
          MaxSize                 \* bound for TLC: no insert begins when m_size has reached it

ASSUME LengthAssumption == ArrayLength = 2 ^ ArrayPow /\ ArrayPow \in Nat \ {0}
ASSUME KeyAssumption == /\ HashBits \in Nat /\ ArrayPow < HashBits
                        /\ Key # {} /\ Key \subseteq 0..(2 ^ HashBits - 1)
ASSUME ContentAssumption == /\ Null # Array
                            /\ Null \notin Node \union Value /\ Array \notin Node \union Value
                            /\ Free \notin [key : Key, val : Value]

VARIABLES tree,     \* tree[p][i]: the arrays, named by the positions that lead to them
          heap,     \* heap[n]: the hash (key) and value of a node
          watched,  \* watched[t]: m_watched_nodes
          size,     \* m_size
          role,     \* the workload
          pc,
          loc, lvl, \* local and r / nbr_bits_to_shift
          node,     \* the local variable node, or old_value of expand_node
          mine,     \* mine[t]: the new node of t, until it is in the tree
          seen,     \* seen[t]: the threads whose watched node safe_delete has read
          call, could, res  \* as in module ConcurrentMap

locals == <<loc, lvl, node, mine, seen>>
history == <<call, could, res>>
vars == <<tree, heap, watched, size, role, pc, locals, history>>

AllCalls == UNION {Roles[i][t] : i \in DOMAIN Roles, t \in Thread}
ASSUME CallAssumption ==
    /\ NoCall \notin AllCalls
    /\ \A c \in AllCalls : c.op \in {"insert", "get", "update", "remove"} /\ c.key \in Key /\ c.val \in Value
ASSUME AnswerAssumption ==
    /\ "success" \notin Value \union {Null}
    /\ NoCall \notin Value \union {Null, "success", "already_present", "element_not_found",
                                  "expected_value_mismatch"}

-----------------------------------------------------------------------------
(* Positions                                                               *)

\* compute_pos_and_hash
Pos(k, l) == IF l = 0 THEN k % 2 ^ ArrayLength
             ELSE (k \div 2 ^ (ArrayLength + ArrayPow * (l - 1))) % ArrayLength

\* Mutant of NewPos: every level takes ArrayPow bits, the head too.
NewPosOfEqualLevels(k, l) == (k \div 2 ^ (ArrayPow * (l + 1))) % ArrayLength

\* new_pos of expand_node
NewPos(k, l) == (k \div 2 ^ (ArrayLength + ArrayPow * l)) % ArrayLength

\* The rounds of "r < hash_size_in_bits - nbr_bits_to_shift; r += nbr_bits_to_shift"
Levels == Cardinality({r \in 0..HashBits : r < HashBits - ArrayPow /\ r % ArrayPow = 0})

\* Facts of arithmetic that hold whatever the constants are; the proof system has
\* no powers.  Arrays have places, and a hash is used up after Levels rounds.
ASSUME PowerAssumption == /\ ArrayLength \in Nat \ {0} /\ ArrayLength <= 2 ^ ArrayLength
                          /\ \A l \in 0..Levels : 2 ^ (ArrayLength + ArrayPow * l) \in Nat \ {0}
ASSUME PartAssumption ==
    \A j, k \in Key : (\A l \in 0..(Levels - 1) : Pos(j, l) = Pos(k, l)) => j = k

pos(t) == Pos(call[t].key, lvl[t])
At(t) == tree[loc[t]][pos(t)]
Put(t, x) == tree' = [tree EXCEPT ![loc[t]][pos(t)] = x]

PathTo(k, l) == [i \in 1..l |-> Pos(k, i - 1)]
Leaf(k) == LET l == CHOOSE l \in 0..Levels : /\ PathTo(k, l) \in DOMAIN tree
                                             /\ PathTo(k, l + 1) \notin DOMAIN tree
           IN tree[PathTo(k, l)][Pos(k, l)]

\* The map that the tree stands for: what a lookup of k comes to
ValueAt(k, x) == IF x \in Node /\ heap[x] # Free /\ heap[x].key = k THEN heap[x].val ELSE Null
map == [k \in Key |-> ValueAt(k, Leaf(k))]

M == INSTANCE ConcurrentMap WITH Absent <- Null, Calls <- AllCalls

Init == /\ tree = [p \in {<< >>} |-> [i \in 0..(2 ^ ArrayLength - 1) |-> Null]]
        /\ heap = [n \in Node |-> Free]
        /\ watched = [t \in Thread |-> Null]
        /\ size = 0
        /\ role \in DOMAIN Roles
        /\ pc = [t \in Thread |-> "idle"]
        /\ loc = [t \in Thread |-> << >>]
        /\ lvl = [t \in Thread |-> 0]
        /\ node = [t \in Thread |-> Null]
        /\ mine = [t \in Thread |-> Null]
        /\ seen = [t \in Thread |-> {}]
        /\ call = [t \in Thread |-> NoCall]
        /\ could = [t \in Thread |-> {}]
        /\ res = [t \in Thread |-> NoCall]

Goto(t, from, to) == pc[t] = from /\ pc' = [pc EXCEPT ![t] = to]
Keep == UNCHANGED <<tree, heap, size, role, mine, seen, history>>

\* The call is decided; clear_watched_node() and return follow.
Answer(t, a) == /\ pc' = [pc EXCEPT ![t] = "clear"]
                /\ res' = [res EXCEPT ![t] = a]

\* local = node, and the next round of the loop
Descend(t, to) == /\ loc' = [loc EXCEPT ![t] = Append(@, pos(t))]
                  /\ lvl' = [lvl EXCEPT ![t] = @ + 1]
                  /\ pc' = [pc EXCEPT ![t] = to]

\* watch_node(node)
Watch(t, from, to) == /\ Goto(t, from, to)
                      /\ watched' = [watched EXCEPT ![t] = node[t]]
                      /\ Keep /\ UNCHANGED <<loc, lvl, node>>

New(t, n) == /\ heap[n] = Free
             /\ heap' = [heap EXCEPT ![n] = [key |-> call[t].key, val |-> call[t].val]]
             /\ mine' = [mine EXCEPT ![t] = n]

\* delete of the thread's own new node, which no other thread knows
DeleteMine(t) == /\ heap' = [heap EXCEPT ![mine[t]] = Free]
                 /\ mine' = [mine EXCEPT ![t] = Null]

\* The call of thread t takes effect.
Effect(t) == M!Witness(t, map') /\ UNCHANGED <<call, res>>

Call(t, c) == /\ Goto(t, "idle", IF c.op \in {"insert", "get"} THEN c.op ELSE "modify")
              /\ c \in Roles[role][t]
              /\ c.op = "insert" => size < MaxSize
              /\ call' = [call EXCEPT ![t] = c]
              /\ could' = [could EXCEPT ![t] = M!Answers(c, map)]
              /\ UNCHANGED <<tree, heap, watched, size, role, locals, res>>

\* clear_watched_node(), and the return
Clear(t) == /\ Goto(t, "clear", "idle")
            /\ watched' = [watched EXCEPT ![t] = Null]
            /\ loc' = [loc EXCEPT ![t] = << >>]
            /\ lvl' = [lvl EXCEPT ![t] = 0]
            /\ node' = [node EXCEPT ![t] = Null]
            /\ mine' = [mine EXCEPT ![t] = Null]
            /\ call' = [call EXCEPT ![t] = NoCall]
            /\ could' = [could EXCEPT ![t] = {}]
            /\ res' = [res EXCEPT ![t] = NoCall]
            /\ UNCHANGED <<tree, heap, size, role, seen>>

-----------------------------------------------------------------------------
(* insert                                                                  *)

\* The top of the inner loop with node = x
InsertConsider(t, x) ==
    /\ node' = [node EXCEPT ![t] = x]
    /\ \/ /\ x = Array
          /\ Descend(t, "insert")
          /\ UNCHANGED <<heap, mine>>
       \/ /\ x = Null
          /\ \E n \in Node : New(t, n)
          /\ pc' = [pc EXCEPT ![t] = "i_cas"]
          /\ UNCHANGED <<loc, lvl>>
       \/ /\ x \in Node
          /\ pc' = [pc EXCEPT ![t] = "i_watch"]
          /\ UNCHANGED <<loc, lvl, heap, mine>>
    /\ UNCHANGED <<tree, watched, size, role, seen, history>>

InsertLoad(t) == pc[t] = "insert" /\ InsertConsider(t, At(t))

\* try_node_insertion: the CAS
InsertCas(t) == /\ Goto(t, "i_cas", "i_count")
                /\ At(t) = Null
                /\ Put(t, mine[t])
                /\ mine' = [mine EXCEPT ![t] = Null]
                /\ UNCHANGED <<heap, watched, size, role, loc, lvl, node, seen>>
                /\ Effect(t)

\* ... and its failure, which deletes the new node
InsertCasFails(t) == /\ Goto(t, "i_cas", "i_reload")
                     /\ At(t) # Null
                     /\ DeleteMine(t)
                     /\ UNCHANGED <<tree, watched, size, role, loc, lvl, node, seen, history>>

\* ++m_size
InsertCount(t) == /\ pc[t] = "i_count"
                  /\ size' = size + 1
                  /\ Answer(t, "success")
                  /\ UNCHANGED <<tree, heap, watched, role, locals, call, could>>

\* datanode = array[position].load(): no new node is made if it is null now
InsertReload(t) == /\ pc[t] = "i_reload"
                   /\ node' = [node EXCEPT ![t] = At(t)]
                   /\ IF At(t) = Array
                      THEN Descend(t, "insert")
                      ELSE pc' = [pc EXCEPT ![t] = "i_watch"] /\ UNCHANGED <<loc, lvl>>
                   /\ watched' = watched /\ Keep

InsertWatch(t) == Watch(t, "i_watch", "i_check")

InsertCheck(t) == /\ pc[t] = "i_check"
                  /\ At(t) = node[t]
                  /\ pc' = [pc EXCEPT ![t] = "i_hash"]
                  /\ Keep /\ UNCHANGED <<watched, loc, lvl, node>>

InsertCheckFails(t) == /\ pc[t] = "i_check"
                       /\ At(t) # node[t]
                       /\ InsertConsider(t, At(t))

\* node.datanode_ptr->hash == fullhash
InsertHash(t) ==
    /\ pc[t] = "i_hash" /\ node[t] \in Node
    /\ \/ /\ heap[node[t]].key = call[t].key
          /\ Answer(t, "already_present")
       \/ /\ heap[node[t]].key # call[t].key
          /\ pc' = [pc EXCEPT ![t] = "x_load"]
          /\ UNCHANGED res
    /\ UNCHANGED <<tree, heap, watched, size, role, locals, call, could>>

\* expand_node, which only insert calls as long as nothing is marked
ExpandLoad(t) == /\ Goto(t, "x_load", "x_watch")
                 /\ node' = [node EXCEPT ![t] = At(t)]
                 /\ Keep /\ UNCHANGED <<watched, loc, lvl>>

ExpandWatch(t) == /\ pc[t] = "x_watch"
                  /\ watched' = [watched EXCEPT ![t] = node[t]]
                  /\ IF node[t] = Array
                     THEN Descend(t, "insert")
                     ELSE pc' = [pc EXCEPT ![t] = "x_check"] /\ UNCHANGED <<loc, lvl>>
                  /\ Keep /\ UNCHANGED node

ExpandCheck(t) == /\ pc[t] = "x_check"
                  /\ At(t) = node[t]
                  /\ pc' = [pc EXCEPT ![t] = IF node[t] = Null THEN "x_last" ELSE "x_cas"]
                  /\ Keep /\ UNCHANGED <<watched, loc, lvl, node>>

ExpandCheckFails(t) == /\ pc[t] = "x_check"
                       /\ At(t) # node[t]
                       /\ InsertConsider(t, At(t))

\* A new array with the old node at its place in it
Expanded(t) ==
    LET p == Append(loc[t], pos(t))
        at == NewPos(heap[node[t]].key, lvl[t])
    IN [q \in DOMAIN tree \union {p} |->
          IF q = p THEN [i \in 0..(ArrayLength - 1) |-> IF i = at THEN node[t] ELSE Null]
          ELSE IF q = loc[t] THEN [tree[q] EXCEPT ![pos(t)] = Array]
          ELSE tree[q]]

\* Mutants of ExpandCas: an exchange without comparison, and the new array
\* forgotten in the place of the node.
ExpandByStore(t) == /\ Goto(t, "x_cas", "x_last") /\ node[t] \in Node
                    /\ tree' = Expanded(t)
                    /\ UNCHANGED <<heap, watched, size, role, locals, history>>

ExpandCas(t) == /\ Goto(t, "x_cas", "x_last") /\ node[t] \in Node
                /\ tree' = IF At(t) = node[t] THEN Expanded(t) ELSE tree
                /\ UNCHANGED <<heap, watched, size, role, locals, history>>

ExpandLast(t) == pc[t] = "x_last" /\ InsertConsider(t, At(t))

-----------------------------------------------------------------------------
(* get, update and remove                                                  *)

Miss(t) == Answer(t, IF call[t].op = "get" THEN Null ELSE "element_not_found")

\* local = node, or the next round without it; no round may be left
NextRound(t, l) == /\ loc' = [loc EXCEPT ![t] = l]
                   /\ lvl' = [lvl EXCEPT ![t] = @ + 1]
                   /\ IF lvl[t] + 1 < Levels
                      THEN /\ pc' = [pc EXCEPT ![t] = IF call[t].op = "get" THEN "get" ELSE "modify"]
                           /\ UNCHANGED res
                      ELSE Miss(t)

Deeper(t) == NextRound(t, Append(loc[t], pos(t)))

GetLoad(t) ==
    /\ pc[t] = "get"
    /\ node' = [node EXCEPT ![t] = At(t)]
    /\ \/ At(t) = Array /\ Deeper(t)
       \/ At(t) = Null /\ Miss(t) /\ UNCHANGED <<loc, lvl>>
       \/ /\ At(t) \in Node
          /\ pc' = [pc EXCEPT ![t] = "g_watch"]
          /\ UNCHANGED <<loc, lvl, res>>
    /\ UNCHANGED <<tree, heap, watched, size, role, mine, seen, call, could>>

GetWatch(t) == Watch(t, "g_watch", "g_check")

GetCheck(t) == /\ Goto(t, "g_check", IF At(t) = node[t] THEN "g_read" ELSE "e_load")
               /\ Keep /\ UNCHANGED <<watched, loc, lvl, node>>

\* The node with the hash has the value; any other node ends the search.
GetRead(t) == /\ pc[t] = "g_read" /\ node[t] \in Node
              /\ IF heap[node[t]].key = call[t].key
                 THEN Answer(t, heap[node[t]].val)
                 ELSE Miss(t)
              /\ UNCHANGED <<tree, heap, watched, size, role, locals, call, could>>

\* ensure_not_replaced
EnsureLoad(t) == /\ Goto(t, "e_load", "e_watch")
                 /\ node' = [node EXCEPT ![t] = At(t)]
                 /\ Keep /\ UNCHANGED <<watched, loc, lvl>>

EnsureWatch(t) == Watch(t, "e_watch", "e_check")

EnsureCheckFails(t) == /\ Goto(t, "e_check", "e_load")
                       /\ At(t) # node[t]
                       /\ Keep /\ UNCHANGED <<watched, loc, lvl, node>>

\* get after ensure_not_replaced: with a data node it goes on to the next
\* round, in the same array.
GetAgain(t) ==
    /\ pc[t] = "e_check" /\ At(t) = node[t] /\ call[t].op = "get"
    /\ \/ node[t] = Array /\ Deeper(t)
       \/ node[t] = Null /\ Miss(t) /\ UNCHANGED <<loc, lvl>>
       \/ node[t] \in Node /\ NextRound(t, loc[t])
    /\ UNCHANGED <<tree, heap, watched, size, role, node, mine, seen, call, could>>

\* update_or_remove_impl
ModifyLoad(t) ==
    /\ pc[t] = "modify"
    /\ node' = [node EXCEPT ![t] = At(t)]
    /\ \/ At(t) = Array /\ Deeper(t)
       \/ At(t) = Null /\ Miss(t) /\ UNCHANGED <<loc, lvl>>
       \/ /\ At(t) \in Node
          /\ pc' = [pc EXCEPT ![t] = "m_watch"]
          /\ UNCHANGED <<loc, lvl, res>>
    /\ UNCHANGED <<tree, heap, watched, size, role, mine, seen, call, could>>

ModifyWatch(t) == Watch(t, "m_watch", "m_check")

ModifyCheck(t) == /\ Goto(t, "m_check", IF At(t) = node[t] THEN "m_read" ELSE "e_load")
                  /\ Keep /\ UNCHANGED <<watched, loc, lvl, node>>

\* ... after ensure_not_replaced: a data node is used
ModifyAgain(t) ==
    /\ pc[t] = "e_check" /\ At(t) = node[t] /\ call[t].op # "get"
    /\ \/ node[t] = Array /\ Deeper(t)
       \/ node[t] = Null /\ Miss(t) /\ UNCHANGED <<loc, lvl>>
       \/ /\ node[t] \in Node
          /\ pc' = [pc EXCEPT ![t] = "m_read"]
          /\ UNCHANGED <<loc, lvl, res>>
    /\ UNCHANGED <<tree, heap, watched, size, role, node, mine, seen, call, could>>

\* The hash, the comparison with the expected value, and the replacing node
ModifyRead(t) ==
    /\ pc[t] = "m_read" /\ node[t] \in Node
    /\ \/ /\ heap[node[t]].key # call[t].key
          /\ Miss(t)
          /\ UNCHANGED <<heap, mine>>
       \/ /\ heap[node[t]].key = call[t].key /\ heap[node[t]].val \notin call[t].exp
          /\ Answer(t, "expected_value_mismatch")
          /\ UNCHANGED <<heap, mine>>
       \/ /\ heap[node[t]].key = call[t].key /\ heap[node[t]].val \in call[t].exp
          /\ pc' = [pc EXCEPT ![t] = "m_cas"]
          /\ IF call[t].op = "update" THEN \E n \in Node : New(t, n)
                                      ELSE UNCHANGED <<heap, mine>>
          /\ UNCHANGED res
    /\ UNCHANGED <<tree, watched, size, role, loc, lvl, node, seen, call, could>>

ModifyCas(t) == /\ Goto(t, "m_cas", "s_read")
                /\ At(t) = node[t]
                /\ Put(t, mine[t])
                /\ mine' = [mine EXCEPT ![t] = Null]
                /\ seen' = [seen EXCEPT ![t] = {t}]
                /\ UNCHANGED <<heap, watched, size, role, loc, lvl, node>>
                /\ Effect(t)

ModifyCasFails(t) ==
    /\ Goto(t, "m_cas", "m_reload")
    /\ At(t) # node[t]
    /\ IF mine[t] = Null THEN UNCHANGED <<heap, mine>> ELSE DeleteMine(t)
    /\ UNCHANGED <<tree, watched, size, role, loc, lvl, node, seen, history>>

\* Somebody replaced the node: unless by an array, the key counts as gone.
ModifyReload(t) ==
    /\ pc[t] = "m_reload"
    /\ node' = [node EXCEPT ![t] = At(t)]
    /\ IF At(t) = Array THEN Deeper(t) ELSE Miss(t) /\ UNCHANGED <<loc, lvl>>
    /\ UNCHANGED <<tree, heap, watched, size, role, mine, seen, call, could>>

\* Mutant of SafeDeleteRead: one look at every thread, whatever it watches
SafeDeleteLook(t, u) ==
    /\ pc[t] = "s_read" /\ u \notin seen[t]
    /\ seen' = [seen EXCEPT ![t] = @ \union {u}]
    /\ UNCHANGED <<tree, heap, watched, size, role, pc, loc, lvl, node, mine, history>>

\* safe_delete: read what the other threads watch, from the start again if
\* one of them watches the node
SafeDeleteRead(t, u) ==
    /\ pc[t] = "s_read" /\ u \notin seen[t]
    /\ seen' = [seen EXCEPT ![t] = IF watched[u] = node[t] THEN {t} ELSE @ \union {u}]
    /\ UNCHANGED <<tree, heap, watched, size, role, pc, loc, lvl, node, mine, history>>

SafeDelete(t) == /\ pc[t] = "s_read" /\ seen[t] = Thread
                 /\ heap' = [heap EXCEPT ![node[t]] = Free]
                 /\ seen' = [seen EXCEPT ![t] = {}]
                 /\ Answer(t, "success")
                 /\ UNCHANGED <<tree, watched, size, role, loc, lvl, node, mine, call, could>>

-----------------------------------------------------------------------------
InsertStep(t) == \/ InsertLoad(t) \/ InsertCas(t) \/ InsertCasFails(t) \/ InsertCount(t)
                 \/ InsertReload(t) \/ InsertWatch(t) \/ InsertCheck(t)
                 \/ InsertCheckFails(t) \/ InsertHash(t)

ExpandStep(t) == \/ ExpandLoad(t) \/ ExpandWatch(t) \/ ExpandCheck(t)
                 \/ ExpandCheckFails(t) \/ ExpandCas(t) \/ ExpandLast(t)

GetStep(t) == \/ GetLoad(t) \/ GetWatch(t) \/ GetCheck(t) \/ GetRead(t) \/ GetAgain(t)

EnsureStep(t) == EnsureLoad(t) \/ EnsureWatch(t) \/ EnsureCheckFails(t)

ModifyStep(t) == \/ ModifyLoad(t) \/ ModifyWatch(t) \/ ModifyCheck(t) \/ ModifyAgain(t)
                 \/ ModifyRead(t) \/ ModifyCas(t) \/ ModifyCasFails(t) \/ ModifyReload(t)

DeleteStep(t) == SafeDelete(t) \/ \E u \in Thread : SafeDeleteRead(t, u)

Next == \E t \in Thread :
           \/ \E c \in AllCalls : Call(t, c)
           \/ InsertStep(t) \/ ExpandStep(t) \/ GetStep(t) \/ EnsureStep(t)
           \/ ModifyStep(t) \/ DeleteStep(t) \/ Clear(t)

Spec == Init /\ [][Next]_vars

-----------------------------------------------------------------------------
(* Properties                                                              *)

Path == {PathTo(k, l) : k \in Key, l \in 0..Levels}
PC == {"idle", "clear", "insert", "i_cas", "i_count", "i_reload", "i_watch", "i_check", "i_hash",
       "x_load", "x_watch", "x_check", "x_cas", "x_last", "get", "g_watch", "g_check", "g_read",
       "e_load", "e_watch", "e_check", "modify", "m_watch", "m_check", "m_read", "m_cas",
       "m_reload", "s_read"}
Content == Node \union {Null, Array}

\* Each thread's local variables fit its place in the code; an array is under
\* exactly the places that refer to one.
TypeOK ==
    /\ DOMAIN tree \subseteq Path
    /\ \A p \in DOMAIN tree : tree[p] \in
          [0..(IF p = << >> THEN 2 ^ ArrayLength ELSE ArrayLength) - 1 -> Content]
    /\ \A p \in Path \ {<< >>} :
          p \in DOMAIN tree <=> /\ SubSeq(p, 1, Len(p) - 1) \in DOMAIN tree
                              /\ tree[SubSeq(p, 1, Len(p) - 1)][p[Len(p)]] = Array
    /\ heap \in [Node -> [key : Key, val : Value] \union {Free}]
    /\ watched \in [Thread -> Content]
    /\ size \in Nat
    /\ pc \in [Thread -> PC]
    /\ \A t \in Thread : loc[t] \in DOMAIN tree /\ lvl[t] \in 0..Levels
    /\ node \in [Thread -> Content] /\ mine \in [Thread -> Node \union {Null}]
    /\ seen \in [Thread -> SUBSET Thread]

\* The node whose fields a thread is about to read (node.datanode_ptr->...), or
\* which it is about to delete, exists: neither null nor deleted.
MemorySafe == \A t \in Thread :
    pc[t] \in {"i_hash", "x_cas", "g_read", "m_read", "s_read"} =>
       node[t] \in Node /\ heap[node[t]] # Free

Places(n) == {x \in (DOMAIN tree) \X (0..(2 ^ ArrayLength - 1)) :
                x[2] \in DOMAIN tree[x[1]] /\ tree[x[1]][x[2]] = n}

\* Every node that is allocated is in the tree once, where its hash leads, or
\* in the hands of the one thread that made it or that will delete it: nothing
\* leaks, nothing is deleted twice, and expand_node keeps every key findable.
NodesOwned == \A n \in Node :
    LET holders == {t \in Thread : mine[t] = n \/ (pc[t] = "s_read" /\ node[t] = n)} IN
    /\ Cardinality(Places(n)) + Cardinality(holders) = (IF heap[n] = Free THEN 0 ELSE 1)
    /\ Places(n) # {} => Leaf(heap[n].key) = n

\* Every operation appears to happen at one moment during its call: a get
\* returns a value the key had, success, already_present, element_not_found and
\* expected_value_mismatch tell the truth (enum operation_result).
Linearizable == M!MSpec
=============================================================================
