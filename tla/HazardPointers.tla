--------------------------- MODULE HazardPointers ---------------------------
(***************************************************************************)
(* xenium::reclamation::hazard_pointer with the static allocation strategy *)
(* (src/xenium/reclamation/impl/hazard_pointer.hpp) and the list of thread *)
(* control blocks it keeps (detail/thread_block_list.hpp).                 *)
(*                                                                         *)
(* Every access of memory that another thread may touch is one step.  The  *)
(* clients are arbitrary: they acquire guards from shared cells, move,     *)
(* copy and reset them, unlink nodes from cells and reclaim them, and they *)
(* end and begin again.  Lists of retired nodes are modelled as sets.      *)
(*                                                                         *)
(* pinned is a history variable, the one of module Reclaimer.              *)
(***************************************************************************)
EXTENDS Naturals, Sequences, FiniteSets

CONSTANTS Thread,
          Block,    \* addresses of thread control blocks
          Node,     \* addresses of nodes; a deleted node's address is reused
          Cell,     \* the shared pointers (concurrent_ptr) of the clients
          GuardId,  \* the guard_ptrs of one thread
          K,        \* Strategy::K, hazard pointers per control block
          A, B,     \* the threshold of retired nodes is A * active hps + B
          InUse,    \* a bound for TLC: how many nodes clients use at a time,
                    \* if they copy guards (InUse[TRUE]) and if they do not
          Null, Link

ASSUME KAssumption == K \in Nat \ {0} /\ A \in Nat /\ B \in Nat
ASSUME InUseAssumption == InUse \in [BOOLEAN -> Nat]
ASSUME HPNullAssumption == Null \notin Node \union Block /\ Link \notin Node \union {Null}

VARIABLES
  cell,       \* cell[c]: the node a shared pointer refers to
  status,     \* "free", "live" or "retired"
  blocks,     \* global_thread_block_list, from its head
  state,      \* state[b]: entry_state of a block ("none": not allocated yet)
  hp,         \* hp[b][i]: a node, Null, or Link in the list of unused hps
  abandoned,  \* abandoned_retired_nodes
  activeHps,  \* number_of_active_hps
  block,      \* thread_data::control_block
  hint,       \* thread_data::hint: the list of unused hps, as a stack
  retired,    \* thread_data::retire_list
  ptr, hpOf,  \* guard_ptr::ptr and guard_ptr::hp (0: nullptr)
  pc, op, gd, src, p1,  \* the operation, its guard, its cell, its pointer
  todo, idx,        \* scan, acquire_entry: the blocks ahead, the next slot
  adopted, prot,    \* scan: adopted_nodes, protected_pointers
  pending,          \* reclaim_nodes: the nodes it has still to look at
  after,            \* where scan returns to
  pinned,           \* history: guards that keep a retired node from deletion
  copies            \* whether the clients copy guards: never changes

nodes == <<cell, status>>
global == <<blocks, state, hp, abandoned, activeHps>>
own == <<block, hint, retired, ptr, hpOf>>
scanning == <<todo, idx, adopted, prot, pending, after>>
call == <<op, gd, src, p1>>
vars == <<nodes, global, own, pc, call, scanning, pinned, copies>>

TypeOK ==
    /\ cell \in [Cell -> Node \union {Null}]
    /\ status \in [Node -> {"free", "live", "retired"}]
    /\ blocks \in Seq(Block)
    /\ state \in [Block -> {"none", "free", "active"}]
    /\ hp \in [Block -> [1..K -> Node \union {Null, Link}]]
    /\ abandoned \in SUBSET Node
    /\ activeHps \in Nat
    /\ block \in [Thread -> Block \union {Null}]
    /\ hint \in [Thread -> Seq(1..K)]
    /\ retired \in [Thread -> SUBSET Node]
    /\ ptr \in [Thread -> [GuardId -> Node \union {Null}]]
    /\ hpOf \in [Thread -> [GuardId -> 0..K]]
    /\ pc \in [Thread -> {"idle", "entry", "new", "initialize", "publish", "validate", "reset",
                          "retire", "scan", "begin", "block", "slot", "take",
                          "delete", "abandon", "subtract", "release"}]
    /\ op \in [Thread -> {"none", "acquire", "if_equal", "copy", "reclaim"}]
    /\ gd \in [Thread -> GuardId \union {Null}]
    /\ src \in [Thread -> Cell \union {Null}]
    /\ p1 \in [Thread -> Node \union {Null}]
    /\ todo \in [Thread -> Seq(Block)]
    /\ idx \in [Thread -> 1..K]
    /\ adopted \in [Thread -> SUBSET Node]
    /\ prot \in [Thread -> SUBSET Node]
    /\ pending \in [Thread -> SUBSET Node]
    /\ after \in [Thread -> {"idle", "abandon"}]
    /\ pinned \in SUBSET (Thread \X (1..K))
    /\ copies \in BOOLEAN

Init ==
    /\ cell = [c \in Cell |-> Null]
    /\ status = [n \in Node |-> "free"]
    /\ blocks = << >>
    /\ state = [b \in Block |-> "none"]
    /\ hp = [b \in Block |-> [i \in 1..K |-> Null]]
    /\ abandoned = {}
    /\ activeHps = 0
    /\ block = [t \in Thread |-> Null]
    /\ hint = [t \in Thread |-> << >>]
    /\ retired = [t \in Thread |-> {}]
    /\ ptr = [t \in Thread |-> [g \in GuardId |-> Null]]
    /\ hpOf = [t \in Thread |-> [g \in GuardId |-> 0]]
    /\ pc = [t \in Thread |-> "idle"]
    /\ op = [t \in Thread |-> "none"]
    /\ gd = [t \in Thread |-> Null]
    /\ src = [t \in Thread |-> Null]
    /\ p1 = [t \in Thread |-> Null]
    /\ todo = [t \in Thread |-> << >>]
    /\ idx = [t \in Thread |-> 1]
    /\ adopted = [t \in Thread |-> {}]
    /\ prot = [t \in Thread |-> {}]
    /\ pending = [t \in Thread |-> {}]
    /\ after = [t \in Thread |-> "idle"]
    /\ pinned = {}
    /\ copies \in BOOLEAN

Goto(t, from, to) == pc[t] = from /\ pc' = [pc EXCEPT ![t] = to]

-----------------------------------------------------------------------------
(* One hazard pointer                                                      *)

\* set_object(n) on hazard pointer i of thread t
SetObject(t, i, n) ==
    /\ hp' = [hp EXCEPT ![block[t]][i] = n]
    /\ pinned' = IF hp[block[t]][i] = n THEN pinned ELSE pinned \ {<<t, i>>}

\* release_hazard_pointer: the hp becomes the head of the list of unused ones.
ReleaseHp(t, i) ==
    IF i = 0 THEN UNCHANGED <<hp, hint, pinned>>
             ELSE /\ hp' = [hp EXCEPT ![block[t]][i] = Link]
                  /\ hint' = [hint EXCEPT ![t] = <<i>> \o hint[t]]
                  /\ pinned' = pinned \ {<<t, i>>}

\* guard_ptr::reset() of guard g
ResetGuard(t, g) == /\ ReleaseHp(t, hpOf[t][g])
                    /\ hpOf' = [hpOf EXCEPT ![t][g] = 0]
                    /\ ptr' = [ptr EXCEPT ![t][g] = Null]

\* An operation that has reset a guard and returned changes nothing else.
ResetOnly == UNCHANGED <<nodes, blocks, state, abandoned, activeHps, block, retired, scanning, copies>>

Call(t, o, g, c, n) == /\ op' = [op EXCEPT ![t] = o]
                       /\ gd' = [gd EXCEPT ![t] = g]
                       /\ src' = [src EXCEPT ![t] = c]
                       /\ p1' = [p1 EXCEPT ![t] = n]

Return(t) == Call(t, "none", Null, Null, Null)

-----------------------------------------------------------------------------
(* Acquiring and copying guards                                            *)

\* alloc_hazard_pointer, unless guard g has one.  The first one of a thread
\* needs a control block.  A thread that has used up its K hazard pointers
\* gets an exception and its guard stays as it is: no step.
EnsureHp(t, g) ==
    \/ /\ hpOf[t][g] # 0
       /\ Goto(t, "idle", "publish")
       /\ UNCHANGED <<hpOf, hint, todo>>
    \/ /\ hpOf[t][g] = 0 /\ block[t] # Null /\ hint[t] # << >>
       /\ Goto(t, "idle", "publish")
       /\ hpOf' = [hpOf EXCEPT ![t][g] = Head(hint[t])]
       /\ hint' = [hint EXCEPT ![t] = Tail(hint[t])]
       /\ UNCHANGED todo
    \/ /\ hpOf[t][g] = 0 /\ block[t] = Null
       /\ Goto(t, "idle", "entry")
       /\ todo' = [todo EXCEPT ![t] = blocks]
       /\ UNCHANGED <<hpOf, hint>>

Guarding(t, g) ==
    /\ EnsureHp(t, g)
    /\ UNCHANGED <<nodes, global, block, retired, ptr, idx, adopted, prot, pending, after, pinned, copies>>

\* acquire(c): p.load() finds another node than the guard has.
Acquire(t, g, c) == /\ pc[t] = "idle"
                    /\ cell[c] \notin {Null, ptr[t][g]}
                    /\ Call(t, "acquire", g, c, cell[c])
                    /\ Guarding(t, g)

\* acquire_if_equal(c, expected): p.load() finds the node it expects.
AcquireIfEqual(t, g, c) == /\ pc[t] = "idle"
                           /\ cell[c] # Null
                           /\ Call(t, "if_equal", g, c, cell[c])
                           /\ Guarding(t, g)

\* Copy assignment, and copy construction when f has a node
Copy(t, f, g) == /\ pc[t] = "idle"
                 /\ copies /\ f # g
                 /\ Call(t, "copy", g, Null, ptr[t][f])
                 /\ Guarding(t, g)

\* acquire_entry: adopt the first block of the list that is free ...
AdoptEntryNoCas(t) ==
    /\ pc[t] = "entry" /\ todo[t] # << >>
    /\ Goto(t, "entry", "initialize")
    /\ block' = [block EXCEPT ![t] = Head(todo[t])]
    /\ todo' = [todo EXCEPT ![t] = << >>]
    /\ UNCHANGED state
    /\ UNCHANGED <<nodes, blocks, hp, abandoned, activeHps, hint, retired, ptr, hpOf,
                   call, idx, adopted, prot, pending, after, pinned, copies>>

AdoptEntry(t) ==
    /\ pc[t] = "entry" /\ todo[t] # << >>
    /\ \/ /\ state[Head(todo[t])] = "free"
          /\ Goto(t, "entry", "initialize")
          /\ state' = [state EXCEPT ![Head(todo[t])] = "active"]
          /\ block' = [block EXCEPT ![t] = Head(todo[t])]
          /\ todo' = [todo EXCEPT ![t] = << >>]
       \/ /\ state[Head(todo[t])] # "free"
          /\ Goto(t, "entry", "entry")
          /\ todo' = [todo EXCEPT ![t] = Tail(todo[t])]
          /\ UNCHANGED <<state, block>>
    /\ UNCHANGED <<nodes, blocks, hp, abandoned, activeHps, hint, retired, ptr, hpOf,
                   call, idx, adopted, prot, pending, after, pinned, copies>>

\* ... or else put a new block at the head of the list (add_entry).
AddEntry(t, b) ==
    /\ Goto(t, "entry", "initialize")
    /\ todo[t] = << >> /\ state[b] = "none"
    /\ state' = [state EXCEPT ![b] = "active"]
    /\ blocks' = <<b>> \o blocks
    /\ block' = [block EXCEPT ![t] = b]
    /\ UNCHANGED <<nodes, hp, abandoned, activeHps, hint, retired, ptr, hpOf,
                   call, scanning, pinned, copies>>

\* initialize(hint), then alloc_hazard_pointer for the waiting guard
Initialize(t) ==
    /\ Goto(t, "initialize", "publish")
    /\ activeHps' = activeHps + K
    /\ hp' = [hp EXCEPT ![block[t]] = [i \in 1..K |-> Link]]
    /\ hint' = [hint EXCEPT ![t] = [i \in 1..(K - 1) |-> i + 1]]
    /\ hpOf' = [hpOf EXCEPT ![t][gd[t]] = 1]
    /\ UNCHANGED <<nodes, blocks, state, abandoned, block, retired, ptr, call,
                   scanning, pinned, copies>>

\* set_object; a copy is complete with it.
Publish(t) ==
    /\ pc[t] = "publish"
    /\ SetObject(t, hpOf[t][gd[t]], p1[t])
    /\ \/ /\ op[t] = "copy"
          /\ Goto(t, "publish", "idle")
          /\ ptr' = [ptr EXCEPT ![t][gd[t]] = p1[t]]
          /\ Return(t)
       \/ /\ op[t] # "copy"
          /\ Goto(t, "publish", "validate")
          /\ UNCHANGED <<ptr, call>>
    /\ UNCHANGED <<nodes, blocks, state, abandoned, activeHps, block, hint, retired, hpOf, scanning, copies>>

\* The second load: the guard owns the node only if the cell still has it.
NotValidated(t) ==
    /\ Goto(t, "validate", "idle")
    /\ ptr' = [ptr EXCEPT ![t][gd[t]] = p1[t]]
    /\ Return(t)
    /\ UNCHANGED <<hp, hint, hpOf, pinned>>
    /\ ResetOnly

Validate(t) ==
    /\ pc[t] = "validate"
    /\ LET p2 == cell[src[t]] IN
       \/ /\ p2 = p1[t]
          /\ Goto(t, "validate", "idle")
          /\ ptr' = [ptr EXCEPT ![t][gd[t]] = p2]
          /\ Return(t)
          /\ UNCHANGED <<hp, hint, hpOf, pinned>>
       \/ /\ p2 # p1[t] /\ (p2 = Null \/ op[t] = "if_equal")
          /\ Goto(t, "validate", "idle")
          /\ ResetGuard(t, gd[t])
          /\ Return(t)
       \/ /\ p2 # p1[t] /\ p2 # Null /\ op[t] = "acquire"
          /\ Goto(t, "validate", "publish")
          /\ p1' = [p1 EXCEPT ![t] = p2]
          /\ UNCHANGED <<hp, hint, hpOf, ptr, pinned, op, gd, src>>
    /\ ResetOnly

-----------------------------------------------------------------------------
(* The other operations on guards                                          *)

\* reset(); acquire() of a null pointer and acquire_if_equal() that finds
\* another node than it expects do the same.
Reset(t, g) == /\ Goto(t, "idle", "idle")
               /\ hpOf[t][g] # 0
               /\ ResetGuard(t, g)
               /\ UNCHANGED call
               /\ ResetOnly

\* Move assignment: guard g is reset, then it takes over what guard f has.
MoveNoReset(t, f, g) ==
    /\ Goto(t, "idle", "idle")
    /\ f # g /\ hpOf[t][f] # 0
    /\ ptr' = [ptr EXCEPT ![t][g] = ptr[t][f], ![t][f] = Null]
    /\ hpOf' = [hpOf EXCEPT ![t][g] = hpOf[t][f], ![t][f] = 0]
    /\ UNCHANGED <<hp, hint, pinned, call>>
    /\ ResetOnly

Move(t, f, g) ==
    /\ Goto(t, "idle", "idle")
    /\ f # g /\ hpOf[t][f] # 0
    /\ ReleaseHp(t, hpOf[t][g])
    /\ ptr' = [ptr EXCEPT ![t][g] = ptr[t][f], ![t][f] = Null]
    /\ hpOf' = [hpOf EXCEPT ![t][g] = hpOf[t][f], ![t][f] = 0]
    /\ UNCHANGED call
    /\ ResetOnly

Swap(t, f, g) ==
    /\ Goto(t, "idle", "idle")
    /\ f # g /\ hpOf[t][f] # hpOf[t][g]
    /\ ptr' = [ptr EXCEPT ![t][g] = ptr[t][f], ![t][f] = ptr[t][g]]
    /\ hpOf' = [hpOf EXCEPT ![t][g] = hpOf[t][f], ![t][f] = hpOf[t][g]]
    /\ UNCHANGED <<hp, hint, pinned, call>>
    /\ ResetOnly

-----------------------------------------------------------------------------
(* The clients' data structure                                             *)

Insert(t, c, n) == /\ Goto(t, "idle", "idle")
                   /\ cell[c] = Null /\ status[n] = "free"
                   /\ Cardinality({m \in Node : status[m] # "free"}) < InUse[copies]
                   /\ cell' = [cell EXCEPT ![c] = n]
                   /\ status' = [status EXCEPT ![n] = "live"]
                   /\ UNCHANGED <<global, own, call, scanning, pinned, copies>>

\* The CAS that unlinks the node guard g owns; reclaim() follows.
Unlink(t, g, c) == /\ Goto(t, "idle", "reset")
                   /\ cell[c] # Null /\ cell[c] = ptr[t][g]
                   /\ cell' = [cell EXCEPT ![c] = Null]
                   /\ Call(t, "reclaim", g, Null, cell[c])
                   /\ UNCHANGED <<status, global, own, scanning, pinned, copies>>

-----------------------------------------------------------------------------
(* guard_ptr::reclaim() and scan()                                         *)

ReclaimReset(t) == /\ Goto(t, "reset", "retire")
                   /\ ResetGuard(t, gd[t])
                   /\ UNCHANGED call
                   /\ ResetOnly

threshold == A * activeHps + B

\* add_retired_node, then scan() if the threshold is reached
Retire(t) ==
    /\ Goto(t, "retire", IF Cardinality(retired[t]) + 1 >= threshold THEN "scan" ELSE "idle")
    /\ status' = [status EXCEPT ![p1[t]] = "retired"]
    /\ retired' = [retired EXCEPT ![t] = @ \union {p1[t]}]
    /\ pinned' = pinned \union {h \in Thread \X (1..K) :
                                  block[h[1]] # Null /\ hp[block[h[1]]][h[2]] = p1[t]}
    /\ Return(t)
    /\ UNCHANGED <<cell, global, block, hint, ptr, hpOf, scanning, copies>>

\* adopt_abandoned_retired_nodes
ScanAdoptByLoad(t) ==
    /\ Goto(t, "scan", "begin")
    /\ adopted' = [adopted EXCEPT ![t] = abandoned]
    /\ UNCHANGED abandoned
    /\ UNCHANGED <<nodes, blocks, state, hp, activeHps, own, call,
                   todo, idx, prot, pending, after, pinned, copies>>

ScanAdopt(t) ==
    /\ Goto(t, "scan", "begin")
    /\ adopted' = [adopted EXCEPT ![t] = abandoned]
    /\ abandoned' = {}
    /\ UNCHANGED <<nodes, blocks, state, hp, activeHps, own, call,
                   todo, idx, prot, pending, after, pinned, copies>>

\* global_thread_block_list.begin()
ScanBegin(t) ==
    /\ Goto(t, "begin", "block")
    /\ todo' = [todo EXCEPT ![t] = blocks]
    /\ UNCHANGED <<nodes, global, own, call, idx, adopted, prot, pending, after, pinned, copies>>

NextEntry(t, from) ==
    /\ todo' = [todo EXCEPT ![t] = Tail(@)]
    /\ Goto(t, from, IF Tail(todo[t]) = << >> THEN "take" ELSE "block")

\* Only the hazard pointers of active entries are gathered.
ScanEntry(t) ==
    /\ pc[t] = "block"
    /\ \/ /\ state[Head(todo[t])] = "active"
          /\ Goto(t, "block", "slot")
          /\ UNCHANGED todo
       \/ /\ state[Head(todo[t])] # "active"
          /\ NextEntry(t, "block")
    /\ UNCHANGED <<nodes, global, own, call, idx, adopted, prot, pending, after, pinned, copies>>

\* gather_protected_pointers: one try_get_object.
ScanSlotUpTo(t, last) ==
    /\ pc[t] = "slot"
    /\ prot' = [prot EXCEPT ![t] = @ \union ({hp[Head(todo[t])][idx[t]]} \intersect Node)]
    /\ \/ /\ idx[t] < last
          /\ Goto(t, "slot", "slot")
          /\ idx' = [idx EXCEPT ![t] = @ + 1]
          /\ UNCHANGED todo
       \/ /\ idx[t] = last
          /\ NextEntry(t, "slot")
          /\ idx' = [idx EXCEPT ![t] = 1]
    /\ UNCHANGED <<nodes, global, own, call, adopted, pending, after, pinned, copies>>

ScanSlotButLast(t) == ScanSlotUpTo(t, K - 1)

ScanSlot(t) == ScanSlotUpTo(t, K)

\* reclaim_nodes of both lists: what is protected is retired again ...
ScanTake(t) ==
    LET candidates == retired[t] \union adopted[t] IN
    /\ Goto(t, "take", "delete")
    /\ retired' = [retired EXCEPT ![t] = candidates \intersect prot[t]]
    /\ pending' = [pending EXCEPT ![t] = candidates \ prot[t]]
    /\ adopted' = [adopted EXCEPT ![t] = {}]
    /\ prot' = [prot EXCEPT ![t] = {}]
    /\ UNCHANGED <<nodes, global, block, hint, ptr, hpOf, call, todo, idx, after, pinned, copies>>

\* ... and the rest is deleted, one node after the other.
ScanDelete(t, n) ==
    /\ pc[t] = "delete" /\ n \in pending[t]
    /\ status' = [status EXCEPT ![n] = "free"]
    /\ pending' = [pending EXCEPT ![t] = @ \ {n}]
    /\ UNCHANGED <<cell, global, own, pc, call, todo, idx, adopted, prot, after, pinned, copies>>

ScanReturn(t) ==
    /\ Goto(t, "delete", after[t])
    /\ pending[t] = {}
    /\ after' = [after EXCEPT ![t] = "idle"]
    /\ UNCHANGED <<nodes, global, own, call, todo, idx, adopted, prot, pending, pinned, copies>>

-----------------------------------------------------------------------------
(* ~thread_data(): the thread ends.  The guards of its stack are gone.     *)
(* The same member of Thread may then begin again as a new thread.         *)

Exit(t) ==
    /\ pc[t] = "idle" /\ block[t] # Null
    /\ \A g \in GuardId : hpOf[t][g] = 0
    /\ \/ /\ retired[t] # {}
          /\ Goto(t, "idle", "scan")
          /\ after' = [after EXCEPT ![t] = "abandon"]
       \/ /\ retired[t] = {}
          /\ Goto(t, "idle", "subtract")
          /\ UNCHANGED after
    /\ UNCHANGED <<nodes, global, own, call, todo, idx, adopted, prot, pending, pinned, copies>>

\* abandon_retired_nodes puts what the scan had to keep before the others.
Abandon(t) ==
    /\ Goto(t, "abandon", "subtract")
    /\ abandoned' = abandoned \union retired[t]
    /\ retired' = [retired EXCEPT ![t] = {}]
    /\ UNCHANGED <<nodes, blocks, state, hp, activeHps, block, hint, ptr, hpOf, call,
                   scanning, pinned, copies>>

\* release_entry(control_block)
SubtractHps(t) ==
    /\ Goto(t, "subtract", "release")
    /\ activeHps' = activeHps - K
    /\ UNCHANGED <<nodes, blocks, state, hp, abandoned, own, call, scanning, pinned, copies>>

ReleaseEntry(t) ==
    /\ Goto(t, "release", "idle")
    /\ state' = [state EXCEPT ![block[t]] = "free"]
    /\ block' = [block EXCEPT ![t] = Null]
    /\ hint' = [hint EXCEPT ![t] = << >>]
    /\ UNCHANGED <<nodes, blocks, hp, abandoned, activeHps, retired, ptr, hpOf, call,
                   scanning, pinned, copies>>

-----------------------------------------------------------------------------
GuardStep(t) ==
    \/ \E g \in GuardId : Reset(t, g)
    \/ \E f, g \in GuardId : Copy(t, f, g) \/ Move(t, f, g) \/ Swap(t, f, g)
    \/ \E g \in GuardId, c \in Cell :
          Acquire(t, g, c) \/ AcquireIfEqual(t, g, c) \/ Unlink(t, g, c)
    \/ \E c \in Cell, n \in Node : Insert(t, c, n)

AcquireStep(t) == \/ AdoptEntry(t) \/ Initialize(t) \/ Publish(t) \/ Validate(t)
                  \/ \E b \in Block : AddEntry(t, b)

ReclaimStep(t) == \/ ReclaimReset(t) \/ Retire(t)
                  \/ ScanAdopt(t) \/ ScanBegin(t) \/ ScanEntry(t) \/ ScanSlot(t)
                  \/ ScanTake(t) \/ ScanReturn(t)
                  \/ \E n \in Node : ScanDelete(t, n)

ExitStep(t) == Exit(t) \/ Abandon(t) \/ SubtractHps(t) \/ ReleaseEntry(t)

Next == \E t \in Thread : GuardStep(t) \/ AcquireStep(t) \/ ReclaimStep(t) \/ ExitStep(t)

Spec == Init /\ [][Next]_vars

-----------------------------------------------------------------------------
(* Properties                                                              *)

\* An acquisition gives up what its guard had, at the latest in set_object.
Owned(n) == \E t \in Thread, g \in GuardId :
               ptr[t][g] = n /\ ~(gd[t] = g /\ pc[t] \in {"publish", "validate"})

\* The deleter of a node runs only when no guard_ptr owns the node, whoever
\* retired it and whichever thread scans (guard_ptr::reclaim, scan), as long
\* as clients do not copy guards.
DeleterWaits == [][\A n \in Node :
                     status[n] = "retired" /\ status'[n] = "free" => copies \/ ~Owned(n)]_vars

\* Whether they copy guards or not: what the documentation of reclaim promises,
\* and what a copy made behind the back of a scan does not get.
AllOwnersWait == [][\A n \in Node : status[n] = "retired" /\ status'[n] = "free" => ~Owned(n)]_vars

Spots(n) == {<<"retired", t>> : t \in {u \in Thread : n \in retired[u]}}
     \union {<<"adopted", t>> : t \in {u \in Thread : n \in adopted[u]}}
     \union {<<"pending", t>> : t \in {u \in Thread : n \in pending[u]}}
     \union {<<"abandoned", Null>> : x \in {n} \intersect abandoned}

\* A retired node is in the hands of exactly one thread, or in the list of
\* abandoned nodes, through scans, exits and adoptions: it is neither lost
\* nor deleted twice.  Other nodes are in no such place.
RetiredOnce == \A n \in Node :
    Cardinality(Spots(n)) = (IF status[n] = "retired" THEN 1 ELSE 0)

\* Threads never share a control block, and the block of a thread is always
\* one a scan can find: in the list and active (thread_block_list).
BlockExclusive ==
    \A t \in Thread : block[t] # Null =>
        /\ \E i \in DOMAIN blocks : blocks[i] = block[t]
        /\ state[block[t]] = "active"
        /\ \A u \in Thread \ {t} : block[u] # block[t]

\* The unused hazard pointers of a thread and those its guards hold are
\* together all K of them, none twice; number_of_active_hps counts the blocks
\* between initialize and abandon.
HpsAccounted ==
    /\ \A t \in Thread : block[t] # Null /\ pc[t] # "initialize" =>
          \A i \in 1..K : Cardinality({j \in DOMAIN hint[t] : hint[t][j] = i})
                          + Cardinality({g \in GuardId : hpOf[t][g] = i}) = 1
    /\ activeHps = K * Cardinality({t \in Thread :
                         block[t] # Null /\ pc[t] \notin {"initialize", "release"}})

\* The promise of module Reclaimer: every step of the scheme and its clients
\* is a step of it or a stutter.
Promised == INSTANCE Reclaimer WITH
    Slot <- 1..K,
    slot <- [t \in Thread |-> [i \in 1..K |->
               IF block[t] # Null /\ hp[block[t]][i] \in Node THEN hp[block[t]][i] ELSE Null]]

Promise == Promised!RSpec
=============================================================================
