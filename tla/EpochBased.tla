----------------------------- MODULE EpochBased -----------------------------
(***************************************************************************)
(* xenium::reclamation::generic_epoch_based                                *)
(* (src/xenium/reclamation/impl/generic_epoch_based.hpp) with its policies:*)
(* how regions are extended, which threads a scan looks at and how often,  *)
(* whether a thread abandons its retired nodes when it leaves a region.    *)
(*                                                                         *)
(* Every access of memory that another thread may touch is one step.  The  *)
(* clients are arbitrary: they acquire guards from shared cells, copy and  *)
(* reset them, use region guards, unlink nodes and reclaim them, and they  *)
(* end and begin again.  Lists of retired nodes are modelled as sets.      *)
(***************************************************************************)
EXTENDS Integers, Sequences, FiniteSets, FiniteSetsExt

CONSTANTS Thread,
          Block,     \* addresses of thread control blocks
          Node,      \* addresses of nodes; a deleted node's address is reused
          Cell,      \* the shared pointers (concurrent_ptr) of the clients
          GuardId,   \* the guard_ptrs of one thread
          Policies,  \* the sets of policies, of which a behaviour uses one, with what
                     \* the clients do then: calls[t], and guards[t], how many
                     \* guards thread t has at a time
          MaxEpoch,  \* a bound for TLC: no operation starts beyond it
          Null

ASSUME EBNullAssumption == Null \notin Node \union Block
Operation == {"acquire", "if_equal", "copy", "region", "insert", "reclaim", "exit"}

ASSUME PoliciesAssumption ==
    Policies \subseteq [region : {"none", "eager", "lazy"}, scan : {"all", "one"},
                        frequency : Nat, abandon : {"never", "always"},
                        calls : [Thread -> SUBSET Operation], guards : [Thread -> Nat]]

number_epochs == 3
EpochIdx == 0..(number_epochs - 1)

VARIABLES
  cell,       \* cell[c]: the node a shared pointer refers to
  status,     \* "free", "live" or "retired"
  pinned,     \* history: guards that keep a retired node from deletion (Reclaimer)
  policy,     \* Traits: never changes
  global_epoch, blocks, state,        \* state[b]: entry_state ("none": not allocated yet)
  is_in_critical_region, local_epoch, \* of each block
  orphans,                            \* orphans[i]: nodes that threads have left behind
  block, local_epoch_idx, retire_lists, nested, regions, entries, iter,  \* thread_data
  ptr, guarded,       \* guard_ptr::ptr; whether the thread has a region_guard
  pc, op, gd, src,    \* the operation, its guard and its cell
  expected, epoch,    \* acquire_if_equal: expected; do_enter_critical: epoch
  pending             \* delete_objects: the nodes still to delete

nodes == <<cell, status, pinned, policy>>
shared == <<global_epoch, blocks, state, is_in_critical_region, local_epoch, orphans>>
counts == <<nested, regions, entries>>
own == <<block, local_epoch_idx, retire_lists, counts, iter>>
guards == <<ptr, guarded>>
call == <<op, gd, src, expected>>
vars == <<nodes, shared, own, guards, pc, call, epoch, pending>>

TypeOK ==
    /\ cell \in [Cell -> Node \union {Null}] /\ status \in [Node -> {"free", "live", "retired"}]
    /\ pinned \in SUBSET (Thread \X GuardId) /\ policy \in Policies
    /\ global_epoch \in Nat /\ blocks \in Seq(Block)
    /\ state \in [Block -> {"none", "free", "active"}]
    /\ is_in_critical_region \in [Block -> BOOLEAN] /\ local_epoch \in [Block -> Nat]
    /\ orphans \in [EpochIdx -> SUBSET Node]
    /\ block \in [Thread -> Block \union {Null}] /\ local_epoch_idx \in [Thread -> EpochIdx]
    /\ retire_lists \in [Thread -> [EpochIdx -> SUBSET Node]]
    /\ nested \in [Thread -> Nat] /\ regions \in [Thread -> Nat] /\ entries \in [Thread -> Nat]
    /\ iter \in [Thread -> Seq(Block)]
    /\ ptr \in [Thread -> [GuardId -> Node \union {Null}]] /\ guarded \in [Thread -> BOOLEAN]
    /\ pc \in [Thread -> {"idle", "entry", "initLoad", "initStore", "enter", "set", "global", "scan",
                          "scanEpoch", "advance", "adopt", "delete", "local", "load", "retire",
                          "reset", "clear", "abandon", "release"}]
    /\ op \in [Thread -> {"none", "acquire", "if_equal", "copy", "region", "reclaim", "exit"}]
    /\ gd \in [Thread -> GuardId \union {Null}] /\ src \in [Thread -> Cell \union {Null}]
    /\ expected \in [Thread -> Node \union {Null}] /\ epoch \in [Thread -> Nat]
    /\ pending \in [Thread -> SUBSET Node]

Init ==
    /\ cell = [c \in Cell |-> Null] /\ status = [n \in Node |-> "free"] /\ pinned = {}
    /\ policy \in Policies
    /\ global_epoch = 0 /\ blocks = << >> /\ state = [b \in Block |-> "none"]
    /\ is_in_critical_region = [b \in Block |-> FALSE]
    /\ local_epoch = [b \in Block |-> number_epochs]
    /\ orphans = [i \in EpochIdx |-> {}]
    /\ block = [t \in Thread |-> Null] /\ local_epoch_idx = [t \in Thread |-> 0]
    /\ retire_lists = [t \in Thread |-> [i \in EpochIdx |-> {}]]
    /\ nested = [t \in Thread |-> 0] /\ regions = nested /\ entries = nested
    /\ iter = [t \in Thread |-> << >>]
    /\ ptr = [t \in Thread |-> [g \in GuardId |-> Null]] /\ guarded = [t \in Thread |-> FALSE]
    /\ pc = [t \in Thread |-> "idle"] /\ op = [t \in Thread |-> "none"]
    /\ gd = [t \in Thread |-> Null] /\ src = gd /\ expected = gd
    /\ epoch = nested /\ pending = [t \in Thread |-> {}]

Goto(t, from, to) == pc[t] = from /\ pc' = [pc EXCEPT ![t] = to]

Call(t, o, g, c, n) == /\ op' = [op EXCEPT ![t] = o] /\ gd' = [gd EXCEPT ![t] = g]
                       /\ src' = [src EXCEPT ![t] = c] /\ expected' = [expected EXCEPT ![t] = n]
Return(t) == Call(t, "none", Null, Null, Null)

\* Guard g of thread t gets node n: the history of module Reclaimer.
SetGuard(t, g, n) ==
    /\ ptr' = [ptr EXCEPT ![t][g] = n]
    /\ pinned' = IF ptr[t][g] = n THEN pinned ELSE pinned \ {<<t, g>>}

extends == policy.region # "none"

-----------------------------------------------------------------------------
(* The first access of a thread: its control block                         *)

\* acquire_entry: adopt the first block of the list that is free ...
AdoptEntry(t) ==
    /\ pc[t] = "entry" /\ iter[t] # << >>
    /\ \/ /\ state[Head(iter[t])] = "free"
          /\ Goto(t, "entry", "initLoad")
          /\ state' = [state EXCEPT ![Head(iter[t])] = "active"]
          /\ block' = [block EXCEPT ![t] = Head(iter[t])]
          /\ iter' = [iter EXCEPT ![t] = << >>]
       \/ /\ state[Head(iter[t])] # "free"
          /\ iter' = [iter EXCEPT ![t] = Tail(@)]
          /\ UNCHANGED <<pc, state, block>>
    /\ UNCHANGED <<nodes, global_epoch, blocks, is_in_critical_region, local_epoch, orphans,
                   local_epoch_idx, retire_lists, counts, guards, call, epoch, pending>>

\* ... or else put a new one at its head.
AddEntry(t, b) ==
    /\ Goto(t, "entry", "initLoad") /\ iter[t] = << >> /\ state[b] = "none"
    /\ state' = [state EXCEPT ![b] = "active"]
    /\ blocks' = <<b>> \o blocks
    /\ block' = [block EXCEPT ![t] = b]
    /\ UNCHANGED <<nodes, global_epoch, is_in_critical_region, local_epoch, orphans,
                   local_epoch_idx, retire_lists, counts, iter, guards, call, epoch, pending>>

\* acquire_control_block
InitLoad(t) ==
    /\ Goto(t, "initLoad", "initStore")
    /\ epoch' = [epoch EXCEPT ![t] = global_epoch]
    /\ UNCHANGED <<nodes, shared, own, guards, call, pending>>

\* scan_strategy.reset(): only a scan of single threads remembers its place.
ResetScan(t) == iter' = [iter EXCEPT ![t] = IF policy.scan = "one" THEN blocks ELSE << >>]

InitStore(t) ==
    /\ Goto(t, "initStore", "enter")
    /\ local_epoch' = [local_epoch EXCEPT ![block[t]] = epoch[t]]
    /\ local_epoch_idx' = [local_epoch_idx EXCEPT ![t] = epoch[t] % number_epochs]
    /\ epoch' = [epoch EXCEPT ![t] = 0]
    /\ ResetScan(t)
    /\ UNCHANGED <<nodes, global_epoch, blocks, state, is_in_critical_region, orphans,
                   block, retire_lists, counts, guards, call, pending>>

-----------------------------------------------------------------------------
(* Entering a critical region                                              *)

\* enter_region, and enter_critical unless a region_guard is constructed
Enter(t) ==
    LET first == extends /\ regions[t] = 0
        outer == op[t] # "region" /\ nested[t] = 0
        sets == \/ policy.region = "eager" /\ first
                \/ policy.region = "none" /\ outer
                \/ policy.region = "lazy" /\ outer /\ ~is_in_critical_region[block[t]]
    IN
    /\ pc[t] = "enter"
    /\ regions' = [regions EXCEPT ![t] = IF extends THEN @ + 1 ELSE @]
    /\ nested' = [nested EXCEPT ![t] = IF op[t] = "region" THEN @ ELSE @ + 1]
    /\ \/ sets /\ Goto(t, "enter", "set") /\ UNCHANGED <<guarded, call>>
       \/ ~sets /\ outer /\ Goto(t, "enter", "global") /\ UNCHANGED <<guarded, call>>
       \/ ~sets /\ ~outer /\ op[t] # "region" /\ Goto(t, "enter", "load") /\ UNCHANGED <<guarded, call>>
       \/ /\ ~sets /\ op[t] = "region" /\ Goto(t, "enter", "idle")
          /\ guarded' = [guarded EXCEPT ![t] = TRUE] /\ Return(t)
    /\ UNCHANGED <<nodes, shared, block, local_epoch_idx, retire_lists, entries, iter, ptr, epoch, pending>>

SetFlag(t) ==
    /\ pc[t] = "set"
    /\ is_in_critical_region' = [is_in_critical_region EXCEPT ![block[t]] = TRUE]
    /\ \/ op[t] # "region" /\ Goto(t, "set", "global") /\ UNCHANGED <<guarded, call>>
       \/ /\ op[t] = "region" /\ Goto(t, "set", "idle")
          /\ guarded' = [guarded EXCEPT ![t] = TRUE] /\ Return(t)
    /\ UNCHANGED <<nodes, global_epoch, blocks, state, local_epoch, orphans, own, ptr, epoch, pending>>

\* do_enter_critical: a new epoch, or a scan on every so many entries
LoadGlobal(t) ==
    /\ pc[t] = "global"
    /\ epoch' = [epoch EXCEPT ![t] = global_epoch]
    /\ \/ /\ local_epoch[block[t]] # global_epoch
          /\ Goto(t, "global", "local")
          /\ entries' = [entries EXCEPT ![t] = 0]
          /\ UNCHANGED iter
       \/ /\ local_epoch[block[t]] = global_epoch /\ entries[t] = policy.frequency
          /\ Goto(t, "global", "scan")
          /\ entries' = [entries EXCEPT ![t] = 0]
          /\ iter' = [iter EXCEPT ![t] = IF policy.scan = "all" THEN blocks ELSE @]
       \/ /\ local_epoch[block[t]] = global_epoch /\ entries[t] # policy.frequency
          /\ Goto(t, "global", "load")
          /\ entries' = [entries EXCEPT ![t] = @ + 1]
          /\ UNCHANGED iter
    /\ UNCHANGED <<nodes, shared, block, local_epoch_idx, retire_lists, nested, regions, guards, call, pending>>

\* all_threads::scan, n_threads<1>::scan: this thread does not prevent the update.
NextThread(t, from) ==
    /\ iter' = [iter EXCEPT ![t] = Tail(@)]
    /\ Goto(t, from, IF Tail(iter[t]) = << >> THEN "advance"
                     ELSE IF policy.scan = "all" THEN "scan" ELSE "load")

ScanFlag(t) ==
    /\ pc[t] = "scan"
    /\ \/ ~is_in_critical_region[Head(iter[t])] /\ NextThread(t, "scan")
       \/ is_in_critical_region[Head(iter[t])] /\ Goto(t, "scan", "scanEpoch") /\ UNCHANGED iter
    /\ UNCHANGED <<nodes, shared, block, local_epoch_idx, retire_lists, counts, guards, call, epoch, pending>>

\* Mutant: the epochs of threads in a region are not compared.
ScanEpochOmitted(t) ==
    /\ pc[t] = "scanEpoch" /\ NextThread(t, "scanEpoch")
    /\ UNCHANGED <<nodes, shared, block, local_epoch_idx, retire_lists, counts, guards, call, epoch, pending>>

ScanEpoch(t) ==
    /\ pc[t] = "scanEpoch"
    /\ \/ local_epoch[Head(iter[t])] = epoch[t] /\ NextThread(t, "scanEpoch")
       \/ /\ local_epoch[Head(iter[t])] # epoch[t] /\ Goto(t, "scanEpoch", "load")
          /\ iter' = [iter EXCEPT ![t] = IF policy.scan = "all" THEN << >> ELSE @]
    /\ UNCHANGED <<nodes, shared, block, local_epoch_idx, retire_lists, counts, guards, call, epoch, pending>>

\* update_global_epoch: whoever wins the CAS deletes the orphans of the epoch.
Advance(t) ==
    /\ pc[t] = "advance"
    /\ epoch' = [epoch EXCEPT ![t] = @ + 1]
    /\ \/ /\ global_epoch = epoch[t] /\ Goto(t, "advance", "adopt")
          /\ global_epoch' = epoch[t] + 1
       \/ global_epoch # epoch[t] /\ Goto(t, "advance", "local") /\ UNCHANGED global_epoch
    /\ UNCHANGED <<nodes, blocks, state, is_in_critical_region, local_epoch, orphans, own, guards, call, pending>>

\* reclaim_orphans
AdoptWith(t, e, kept) ==
    /\ Goto(t, "adopt", "delete")
    /\ pending' = [pending EXCEPT ![t] = orphans[e % number_epochs]]
    /\ orphans' = [orphans EXCEPT ![e % number_epochs] = IF kept THEN @ ELSE {}]
    /\ UNCHANGED <<nodes, global_epoch, blocks, state, is_in_critical_region, local_epoch, own, guards, call, epoch>>

\* Mutant: a load in place of the exchange
AdoptByLoad(t) == AdoptWith(t, epoch[t], TRUE)
\* Mutant: curr_epoch in place of new_epoch
AdoptOfOldEpoch(t) == AdoptWith(t, epoch[t] - 1, FALSE)
Adopt(t) == AdoptWith(t, epoch[t], FALSE)

\* update_local_epoch: the lists of all epochs since the last one seen
StoreLocalWith(t, from, to) ==
    LET missed == {i \in EpochIdx : \E e \in from..to : i = e % number_epochs} IN
    /\ Goto(t, "local", "delete")
    /\ local_epoch' = [local_epoch EXCEPT ![block[t]] = epoch[t]]
    /\ pending' = [pending EXCEPT ![t] = UNION {retire_lists[t][i] : i \in missed}]
    /\ retire_lists' = [retire_lists EXCEPT ![t] = [i \in EpochIdx |-> IF i \in missed THEN {} ELSE @[i]]]
    /\ UNCHANGED <<nodes, global_epoch, blocks, state, is_in_critical_region, orphans,
                   block, local_epoch_idx, counts, iter, guards, call, epoch>>

\* Mutant: also the list of the epoch before
StoreLocalFromOld(t) == StoreLocalWith(t, local_epoch[block[t]], epoch[t])
StoreLocal(t) == StoreLocalWith(t, local_epoch[block[t]] + 1, epoch[t])

DeleteNode(t, n) ==
    /\ pc[t] = "delete" /\ n \in pending[t]
    /\ status' = [status EXCEPT ![n] = "free"]
    /\ pending' = [pending EXCEPT ![t] = @ \ {n}]
    /\ UNCHANGED <<cell, pinned, policy, shared, own, guards, pc, call, epoch>>

\* From the orphans on to the own lists; from these to the guard
Deleted(t) ==
    /\ pc[t] = "delete" /\ pending[t] = {}
    /\ \/ /\ local_epoch[block[t]] # epoch[t]
          /\ Goto(t, "delete", "local")
          /\ UNCHANGED <<local_epoch_idx, iter>>
       \/ /\ local_epoch[block[t]] = epoch[t]
          /\ Goto(t, "delete", "load")
          /\ local_epoch_idx' = [local_epoch_idx EXCEPT ![t] = epoch[t] % number_epochs]
          /\ ResetScan(t)
    /\ UNCHANGED <<nodes, shared, block, retire_lists, counts, guards, call, epoch, pending>>

-----------------------------------------------------------------------------
(* Leaving a critical region                                               *)

\* leave_critical
Leave(t, from) ==
    /\ nested' = [nested EXCEPT ![t] = @ - 1]
    /\ regions' = [regions EXCEPT ![t] = IF extends THEN @ - 1 ELSE @]
    /\ Goto(t, from, IF (IF extends THEN regions[t] ELSE nested[t]) = 1 THEN "clear" ELSE "idle")

HasNodes(t) == \E i \in EpochIdx : retire_lists[t][i] # {}

\* clear_critical_region_flag, and abandon_strategy::apply for each list
ClearFlag(t) ==
    /\ Goto(t, "clear", IF policy.abandon = "always" /\ HasNodes(t) THEN "abandon" ELSE "idle")
    /\ is_in_critical_region' = [is_in_critical_region EXCEPT ![block[t]] = FALSE]
    /\ UNCHANGED <<nodes, global_epoch, blocks, state, local_epoch, orphans, own, guards, call, epoch, pending>>

Abandon(t) ==
    LET i == Min({j \in EpochIdx : retire_lists[t][j] # {}})
        last == \A j \in EpochIdx \ {i} : retire_lists[t][j] = {} IN
    /\ Goto(t, "abandon", IF ~last THEN "abandon" ELSE IF op[t] = "exit" THEN "release" ELSE "idle")
    /\ orphans' = [orphans EXCEPT ![i] = @ \union retire_lists[t][i]]
    /\ retire_lists' = [retire_lists EXCEPT ![t][i] = {}]
    /\ UNCHANGED <<nodes, global_epoch, blocks, state, is_in_critical_region, local_epoch,
                   block, local_epoch_idx, counts, iter, guards, call, epoch, pending>>

-----------------------------------------------------------------------------
(* guard_ptr and region_guard                                              *)

MayGuard(t, g) == Cardinality({h \in GuardId : ptr[t][h] # Null} \union {g}) <= policy.guards[t]

First(t) == IF block[t] = Null THEN "entry" ELSE "enter"
FirstIter(t) == iter' = [iter EXCEPT ![t] = IF block[t] = Null THEN blocks ELSE @]

\* acquire and acquire_if_equal: the first load finds a node.
Acquire(t, g, c, o) ==
    /\ o \in policy.calls[t] /\ cell[c] # Null /\ global_epoch < MaxEpoch /\ MayGuard(t, g)
    /\ Call(t, o, g, c, IF o = "if_equal" THEN cell[c] ELSE Null)
    /\ \/ ptr[t][g] # Null /\ Goto(t, "idle", "load") /\ UNCHANGED iter
       \/ ptr[t][g] = Null /\ Goto(t, "idle", First(t)) /\ FirstIter(t)
    /\ UNCHANGED <<nodes, shared, block, local_epoch_idx, retire_lists, counts, guards, epoch, pending>>

\* Copy construction, and copy assignment to a guard that has been reset
Copy(t, f, g) ==
    /\ "copy" \in policy.calls[t] /\ ptr[t][f] # Null /\ ptr[t][g] = Null /\ MayGuard(t, g)
    /\ Goto(t, "idle", "enter")
    /\ Call(t, "copy", g, Null, ptr[t][f])
    /\ UNCHANGED <<nodes, shared, own, guards, epoch, pending>>

\* The second load: no node, or not the expected one, and the region is left.
Load(t) ==
    LET n == IF op[t] = "copy" THEN expected[t] ELSE cell[src[t]]
        gives == n # Null /\ (op[t] = "if_equal" => n = expected[t]) IN
    /\ pc[t] = "load"
    /\ SetGuard(t, gd[t], IF gives THEN n ELSE Null)
    /\ \/ gives /\ Goto(t, "load", "idle") /\ UNCHANGED <<nested, regions>>
       \/ ~gives /\ Leave(t, "load")
    /\ Return(t)
    /\ epoch' = [epoch EXCEPT ![t] = 0]
    /\ UNCHANGED <<cell, status, policy, shared, block, local_epoch_idx, retire_lists, entries, iter,
                   guarded, pending>>

\* reset; an acquire that finds no node does the same.
Reset(t, g) ==
    /\ ptr[t][g] # Null
    /\ SetGuard(t, g, Null)
    /\ Leave(t, "idle")
    /\ UNCHANGED <<cell, status, policy, shared, block, local_epoch_idx, retire_lists, entries, iter,
                   guarded, call, epoch, pending>>

RegionGuard(t) ==
    /\ "region" \in policy.calls[t] /\ ~guarded[t] /\ global_epoch < MaxEpoch
    /\ Goto(t, "idle", First(t)) /\ FirstIter(t)
    /\ Call(t, "region", Null, Null, Null)
    /\ UNCHANGED <<nodes, shared, block, local_epoch_idx, retire_lists, counts, guards, epoch, pending>>

\* ~region_guard: leave_region
EndRegion(t) ==
    /\ guarded[t]
    /\ guarded' = [guarded EXCEPT ![t] = FALSE]
    /\ regions' = [regions EXCEPT ![t] = IF extends THEN @ - 1 ELSE @]
    /\ Goto(t, "idle", IF extends /\ regions[t] = 1 THEN "clear" ELSE "idle")
    /\ UNCHANGED <<nodes, shared, block, local_epoch_idx, retire_lists, nested, entries, iter,
                   ptr, call, epoch, pending>>

\* reclaim: add_retired_node ...
Retire(t) ==
    LET n == ptr[t][gd[t]] IN
    /\ Goto(t, "retire", "reset")
    /\ status' = [status EXCEPT ![n] = "retired"]
    /\ retire_lists' = [retire_lists EXCEPT ![t][local_epoch_idx[t]] = @ \union {n}]
    /\ pinned' = pinned \union {h \in Thread \X GuardId : ptr[h[1]][h[2]] = n}
    /\ UNCHANGED <<cell, policy, shared, block, local_epoch_idx, counts, iter, guards, call, epoch, pending>>

\* ... and reset
ReclaimReset(t) ==
    /\ pc[t] = "reset"
    /\ SetGuard(t, gd[t], Null)
    /\ Leave(t, "reset")
    /\ Return(t)
    /\ UNCHANGED <<cell, status, policy, shared, block, local_epoch_idx, retire_lists, entries, iter,
                   guarded, epoch, pending>>

\* ~thread_data: what it has retired is left to the others.
Exit(t) ==
    /\ "exit" \in policy.calls[t] /\ block[t] # Null /\ ~guarded[t] /\ \A g \in GuardId : ptr[t][g] = Null
    /\ Goto(t, "idle", IF HasNodes(t) THEN "abandon" ELSE "release")
    /\ Call(t, "exit", Null, Null, Null)
    /\ UNCHANGED <<nodes, shared, own, guards, epoch, pending>>

\* release_entry; a new thread begins with new thread_data.
Release(t) ==
    /\ Goto(t, "release", "idle")
    /\ state' = [state EXCEPT ![block[t]] = "free"]
    /\ block' = [block EXCEPT ![t] = Null]
    /\ local_epoch_idx' = [local_epoch_idx EXCEPT ![t] = 0]
    /\ entries' = [entries EXCEPT ![t] = 0]
    /\ iter' = [iter EXCEPT ![t] = << >>]
    /\ Return(t)
    /\ UNCHANGED <<nodes, global_epoch, blocks, is_in_critical_region, local_epoch, orphans,
                   retire_lists, nested, regions, guards, epoch, pending>>

-----------------------------------------------------------------------------
(* The clients' data structure                                             *)

Insert(t, c, n) == /\ "insert" \in policy.calls[t] /\ pc[t] = "idle" /\ cell[c] = Null /\ status[n] = "free"
                   /\ cell' = [cell EXCEPT ![c] = n]
                   /\ status' = [status EXCEPT ![n] = "live"]
                   /\ UNCHANGED <<pinned, policy, shared, own, guards, pc, call, epoch, pending>>

\* The CAS that unlinks the node guard g owns; reclaim() follows.
Unlink(t, g, c) == /\ Goto(t, "idle", "retire")
                   /\ "reclaim" \in policy.calls[t] /\ cell[c] # Null /\ cell[c] = ptr[t][g]
                   /\ cell' = [cell EXCEPT ![c] = Null]
                   /\ Call(t, "reclaim", g, Null, Null)
                   /\ UNCHANGED <<status, pinned, policy, shared, own, guards, epoch, pending>>

-----------------------------------------------------------------------------
ClientStep(t) ==
    \/ \E g \in GuardId, c \in Cell :
          \/ \E o \in {"acquire", "if_equal"} : Acquire(t, g, c, o)
          \/ Unlink(t, g, c)
    \/ \E f, g \in GuardId : Copy(t, f, g)
    \/ \E g \in GuardId : Reset(t, g)
    \/ \E c \in Cell, n \in Node : Insert(t, c, n)
    \/ RegionGuard(t) \/ EndRegion(t) \/ Exit(t)

EnterStep(t) == \/ AdoptEntry(t) \/ InitLoad(t) \/ InitStore(t) \/ Enter(t) \/ SetFlag(t)
                \/ LoadGlobal(t) \/ ScanFlag(t) \/ ScanEpoch(t) \/ Advance(t) \/ Adopt(t)
                \/ StoreLocal(t) \/ Deleted(t) \/ Load(t)
                \/ \E b \in Block : AddEntry(t, b)
                \/ \E n \in Node : DeleteNode(t, n)

LeaveStep(t) == Retire(t) \/ ReclaimReset(t) \/ ClearFlag(t) \/ Abandon(t) \/ Release(t)

Next == \E t \in Thread : ClientStep(t) \/ EnterStep(t) \/ LeaveStep(t)

Spec == Init /\ [][Next]_vars

-----------------------------------------------------------------------------
(* Properties                                                              *)

\* A node is deleted only when no guard_ptr has it, neither one that acquired
\* it nor a copy: a guard keeps its thread in a region, and the epoch of the
\* node's list from coming round again (update_local_epoch, reclaim_orphans).
DeleterWaits == [][\A n \in Node : status[n] = "retired" /\ status'[n] = "free" =>
                     \A t \in Thread, g \in GuardId : ptr[t][g] # n]_vars

Spots(n) ==
         {<<"retired", h>> : h \in {x \in Thread \X EpochIdx : n \in retire_lists[x[1]][x[2]]}}
  \union {<<"orphaned", i>> : i \in {x \in EpochIdx : n \in orphans[x]}}
  \union {<<"pending", t>> : t \in {u \in Thread : n \in pending[u]}}

\* A retired node is in exactly one list, of its thread, of the orphans or of
\* a thread that deletes it, whoever comes and goes: neither lost nor deleted
\* twice.  Other nodes are in no list.
RetiredOnce == \A n \in Node : Cardinality(Spots(n)) = (IF status[n] = "retired" THEN 1 ELSE 0)

\* Where a thread that has a guard stands: in a region, and the global epoch
\* is at most one ahead of its own; and it only ever goes to a newer epoch
\* (the assertions of set_critical_region_flag and update_local_epoch).
EpochsInStep == \A t \in Thread :
    /\ (\E g \in GuardId : ptr[t][g] # Null) =>
          /\ is_in_critical_region[block[t]]
          /\ global_epoch - local_epoch[block[t]] \in {0, 1}
    /\ pc[t] = "set" => ~is_in_critical_region[block[t]]
    /\ pc[t] = "local" => epoch[t] > local_epoch[block[t]]

\* The promise of module Reclaimer: every step of the scheme and its clients
\* is a step of it or a stutter, a guard_ptr being a guard.
Promised == INSTANCE Reclaimer WITH Slot <- GuardId, slot <- ptr

Promise == Promised!RSpec
=============================================================================
