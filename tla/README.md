# Verification of non-blocking-cpp

TLA+ models of the concurrent containers and of the memory reclamation of this
repository, their model-checking instances, and machine-checked proofs about
them. The repository benchmarks non-blocking queues and hash maps: `src/xenium`
holds the containers and the reclamation schemes they are parameterised with,
`src/wfc` one more hash map, `src/*_tests.cpp` and `src/*_main.cpp` the drivers.
There is no network and nothing is persisted. Every difficulty is one of
threads that share memory: a step may fall between any two steps of the others,
a thread may stop for ever anywhere, and memory is deleted while others may
still hold its address.

Paths below are relative to `src/xenium` unless they begin with `src/`.

## 1. The system

| Part | Source | State | Operations | Status |
|---|---|---|---|---|
| `michael_scott_queue` | `michael_scott_queue.hpp` | list of nodes, `_head`, `_tail` | `push`, `try_pop`, destructor | modelled |
| `hazard_pointer` | `reclamation/impl/hazard_pointer.hpp` | hazard pointers and retire list of each thread, abandoned nodes | guard: acquire, acquire_if_equal, copy, move, swap, reset, reclaim; scan; thread exit | partly: static strategy |
| `thread_block_list` | `reclamation/detail/thread_block_list.hpp` | list of control blocks with owner state | acquire_entry, release_entry, abandon/adopt | partly: as `hazard_pointer` uses it |
| `nikolaev_scq` | `detail/nikolaev_scq.hpp` | ring of entries, head, tail, threshold | enqueue, dequeue, catchup, finalize, set_threshold | modelled |
| `nikolaev_bounded_queue` | `nikolaev_bounded_queue.hpp` | storage and two rings of indexes | `try_push`, `try_pop`, destructor | modelled |
| `nikolaev_queue` | `nikolaev_queue.hpp` | list of such nodes, `_head`, `_tail` | `push`, `try_pop`, deletion of a node | partly: no destructor of the queue |
| `vyukov_bounded_queue` | `vyukov_bounded_queue.hpp` | cells with sequence numbers, two positions | `try_push`/`try_pop`, strong and weak | modelled |
| `ramalhete_queue` | `ramalhete_queue.hpp` | list of arrays with push and pop index | `push`, `try_pop`, destructors of queue and node | modelled |
| `kirsch_kfifo_queue`, `kirsch_bounded_kfifo_queue` | the two files | segments of k slots between head and tail | `push`/`try_push`, `try_pop` | planned |
| `chase_work_stealing_deque` | the file, `detail/growing_circular_array.hpp` | `_bottom`, `_top`, array that grows | `try_push`, `try_pop`, `try_steal` | planned |
| `harris_michael_hash_map` | `harris_michael_hash_map.hpp` | array of lists with marked next pointers | find, contains, emplace, lazy emplace, erase, iterators, destructor | partly: no copies of iterators |
| `harris_michael_list_based_set` | the file | one such list | find, emplace, erase, iterators | partly: as a map with one bucket |
| `vyukov_hash_map` | `impl/vyukov_hash_map.hpp` | locked buckets with a version, extension items, blocks that are replaced by larger ones | emplace, erase, extract, try_get_value, grow, iterators | partly: no extract, no erase of an iterator beside extension items, trivial keys |
| `wfc::unordered_map` | `src/wfc/unordered_map.hpp` | tree of array nodes, one watched node per thread, `m_size` | insert, get, update, remove, size, visit | partly: no marking of nodes, no `visit` |
| `seqlock`, `left_right` | the two files | versioned slots; two instances with reader counters | load/store/update; read/update | planned |
| `generic_epoch_based` | `reclamation/impl/generic_epoch_based.hpp` | global and local epochs, retire lists, orphans | guard: acquire, acquire_if_equal, copy, reset, reclaim; region_guard; thread exit | partly: not every policy |
| `quiescent_state_based` | `reclamation/impl/quiescent_state_based.hpp` | the same with one region per operation | the same | planned |
| `lock_free_ref_count` | `reclamation/impl/lock_free_ref_count.hpp` | counts in nodes, free list | acquire, reset, reclaim | planned |
| `hazard_eras`, `stamp_it` | `reclamation/impl/` | eras; queue of stamped blocks | as the other schemes | not modelled |
| `reclamation/detail`, utilities | see `PROJECT.json` | no protocol of their own | | not modelled |
| drivers, plots, `src/matplotplusplus` | `src/*.cpp` | counters | time loops and drawing | not modelled |

### How the parts interact

* A container calls its reclamation scheme through `guard_ptr`: `acquire(p)`
  publishes the node that `p` refers to and reads `p` again; `reset` gives it
  up; `reclaim` hands an unlinked node to the scheme, which deletes it later.
  This is the most important interface of the repository, and it is stated once,
  as module `Reclaimer`: *a node is not deleted while a guard refers to it that
  has done so without interruption since before the node was retired*. Containers
  are checked on top of that promise, schemes are shown to keep it.
* `nikolaev_queue` and `nikolaev_bounded_queue` call `nikolaev_scq` for the ring
  of free places and the ring of allocated ones, and pass indexes between them.
* `harris_michael_hash_map` is an array of `harris_michael` lists.
* Threads own one control block each; a block outlives its thread and is adopted
  by a later one, along with the nodes a thread left to be deleted.

### What is hard, and what makes each part correct

* **Queues.** Every operation should appear atomic: values leave once, in the
  order they came, and `try_pop` returns false only if the queue was empty. No
  node is used after it is deleted, retired twice, or lost. `push` and `try_pop`
  are promised to be lock-free (weak operations only, for the Vyukov queue).
  The hard places are helping (`_tail` is one behind), a CAS that succeeds on a
  value read long ago, and decisions from two loads at different moments.
* **The Nikolaev ring.** A dequeue may come before the enqueue of its position:
  it must spoil the entry. The threshold decides when a ring is empty, on
  counters that threads reset without seeing each other. The finalized bit stops
  enqueues while others move `_tail`.
* **Reclamation.** A scan reads the hazard pointers one after the other while
  guards are published, moved and reset; threads end and leave nodes behind.
* **Maps.** Reads validate what they read by a version or a mark, while removals
  move items; growing replaces the table under its readers; an erase that was
  interrupted must be completed exactly once.
* **Seqlock, left-right.** No reader may see half of an update.

`PROJECT.json` lists these hazards with the line at which each one bites and the
property that watches it, or the module that is planned for it.

## 2. Modules

| Module | Stands for | Role |
|---|---|---|
| `FifoQueue` | what a queue promises | abstract: atomic push and pop, an empty answer needs an empty queue during the call |
| `BoundedFifo` | what `vyukov_bounded_queue` promises | abstract: as above, with a capacity and the licence of the weak operations |
| `QueueHistory` | the same promise without linearization points | history variables from calls and returns only, for the Nikolaev queues and `RamalheteQueue` |
| `Reclaimer` | what a reclamation scheme promises | abstract: publish, release, retire, delete |
| `MSQueue` | `michael_scott_queue` | extends `Reclaimer`; refines `FifoQueue` |
| `MSQueueProofs` | | proofs about `MSQueue`, and that it implements `FifoQueue` |
| `HazardPointers` | `hazard_pointer`, `thread_block_list` | refines `Reclaimer` |
| `HazardPointersProofs` | | proofs about `HazardPointers`, and that it implements `Reclaimer` |
| `EpochBased` | `generic_epoch_based` | refines `Reclaimer` |
| `EpochBasedProofs` | | proofs about `EpochBased`, and that without orphans it implements `Reclaimer` |
| `SCQ` | `nikolaev_scq` | operations that the next three modules call |
| `SCQRing` | a ring on its own | threads that put and get indexes |
| `NikolaevBoundedQueue` | `nikolaev_bounded_queue` | extends `SCQ` with storage |
| `NikolaevQueue` | `nikolaev_queue` | extends `SCQ` with nodes; uses `Reclaimer` for its guards |
| `RamalheteQueue` | `ramalhete_queue` | a list of arrays; uses `Reclaimer` for its guards |
| `RamalheteQueueProofs` | | proofs about the nodes, guards, values and order of `RamalheteQueue` |
| `VyukovBoundedQueue` | `vyukov_bounded_queue` | refines `BoundedFifo` |
| `ConcurrentMap` | what a hash map promises | abstract: every operation takes effect, or reads, at one moment of its call |
| `WfcMap` | `wfc::unordered_map` | refines `ConcurrentMap` |
| `WfcMapProofs` | | proofs about `WfcMap`, and that it implements `ConcurrentMap` where an update meets inserts only |
| `HarrisMichaelMap` | `harris_michael_hash_map` | extends `Reclaimer`; refines `ConcurrentMap` |
| `HarrisMichaelProofs` | | proofs about `HarrisMichaelMap`, and that it implements `ConcurrentMap` unless a lazy insert meets a replaced successor |
| `VyukovHashMap` | `vyukov_hash_map` | extends `Reclaimer`; refines `ConcurrentMap` |
| `VyukovHashMapProofs` | | proofs about the guards and the locks of `VyukovHashMap` |
| `VyukovProofs` | | proofs about `VyukovBoundedQueue`, and that it implements `BoundedFifo` |
| `MC*` | | instances for TLC: symmetry and finite rings |

### Conventions

* One action is one access of memory that another thread may touch, with the
  local computation that follows it. `pc[t]` names the next access (`p_...` in a
  push, `o_...` in a pop); local variables of the C++ function are functions of
  the thread and keep their names where they can. `map` in `PROJECT.json` gives
  the lines of each action.
* Memory is sequentially consistent. The code is written for the C++ memory
  model with acquire and release; that its fences are sufficient is assumed.
  Consequently, two loads of a full check, say, see the values of two moments in
  order, but nothing older.
* `compare_exchange_weak` may fail without a reason; a `...Fails` action is always
  possible, not only when the comparison fails.
* A node's address is reused after the node is deleted, so that ABA can happen.
* A plain (non-atomic) field that only the owner of a cell may touch is read and
  written in one step; that there is one owner at a time is a property
  (`Exclusive`, `ItemsOwned`, `IndexOnce`), not an assumption.
* Allocation always succeeds, and moving a value does not throw.
* Mutants (definitions under a comment that begins with *Mutant* or named after
  the omission, such as `PushHelpOmitted`) are plausible mistakes in an action.
  They are not part of the models; they show that the property named beside them
  in `PROJECT.json` can fail.

### Correspondence, module by module

**MSQueue.** `head`, `tail` and `next` are `_head`, `_tail` and `node::_next`;
`slot[t]["anchor"]` is the guard `t` of `push` or `h` of `try_pop`,
`slot[t]["next"]` the guard `next`. `chain` and `sawEmpty` are auxiliary: the list
from its dummy on, and the pops during whose call the queue was empty.
`acquire` takes three steps, load, publish and validate (`AcquireLoad` ...), since
the node may be retired between any two of them. The destructor (`Destroy`,
`DestroyNode`) runs when no operation does.

**HazardPointers.** `hp[b][i]` is a hazard pointer of control block `b`, `hint[t]`
the list of unused ones that runs through them, `retired[t]` and `abandoned` the
nodes that wait for deletion. `Acquire ... Validate` are the loops of `guard_ptr`,
`Scan...` the scan with its single loads of hazard pointers, `Exit ...
ReleaseEntry` the end of a thread, which may begin again and adopt the block of
another. Clients are arbitrary: they insert, unlink, acquire, move and swap as they
like, and copy guards if `copies` is set, a variable that never changes; then there is
one node instead of two (`InUse`). `Promise` is `Reclaimer!RSpec` under the mapping that
reads each hazard pointer as a guard slot. `DeleterWaits` says of clients that do not copy
what `AllOwnersWait` says of all (section 5).

**EpochBased.** `global_epoch`, `local_epoch[b]` and `is_in_critical_region[b]` are the
shared epochs and those of control block `b`; `retire_lists[t][i]`, `orphans[i]` the nodes
that wait, by epoch modulo three; `pending[t]` those whose deletion has begun.
`nested`, `regions` and `entries` are `nested_critical_entries`, `region_entries` and
`critical_entries_since_update` of `thread_data`. `policy` is the set of policies of the
type, chosen once: region extension none, eager or lazy; a scan of all threads or of one;
how often; whether nodes are abandoned always or never. A guard owns its node from
`acquire` on because its thread stays in a region; `Promise` is `Reclaimer!RSpec` with
`guard_ptr::ptr` as the slots. A lazy `region_guard` in which no guard is ever made fails
the assertion in line 324; the model lets it pass. `scan::n_threads` for more than one
thread and `abandon::when_exceeds_threshold` are left out.

**SCQ.** `head`, `tail` and `fin` are `_head` and `_tail` with its finalized bit
apart; `data[r][j]` is the entry `<cycle, is_safe, value>`; `thr` is `_threshold`.
The cache-line permutation `remap_index` is the identity for small rings and does
not matter for larger ones. `Call`/`back` model the C++ call and return, so that
one set of actions serves every ring. `SCQRing` adds callers that use the ring
as the queues do: an index is in the ring or in one caller's hands.

**NikolaevBoundedQueue** and **NikolaevQueue.** `try_push` dequeues a free place,
stores, enqueues it in the other ring; `try_pop` the other way round.
`NikolaevQueue` adds the list: finalizing a full node and appending a new one,
helping `_tail`, the second attempt of `try_pop` behind `set_threshold`, and the
retirement of a drained node. Its guard is acquired in one step and protected by
`Reclaimer`. The histories of `QueueHistory` record which push had returned before
which began, and what was gone when a `try_pop` began.

**RamalheteQueue.** `push_idx`, `pop_idx` and `entries` are those of the nodes, with
indexes in steps of `step_size` that are reduced modulo `EntriesPerNode` when an entry is
used. `PopCheck` ... `PopEmpty` read the two indexes and `next` one after the other.
The `pop_retries` loads of an entry are one that may give up. `deleted[v]` counts how often
a destructor, of a retired node (`ReclaimNode`) or of the queue (`DestroyNode`), deletes `v`.

**VyukovBoundedQueue.** `enqueue_pos`, `dequeue_pos` and the cells are those of the
code; `weak[t]` tells which version was called. `Items` is the abstract queue: the
claimed positions, including those whose value is still to be assigned.

**WfcMap.** `tree[p]` is the array that the positions `p` lead to, a place holds
`Null`, `Array` or a data node; `heap`, `watched` and `size` are the data nodes,
`m_watched_nodes` and `m_size`. `loc`, `lvl` and `node` are the local variables of the
loops. The map that the tree stands for (`map`) is what a lookup comes to, and
`Linearizable` is `ConcurrentMap!MSpec` for it: `could[t]` collects the answers that the
map has justified since the call began. Hashes are the keys, as in the
benchmark, so different keys part before the last level and the code after the loop of
`insert` is not reached. `compare_exchange_weak` fails only for a different value, as
on x86. No place changes more often than `max_fail_count` allows during a call, so nodes
are never marked.

**HarrisMichaelMap.** `next[l]` is what a bucket or a node points to, with its mark; a
`guard_ptr` is one of four slots, and `info[t]` tells which of them `prev`, `cur`,
`next` and `start_guard` are, so that `std::move` and `swap` pass slots on. `find` is a
loop of single loads that unlinks marked nodes as it goes (`info[t].then` says what comes
after it); `emplace` links with a CAS and begins again, the lazy variant
(`get_or_emplace_lazy`, `operator[]`) makes the node only when it needs one; `erase` marks,
tries to unlink, and otherwise calls `find`. With `MemoizeHash` the order of the list is
that of the code, `hash >= h && key >= k`, which is only partial when the two disagree
(section 5).
A loop is `begin ... operator++`, with `move_to_next_bucket`; `erase(iterator)` returns
the next iterator of the same bucket only, as the code does. Keys are `<<hash, key>>`. The
list-based set is the map with one bucket, line for line the same `find`, `emplace` and
`erase`. That its `find` copies a guard (`start_guard = info.save`) whose node may have been
retired is harmless: the mark of the node is read again before it is used.

**VyukovHashMap.** `block[b]` is a block: buckets with their state (`lock`, `count`,
`mark`, `ver`), cells, extension items and the list of free ones. `InsertCell ... Inserted`
store key, value and count one by one, since readers see them; what only owners of a lock can
see happens in one step. `try_get_value` (`Get...`) reads the state, the cells or the
extension items, and the state again. `Grow...` takes `resize_lock`, locks all buckets,
copies (`Copy`), publishes and retires the block. The number of extension items is a
constant, not the number of buckets divided by a ratio; versions do not wrap; keys are their
hashes and, as values, trivial (single atomics). `Done` lets the callers rest, so that
the run finds a deadlock of the locks.

## 3. What is checked

| Run | Instance | Shows |
|---|---|---|
| `msqueue_linearizable` | 2 threads that push and pop, 4 addresses, 2 values | memory safety, list shape, no leak, refinement of `FifoQueue` |
| `msqueue_progress` | 2 producers, 1 consumer, 3 addresses; one producer keeps running | lock-freedom of the running thread; a queued value does not stay for ever |
| `hp_safety` | 2 threads, 2 blocks, 2 guards each; 2 nodes without copies, 1 with | no node retired or deleted twice, blocks have one owner, the count of hazard pointers is right, a deleter waits for every owner; the promise of `Reclaimer` |
| `epochs` | 2 threads, 2 blocks, 2 nodes, 3 sets of policies, epochs up to 3 | no node retired twice or lost, epochs in step, a deleter waits for every guard; the promise of `Reclaimer` |
| `bounded_queue` | 2 threads, 2 places, 3 values | nothing lost, threshold sufficient, order, honest empty answers |
| `queue_safety` | 3 threads, nodes of one place, 2 values: 2 push, then one of them and the third pop | the same with nodes that are filled, finalized and appended against each other, drained, unlinked and deleted |
| `ramalhete_safety` | 3 threads, arrays of one entry, 3 nodes, 3 values: as before | the same, with entries that a pop spoils |
| `vyukov_queue` | 2 threads, 2 cells, 5 positions, 2 values | exclusive cells, refinement of `BoundedFifo`, progress of a thread that keeps running |
| `wfc_map` | 2 threads, 2 keys that collide in the head, 4 workloads | no access to a null or deleted node, every node found where its hash leads, owned and deleted once; refinement of `ConcurrentMap` |
| `hm_map` | 2 threads, 2 buckets, 2 keys in one and 1 in the other, 3 addresses, 6 workloads | memory safety, every node in its bucket once and unlinked by the end of its erase, loops meet every lasting element; refinement of `ConcurrentMap` |
| `vhm_map` | 2 threads, blocks of 1, 2 and 4 buckets of 2 cells, 1 extension item, 7 keys, 6 workloads | a block in use is not deleted, every item in one list, loops meet every lasting element, no deadlock; refinement of `ConcurrentMap` |
| `hm_lazy` | 2 threads, a lazy insert beside inserts and erases | the disagreement of section 5 |

Further instances stand beside these. Each is called by
`tlc -config <configuration> <module>` in this directory.

| Configuration | Module | Shows |
|---|---|---|
| `HazardPointers_copies.cfg` | `MCHazardPointers` | `AllOwnersWait` is violated (section 5) |
| `EpochBased_orphans.cfg` | `MCEpochBased` | `DeleterWaits` is violated with three threads |
| `SCQRing_passed.cfg` | `MCSCQRing` | `NothingPassed` is violated |
| `NikolaevQueue_lost.cfg` | `MCNikolaevQueue` | `NothingLost` is violated |
| `NikolaevQueue_reclaim.cfg` | `MCNikolaevQueue` | `MemorySafe` is violated |
| `RamalheteQueue_owned.cfg` | `MCRamalheteQueue` | `DeletedOnce` is violated by one thread |
| `RamalheteQueue_eleven.cfg` | `MCRamalheteQueue` | `InOrder` is violated by one thread |
| `RamalheteQueue_large.cfg` | `MCRamalheteQueue` | `ramalhete_safety` with arrays of two entries and four values: no error (3.7 million states) |
| `NikolaevBoundedQueue_parts.cfg` | `MCNikolaevBoundedQueue` | types, a place in one ring or one pair of hands (`IndexOnce`), a destructor that leaves nothing: no error |
| `NikolaevQueue_parts.cfg` | `MCNikolaevQueue` | types and `IndexOnce`: no error |

Each module of a component has a type invariant `TypeOK`. It holds in the instances of the
passing runs, whose configurations leave it out because it says little beside the properties
they list; add it to `INVARIANTS` to check it. For `MSQueue`, `VyukovBoundedQueue`,
`HazardPointers`, `EpochBased`, `HarrisMichaelMap` and `WfcMap` it is proved.

**Bounds, and why they are enough.** Two threads already give each race the
hazards describe, between an operation and any other one that overtakes it, any
number of times. Four addresses of `MSQueue` hold the dummy, two queued nodes and
one in a thread's hands, so that addresses are reused while old pointers to them
exist. Two queued
values are what order needs. For the hazard pointers, a threshold of one node
makes each `reclaim` scan, and two blocks let a thread end, another adopt its
block and its nodes. Two places and three values of the bounded queue make it
full and go around its rings more than once; a node of one place is full after
one push and drained after one pop, so that two values exercise the whole life of
a node. Five positions on two cells use each cell for more than two rounds. The
two keys of `wfc_map` share their place in the head and differ in the next bit, so that
the second insert expands; which calls the two threads make is the workload `Roles`: both
insert and read; one inserts and reads while the other removes; one inserts while the
other removes or updates; both remove. Section 5 says which are left out, and why.
`hm_map` and `vhm_map` have workloads of the same kind, listed in `MCHarrisMichaelMap` and
`MCVyukovHashMap`: each operation meets every other one on the same bucket, and the workloads
of `vhm_map` begin with maps that are full or use their extension item, since the
model may begin with any content. Three epochs are one round of the three retire lists. An
array of one entry is full after one push, so that three values suffice for two threads to
append nodes against each other and for pops to drain and delete one; that the reduction
of indexes works for more entries is what `RamalheteQueue_large.cfg` adds.
`MaxPush`, `MaxPop`,
`MaxPops`, `MaxHead`, `MaxTail`, `MaxPos`, `MaxSize` and `MaxEpoch` only stop operations from *beginning*
(`MaxHead` of `NikolaevQueue` stops needless failures of a weak CAS), never one that runs.
`CHECK_DEADLOCK FALSE` stands in the configurations because the system may stop:
the callers are done when a bound is reached or the destructor has run, and the
models say nothing after that; `vhm_map`, where threads wait for locks, does check it. Symmetry is used for interchangeable
threads, addresses and values in runs of safety properties alone.

**Fairness.** A thread of `Running` keeps taking steps inside an operation (weak
fairness), and a weak CAS that could succeed again and again does at last succeed
(strong fairness): `compare_exchange_weak` fails spuriously only now and then, as
its users rely on. No other thread is fair: it may stop anywhere, inside its
operation too. No thread is obliged to call an operation; only `Drained` adds
that one consumer calls `try_pop` again and again. That is what "lock-free" in
the comments of the code means, and all the schedulers in question guarantee.

## 4. What is proved

`tlapm` checks all of these, for any number of threads, nodes, cells and values.

**MSQueueProofs** (`Invariance`, `TypeCorrect`, `NoUseAfterFree`, `ListKeepsShape`,
`NothingLeaks`): `Spec => []MemorySafe`, and so on. The invariants are not
inductive by themselves. That `push` may write to the `_next` of its guarded node
depends on that node being in the list or having a successor (`AnchorOK`): the CAS
on an unlinked node fails because unlinked nodes keep their successor
(`RetiredOK`). That `_head` does not overtake `_tail` depends on what `try_pop` has
seen between two loads (`PopOK`). A new node is known to its pusher alone
(`PrivateOK`), an unlinked one to its popper (`OldOK`). `IInv` is the conjunction, with
the types and the list in its exact form (`ListOK`). One lemma treats all steps that change
only the thread's own variables, one lemma each the steps that change the list.
Assumptions: `Null` is not a node, `NoValue` not a value, and the guards have two
slots; and the promise of `Reclaimer`, which is part of the model.

**VyukovProofs** (`Invariance`, `TypeCorrect`, `NoRaceOnValue`): `Spec => []Exclusive`:
no two threads are at the value of the same cell, for any number of cells. The
inductive invariant relates each sequence number to the window of positions from
`dequeue_pos` to `dequeue_pos + Size`: a claimed position's cell carries the
position or its successor (`ClaimedOK`), a free position's cell the position or
what the pop of the previous round has yet to overwrite (`FreeOK`), and a thread
that has claimed a position keeps the counters within a round of it. The
arithmetic (positions fewer than `Size` apart have different cells) is proved from
division with remainder. The proof uses `Size >= 2`, which the constructor asserts;
with one cell the two sequence numbers of a round would coincide.

**MSQueueProofs**, second part (`SeenInvariance`, `QueueIsLinearizable`): `Spec => Linearizable`, with
addresses that are used again. A push takes effect with the CAS that links its node, a
successful `try_pop` with its CAS on `_head`; an unsuccessful one has taken effect when the
queue was empty during its call, which `sawEmpty` records. `IInv` alone does not say that
this has happened when `try_pop` finds no successor: `SeenOK` adds that a pop which has read
a null `next` under its validated guard has been recorded. Nor does it say that the value which
`try_pop` takes *after* its CAS is still the one it dequeued: `TakenOK` adds that the node it
takes from holds no value of the queue any more, belongs to no push and to no other pop.
`QInv` is `IInv` with these two.

**VyukovProofs**, second part (`OwnersInvariance`, `QueueIsLinearizable`): `Spec => Linearizable`
for any number of cells, threads and values. A push takes effect with its CAS on `enqueue_pos`, before its
value is in the cell; the abstract queue reads such a value from its owner's local variable.
What is needed beyond `IInv` is that every cell that is not handed on yet has an owner
(`ClaimedOwned`, `FreeOwned`), which is what makes the weak operations' false answers
legitimate, and that a sequence number read before a position was
passed tells so afterwards (`PushLoadOK`, `PopLoadOK`), on which the strong operations' full
and empty answers rest. `RInv` is `IInv` with these.

**HazardPointersProofs** (`Invariance`, `TypeCorrect`, `BlocksAreExclusive`, `HpsAreAccounted`,
`NodesRetiredOnce`, `DeletersWait`, `PromiseKept`): all five properties of the run `hp_safety`,
for any number of threads, control blocks, hazard pointers, guards, nodes and cells.
`PromiseKept` is the refinement `Spec => Promise`: `hazard_pointer` keeps the promise of
`Reclaimer` on which `MSQueueProofs` relies. The centre of `HInv` is
`ScanOK`: a hazard pointer that keeps one of the nodes which a scan considers has been seen by
the scan or is still ahead of it, in the block or the slot it comes to. That this is
inductive needs that no hazard pointer can begin to keep a node after the node is retired
(`PinnedOK`), that blocks are never taken out of the list and have one owner (`BlocksOK`), that
an adopted block has nothing published in it (`UnusedOK`), that each hazard pointer is either
in the thread's list of unused ones or in one guard (`HpsOK`), that the retired nodes are
divided among the lists of the threads and the abandoned ones (`KeptOK`, `EmptyOK`), and that a
node is unlinked, hence retired, by one thread (`CellOK`, `ClaimOK`). `CountOK` is
`activeHps = K` times the number of initialised threads. `DeletersWait` is about clients
that do not copy guards; for those that do, section 5 shows how it fails, and
`PromiseKept` holds all the same. Assumptions: `K` is positive, `Null` and `Link`
are no nodes. That a hazard pointer is published before its source is read again is in the
model; that the hardware keeps this order is not.

**EpochBasedProofs** (`Invariance`, `TypeCorrect`, `NodesRetiredOnce`, `EpochsStayInStep`;
`NoneAbandoned`, `DeletersWait`, `PromiseKept`): the first four are about all behaviours, for
any number of threads, control blocks, nodes and guards and any set of policies. The
centre of `EInv` is again what a scan has seen. A thread in a region that has looked at the
global epoch (`Registered`) keeps it within one of its `Bound`: its local epoch, or the one it is about to
store (`EpochOK`). Whoever wins the CAS of `update_global_epoch` must therefore have passed
only threads whose bound is the epoch that ends. `ScanOK` says so of every scan that is still
of the current epoch, also of one that looks at one thread in each operation and is
interrupted for as long as its thread is outside. It is inductive because a thread that is
passed outside a region can come into one only with the current epoch (`Follows`), because
the flag of a block is set whenever its owner is in a region (`FlagOK`, from the counters of nested
regions in `CountOK`), and because blocks have one owner and are never
taken out of the list (`BlocksOK`); an adopted block is not in a region (`UnownedOK`).
`NodesRetiredOnce` follows from the division of the retired nodes among lists, orphans and
deleting threads (`KeptOK`).

`DeletersWait` and `PromiseKept` are `Spec /\ []NoOrphans => DeleterWaits` and `=> Promise`. The hypothesis
is needed: with orphans the code deletes too early (section 5). It is true of every behaviour in which
no thread leaves nodes behind, in particular where the policy is `abandon::never` and threads do not end
(`NoneAbandoned`). `DInv` adds to `EInv` that the list a node is retired to is that of its
thread's local epoch (`IndexOK`), and that whoever has a node of a list is at least two
epochs behind each later epoch of that list (`WaitOK`): at the retirement the holder is
at most one ahead of the retiring thread, and the list comes round after three. A thread
that takes a list has seen that epoch begin, and no holder that far behind has allowed it.
As in the model, accesses are sequentially consistent: that the fences of the code suffice
for this is not shown.

**HarrisMichaelProofs** (`Invariance`, `TypeCorrect`, `NoUseAfterFree`): `Spec => []MemorySafe`
for any number of threads, nodes, buckets and keys and for all workloads, those in which a lazy
insert breaks linearizability included. The list is described without following it:
`Listed` are the nodes that are linked and not yet unlinked, and `ListOK` says that links
between them are injective and lead to listed nodes or `Null`. A CAS that unlinks a
marked node therefore leaves nothing that refers to it. `RetiredOK` says that a retired
node stays marked, so that a predecessor whose link is read without a mark is
still in the list, and what it refers to, too. `MineOK` gives an insert its node alone until it
is linked, `HeldOK` the unlinker the node until it is retired. `LocalOK` says, for each place in the
code, which of `prev`, `cur`, `next` and the start node are under a guard published while the
node was listed (`Safe`). `start_guard = info.save` copies a guard that may come too late:
`FirstOK` says that one of the two guards is in time, which suffices since the mark is read
again. Steps that change only the thread's own state are treated alike (`QuietStep`); linking,
marking, unlinking, retiring and deleting have a lemma each. Assumptions: `Null` is not a node, a
bucket is not a node, calls have keys and values of the given sets (`HMCallAssumption`); and
the promise of `Reclaimer`, which `PromiseKept` proves of hazard pointers.

**HarrisMichaelProofs**, second part (`SuccessorLinearizable`, `EagerLinearizable`, `UniqueKeys`): the map
implements `ConcurrentMap`, for any number of threads, nodes, buckets and keys. An insert takes
effect with the CAS that links its node, an erase with the one that marks a node; what finds
or misses its key has read the map at a moment of its call, which `could` records. `RInv` adds
to `IInv` that there is an order of the listed nodes (`Good(R)`). It is chosen anew in every state, the old
one with the linked node put in or the unlinked one left out, so that no step needs an
induction along a list. `Ordered(R)` ties the order to the links and says that the keys
are sorted in the sense of `greater_or_equal`: no node stands behind one where the search for
its key would stop. With `memoize_hash` nothing stronger holds. `SearchOK` says that no node up to
`info.prev`, or up to the start node to which a search falls back, has the key sought or one at
which it would stop (`Behind`); this survives every insert and unlink. A search that
reads `*info.prev` and finds a greater key or the end behind it therefore knows that its
key is not in the map at that moment (`NotThere`). `CallOK`, `CouldOK` and `FoundOK` say what a
call at each place may still answer, above all that an erase whose node is marked by another
thread may answer that the key is not there.

`SuccessorOK` is the part on which inserts rest: the node in front of which an insert has
decided to link is the one its CAS compares. `emplace_or_get` guards that node until the CAS; the
lazy variant does not, and section 5 shows what happens. The theorems about all workloads
therefore have the hypothesis `[]SuccessorKept`: when the CAS of a lazy insert would succeed, what
it expects, if not null, is a node at which a search for its key would stop, though it need not be the
same node as before. Without lazy inserts this is no condition (`EagerLinearizable`). `UniqueKeys` is
the property that the run `hm_lazy` violates, under the same hypothesis. Assumptions besides those
above: the hash is a function of the key (`HMKeyAssumption`), an erase by key takes any value, and
answers differ from values (`HMAnswerAssumption`).

**WfcMapProofs** (`Invariance`, `TypeCorrect`, `Ownership`, `NoUseAfterDelete`, `MemorySafety`): for
any number of threads, nodes, keys and levels. `WInv` says that the arrays are on the paths of
keys and that there is one behind exactly the places that refer to one (`TreeType`,
`PathsOK`); that a node in the tree is where its hash leads, which `new_pos` of `expand_node`
must agree with (`PlacesOK`); that an allocated node is in the tree or has one owner, the thread
that made it or the one that has taken it out and waits for its watchers (`OwnersOK`,
`MineOK`). Hence `Ownership`, which is `Spec => []NodesOwned`: that a node has *one* place follows
from the path being a function of the hash. `PlaceOK` says what a thread at each place in the
code has come to. `WatchOK` is about the reclamation: a node that passed the second look
is watched, is not deleted, and whoever waits to delete it has not yet seen that its reader
does not watch it; between the two looks nothing holds, as the thread does not
use the node. `NoUseAfterDelete` and `Ownership` are about all workloads. `MemorySafety` is not: it also says that a node
that is read is not null, and an insert that has lost its CAS can reload a place that
a remove has emptied (section 5). The theorem therefore assumes that nothing is removed or that
only one thread inserts, and `ReloadOK` is what follows from that. A step changes the tree
in one place at most; the frame lemma `OtherOK` says once for all actions what the other
threads keep. Three assumptions on the constants say what the prover's arithmetic has
no word for: powers of two are positive and grow (`PowerAssumption`), keys with the same positions on
all levels are equal (`PartAssumption`), and the contents of a place are distinct (`ContentAssumption`). TLC evaluates
them in the instance.

Its second part (`Refinement`) shows `Spec => Linearizable`. An insert takes effect with the CAS that
puts its node into the tree, an update or a remove with the one that takes a node
out; an expansion with its CAS changes the tree, but not the map. All other calls answer for
a moment at which they have read a place, and `could` records what might have been answered since the
call began. `RInv` adds to `WInv` that the answer a call is about to give is among those. `ReadOK` says so of
what a thread reads of a node that it has looked at twice, and `Follows` of a place that has
changed between the two looks: it holds an array now, or the key was not in the map for a moment
(`Missed`). For a `get`, which does not reload the place, `Follows` also says that it is on the path of
its key unless it may answer that the key is not there. The hypothesis is `UpdatesAlone`: while a thread updates,
the others only insert. Each of the cases that it excludes breaks linearizability (section 5). It holds
of the workloads of `wfc_map`.

**VyukovHashMapProofs** (`Invariance`, `MemorySafety`, `LocksAreExclusive`): `Spec => []MemorySafe` for any
number of threads, blocks, buckets, cells, extension items and keys, and for all workloads. A thread acquires
its block before it knows that the block is still the current one, and `lock_bucket` looks at the
bucket alone when it is not locked. That this suffices is the point of `OldLocked`: `grow` leaves all
buckets of the block it replaces locked for ever, so nobody who comes late can lock one. Hence `LocksOK`:
the owner of a lock is in the current block and has the lock alone. `do_grow` has every lock when it publishes the new
block (`Owns` with the places `copy` and `publish`), so at that moment no other thread owns anything.
`GrowOK` adds that one thread grows the map at a time, that nobody has a guard for the
block it fills, and that the old block is still live until that thread retires it, after it has given
`resize_lock` back and others may already grow the map again. `PlaceOK` gives every thread a guard that
protects, and a bucket that exists. `LoneStep` is the frame lemma for all steps that concern neither guards nor
whole blocks. That copying keeps the shape of a block is shown for the recursive functions `Filled` and `Copy`
by their least counterexample (`LeastNumber`). Assumptions: a map begins with at least one bucket and
elements of the given keys (`VHMRolesAssumption`); and the promise of `Reclaimer`.

**RamalheteQueueProofs** (`MemorySafetyInList`, `MemorySafety`, `NothingLostInList`, `NothingIsLost`,
`EmptyIsTrueInList`, `EmptyIsSo`, `FirstInFirstOut`): first, that no thread touches a deleted
node, for any number of threads, nodes, entries per node and values. This does not hold of all
behaviours: `try_pop` retires a node that `_tail` may still refer to (section 5), and a push that
acquires `_tail` later uses it without protection. `MemorySafetyInList` has just that as its
hypothesis, `[]TailListed`: when a push is about to acquire `_tail`, the node is in the list. Everything
else is in `LInv`: the listed nodes are those that are live, linked and not unlinked yet (`Listed`), links between
them are injective and only the first one has none (`ListOK`), so that the node which a `try_pop` unlinks is
linked from nowhere and is retired by that thread alone (`TakenOK`); a new node is its push's own until it is linked
(`FreshOK`); and what is unlinked keeps its successor (`UnlinkedOK`), so that no push links behind it.
`MemorySafety` shows that the hypothesis is met where one thread pushes beside `try_pop` and
the others only before the first one (`LateIs`), as in the run. `TInv` is why: `_tail` is one node behind
at most, and only while the push that has linked the last one is about to move it (`TailOK`); if `_head` overtakes it
then, the lone pusher is that thread.

The next four theorems come in the same two forms, `NothingLost` and `EmptyIsTrue` of all behaviours with `[]TailListed`
and of all those with a lone pusher. They have one more hypothesis, `Coprime`: `entries_per_node` is no multiple of
`step_size`, which is a prime; without it they are false (`RamalheteQueue_eleven`, section 5). It makes the
index of an entry unique (`IndexOfPlace`). `NothingLost` follows the links from `_head`, so it needs that `Listed` is
what they reach: `ChainOK` says that no proper subset of `Listed` holds `_head` and is closed under links, which is
inductive, and `Chain` is closed because a walk through finitely many nodes ends (by the least length of a walk that
does not). `VInv` is the rest: an entry without a value has an index that no `try_pop` has been given or one has now, and it
is spoiled only by the last that had it, when the push has to look for another (`NodeOK`, `PutOK`); an index
is given once (`TakenOnce`); so every value that has been stored is `Located`. A `try_pop` that answers "empty" has
found that push had taken no more indexes than it when it read them, one after the other. `EInv` says why this is
still true when it answers: its node is `_head` or no longer in the list, and from then on nothing that was pushed
before it began waits there (`PopOK`), since a value never waits again once its index is given out (`WaitsBack`); and
the node has no successor. A node that has been unlinked has one, so its node is the only one in the list.

`FirstInFirstOut` is `InOrder` of the behaviours with a lone pusher, under `Coprime`. `OInv` is its invariant, again
together with the others. `SInv` says that a value is in one entry only, which no `try_pop` has or will be given once the value has
been read (`StoredOK`, `SpentOK`). `RanksOK` numbers the nodes of the list from `_head` on (`RankOK`); a number is given to a node
when it is linked and kept, so a step changes the numbering only by extending it (`RankStep`). If the push of b began after
that of a had returned, then a leaves first (`LeavesFirst`). While a waits it is in an earlier node than
b or at a smaller index (`StandsFirst`), and before b is stored, the node and the index that its push has taken are behind those of a
already (`PlacedFirst`). The next value to leave is the one at `pop_idx` of `_head`, before
which nothing waits; or it is one that a push stores in an entry whose `try_pop` waits for it, and that
entry is in the node of `_head` too. A push takes `_tail`, which may be one node behind; so no value whose push has
returned may be in the last node then (`BehindOK`). Here the lone pusher is needed a second time: the push that has
linked that node puts its own value there, and moves `_tail` before it returns. `LateOK` carries the order to a
`try_pop` that has begun: if b had left by then, a has gone to somebody else.

Assumptions: there are finitely many nodes and at least one, and `Null` is none; `entries_per_node` is not zero, which the
code asserts; and the promise of `Reclaimer`.

**Only model-checked:** everything about
the Nikolaev queues; of `VyukovHashMap` what its buckets and lists
contain (`ItemsOwned`, `ScanComplete`, `Linearizable`), which would need the number of free
extension items through every step of `Copy`; of `HarrisMichaelMap`
`NodesOwned` and `ScanComplete`; and of `EpochBased` the behaviours with
orphans (`DeleterWaits`, `Promise` with two threads). `Linearizable` of `VyukovHashMap` is checked for
the workloads that are run. Liveness under fairness (`LockFree`, `Drained`, `Returns`)
is outside what the prover handles and stays with TLC; so does everything
about recursive definitions (`From` in `NikolaevQueue`).

## 5. Where the code and its documentation disagree

The first is the run `hm_lazy`; the names of the others are those of the further instances. One
has no configuration of its own; its constants are given with it.

* **A lazy insert can insert a key twice** (`hm_lazy`). `do_get_or_emplace_lazy` reads the
  address of the successor and resets its guard (`harris_michael_hash_map.hpp:591`) before the
  CAS expects that address. In between the successor may be erased and deleted, and its address
  be used by another thread for a node that it inserts at this place, with the same key: the
  CAS succeeds and the key has two elements. Line 167 promises to insert only if the
  key is not there.
* **An iterator can pass over an element that stays.** With `memoize_hash` (line 288) two keys of one
  bucket may have the hashes one way round and the values the other; then neither stops the
  search for the other, and they stand in the list in the order of their insertion. `operator++`
  of an iterator whose element has been erased searches for its key again (line 356), and that search
  does not stop at the other one behind it, which stays in the map. Line 315 promises that
  iterators are not invalidated by concurrent operations. The workloads of `hm_map` have no
  such pair; with `Buckets = 1`, `Key = {<<0, 1>>, <<1, 0>>}`, one thread that loops and one that inserts
  and erases, `ScanComplete` is violated. Searches for a key are not affected: `Linearizable` is
  proved for such keys, too.
* **A copied guard is no owner** (`HazardPointers_copies`). The documentation of `guard_ptr`
  promises that a deleter runs after *all* owners have released the node. A guard
  that is copied from another after the node was retired is published too late for a
  scan that has already read its hazard pointer (`hazard_pointer.hpp:55`); when the original is
  reset, the copy does not keep the node. Clients that only move and swap are safe
  (`hp_safety`), as the queues do.
* **Orphans are deleted too early** (`EpochBased_orphans`). The thread that has advanced the
  epoch adopts the orphans of the new epoch's index (`generic_epoch_based.hpp:394`), but only
  later: a thread that ends meanwhile adds what it retired in the current epoch, and the adopter
  deletes it at once, beside a guard of a third thread. Lines 123-128 say that nodes are
  handed over to be deleted when that is safe.
* **The ring forgets that an entry is unsafe** (`SCQRing_passed`). `dequeue` replaces an
  empty entry by one with `is_safe` set, whatever it was (`detail/nikolaev_scq.hpp:217`);
  a late dequeue of an older cycle can so take back the warning that a later dequeue has
  left there, and an enqueue succeeds behind the head. The smallest instance is a ring
  for one index with three threads; larger rings need the same three
  threads on one entry, with the others' operations going round in between.
* **A value is pushed into an unlinked node** (`NikolaevQueue_lost`). `catchup` writes
  `_tail` without the finalized bit (`detail/nikolaev_scq.hpp:243`). If a push had finalized
  the node just before, another push that holds a place enqueues it there and returns, while
  `try_pop` unlinks the node.
* **A node is retired while `_tail` refers to it** (`NikolaevQueue_reclaim`). `try_pop` of
  `nikolaev_queue` moves `_head` past `_tail` and retires the node
  (`nikolaev_queue.hpp:249`). A push that acquires it from `_tail` afterwards is not
  protected by the promise of the scheme. `ramalhete_queue.hpp:252` does the same;
  `michael_scott_queue` helps `_tail` first.
* **A node deletes values it does not own** (`RamalheteQueue_owned`). `push_idx` goes beyond
  `max_idx` when pushes find a node full, and `~node` (`ramalhete_queue.hpp:131`) goes
  that far, reducing the indexes modulo the number of entries: with `std::unique_ptr`, which
  line 34 supports, the first value of a full node is deleted twice by the destructor of
  the queue, and values that were popped are deleted when their node is reclaimed.
* **Eleven entries are too many** (`RamalheteQueue_eleven`). With `entries_per_node` a
  multiple of `step_size` (line 111) all indexes of a node lead to few of its entries, and a
  value is popped again. The documentation recommends a power of two; the code
  asserts only that the number is not zero.

The passing runs of `NikolaevQueue` and `RamalheteQueue` are ones in which the cases about
`_tail` and finalized nodes cannot occur: a second producer (`EarlyPusher`) pushes only
before the first pop. The passing run of `EpochBased` has two threads, that of
`HarrisMichaelMap` no lazy insert beside an erase *and* an insert of the other thread.

`wfc::unordered_map` departs from its documentation in more ways, which the
workloads of `wfc_map` exclude; no run shows them:

* `get` beside an `update` of its key: after `ensure_not_replaced` has found a data node,
  `get` goes on to the next round in the same array (`src/wfc/unordered_map.hpp:374`) and can
  miss a key that is there all the time; line 110 promises the value.
* Two `insert`s beside a `remove`: an insert that lost its CAS reloads the place after
  the removal and goes on with a null node (lines 552 and 306).
* Two modifications of one key: an `update` or `remove` that loses its CAS to an `update`
  answers `element_not_found` although the key was there all the time (lines 652-666).
* `m_size` is never decremented (line 640), so `size()` is not the "number of
  elements" (line 163) after a removal.
* `expand_node` reads the hash of a marked node before it clears the mark (line 517).
* `safe_delete` waits for readers, in a map that calls itself wait-free (line 62).

`vyukov_hash_map` (`impl/vyukov_hash_map.hpp`) has some, too, which the model leaves out:

* `erase` of an iterator that stands on an extension item, or in a bucket that has some, does
  not update the state that the iterator keeps (430-436, 447-472), so that leaving the bucket
  stores an old version (900, 993).
* `find` does not set `prev` for an extension item (771); `erase` of that iterator dereferences
  it (430).
* The `continue` in 580 repeats a lookup of a non-trivial key without reloading what it
  depends on, and may spin.
* `erase` of a key that is not there reclaims an empty guard.

## 6. Plan

1. Done: queues with their ring, the promise of reclamation and hazard pointers
   under it, the Vyukov queue with its proof.
2. Done: `WfcMap`, the tree of `wfc::unordered_map`, refining `ConcurrentMap`; the marking
   of nodes is left.
3. Done: `HarrisMichaelMap`, refining `ConcurrentMap`, on `Reclaimer`.
4. Done: `VyukovHashMap`, lock-free reads, removals, extension items and `grow`; `extract` and
   iterators on extension items are left.
5. Done: `EpochBased`; its relative for quiescent states is left.
6. Done: `RamalheteQueue`. Left: `KirschKFifo`, refining a k-relaxed queue.
7. Left: `Seqlock`, `LeftRight`, `ChaseDeque`: small modules, with proofs of the first two;
   `lock_free_ref_count`.
8. Proofs. Done: the queues `MSQueue` and `VyukovBoundedQueue` with their refinements,
   `HazardPointers` with its promise, `EpochBased` with its promise as long as there are no
   orphans, `WfcMap` with its refinement where updates meet inserts only, `HarrisMichaelMap` with
   its refinement as long as lazy inserts meet the successor they expect, the guards and
   locks of `VyukovHashMap`, the guards, values and order of `RamalheteQueue`. Left: `NodesOwned` of `HarrisMichaelMap`,
   `ItemsOwned` of
   `VyukovHashMap`, `IndexOnce` of the Nikolaev queues.

## 7. Not modelled

`hazard_eras` and `stamp_it` keep the promise of `Reclaimer` by other means; the first repeats
most of `HazardPointers`, the second is a lock-free queue of its own. The benchmark drivers
have no state but counters. `src/matplotplusplus`, a vendored plotting library, and the plots
are not part of the concurrent program. They are 625,000 of the 639,000 lines of the
repository: the models stand for some 2,300 of the 13,800 lines that are its own, comments
and drivers included, and for a vanishing share of all.
