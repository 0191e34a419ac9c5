---------------------------- MODULE VyukovHashMap ----------------------------
(***************************************************************************)
(* xenium::vyukov_hash_map (impl/vyukov_hash_map.hpp).  A block is an      *)
(* array of buckets; a bucket has a few cells and a list of extension      *)
(* items, and a state: lock, number of cells in use, the cell a removal is *)
(* working on (mark), and a version that each removal increments.  Those   *)
(* who change a bucket lock it; try_get_value takes no lock and validates  *)
(* what it reads by the state.  When a bucket is full and no extension     *)
(* item is left, grow copies everything to a block of twice the size.      *)
(*                                                                         *)
(* Blocks are deleted as module Reclaimer promises; keys are their hashes. *)
(* What a thread does under a lock with fields that only owners of the     *)
(* lock touch is one step; what readers see takes one step per access.     *)
(***************************************************************************)
EXTENDS Reclaimer, SequencesExt

CONSTANTS Key, Value, Absent, NoCall,
          Cells,   \* bucket_item_count
          Items,   \* extension items of a block
          Roles    \* Roles[i]: buckets and keys of the map at first, and what each thread does

ASSUME VHMAssumption == Key \subseteq Nat /\ Cells \in Nat \ {0} /\ Items \in Nat /\ Slot = {"block"}

VARIABLES block,       \* block[b]: the contents of block b
          data_block, resize_lock,
          pc,
          loc,         \* loc[t]: the local variables of thread t
          role, left, scan,
          call, could, res   \* as in module ConcurrentMap

history == <<call, could, res>>
vars == <<rvars, block, data_block, resize_lock, pc, loc, role, left, scan, history>>

Item == 1..Items
Entry(k, v) == [key |-> k, val |-> v]
NoEntry == Entry(Absent, Absent)
EmptyBucket == [lock |-> FALSE, count |-> 0, mark |-> 0, ver |-> 0,
                cell |-> [i \in 1..Cells |-> NoEntry], head |-> 0]

\* allocate_block; item 0 stands for a null pointer
NewBlock(n) == [bucket |-> [j \in 0..(n - 1) |-> EmptyBucket],
                item |-> [x \in Item |-> [key |-> Absent, val |-> Absent, next |-> x - 1]],
                free |-> Items]

BucketCount(b) == Cardinality(DOMAIN block[b].bucket)

\* The extension items of a list from x on, in order
Chain(blk, x) ==
    LET at[i \in 0..Items] == IF i = 0 THEN x ELSE IF at[i - 1] = 0 THEN 0 ELSE blk.item[at[i - 1]].next
    IN [i \in 1..Cardinality({i \in 0..Items : at[i] # 0}) |-> at[i - 1]]

Extensions(blk, j) == Chain(blk, blk.bucket[j].head)

\* What bucket j holds, as an owner of its lock finds it
Entries(blk, j) ==
    SubSeq(blk.bucket[j].cell, 1, blk.bucket[j].count)
       \o [i \in DOMAIN Extensions(blk, j) |-> blk.item[Extensions(blk, j)[i]]]

\* do_grow puts an item into the new block.
Put(blk, e) ==
    LET j == e.key % Cardinality(DOMAIN blk.bucket)
        c == blk.bucket[j].count
        x == blk.free
    IN IF c < Cells
       THEN [blk EXCEPT !.bucket[j].cell[c + 1] = Entry(e.key, e.val), !.bucket[j].count = c + 1]
       ELSE [blk EXCEPT !.item[x] = [key |-> e.key, val |-> e.val, next |-> blk.bucket[j].head],
                        !.bucket[j].head = x, !.free = blk.item[x].next]

\* Block blk after all elements of a list have been put into it
Filled(blk, list) ==
    LET after[i \in 0..Len(list)] == IF i = 0 THEN blk ELSE Put(after[i - 1], list[i])
    IN after[Len(list)]

Copy(blk) ==
    LET n == Cardinality(DOMAIN blk.bucket)
        after[j \in 0..n] == IF j = 0 THEN NewBlock(2 * n) ELSE Filled(after[j - 1], Entries(blk, j - 1))
    IN after[n]

\* The map that the current block stands for: a marked cell is on its way out.
Current(k) == LET blk == block[data_block] IN
    UNION {{blk.bucket[j].cell[i].val : i \in {i \in 1..blk.bucket[j].count :
                 i # blk.bucket[j].mark /\ blk.bucket[j].cell[i].key = k}}
           \union {blk.item[x].val : x \in {x \in ToSet(Extensions(blk, j)) : blk.item[x].key = k}}
           : j \in DOMAIN blk.bucket}
map == [k \in Key |-> IF Current(k) = {} THEN Absent ELSE CHOOSE v \in Current(k) : TRUE]

MapCalls == UNION {Roles[i].does[t].calls : i \in DOMAIN Roles, t \in Thread}
ASSUME VHMRolesAssumption ==
    /\ \A i \in DOMAIN Roles : Roles[i].buckets \in Nat \ {0} /\ Roles[i].holds \in Seq([key : Key, val : Value])
    /\ NoCall \notin MapCalls /\ \A c \in MapCalls : c.key \in Key
M == INSTANCE ConcurrentMap WITH Calls <- MapCalls

NoLoc == [bucket |-> 0, count |-> 0, ver |-> 0, i |-> 0, x |-> 0, prev |-> 0, val |-> Absent,
          won |-> FALSE, new |-> Null, answer |-> NoCall]

\* The map has been filled by one thread.
Init == /\ role \in DOMAIN Roles
        /\ \E b \in Node : /\ data_block = b
                           /\ status = [n \in Node |-> IF n = b THEN "live" ELSE "free"]
                           /\ block = [n \in Node |-> IF n = b THEN Filled(NewBlock(Roles[role].buckets), Roles[role].holds)
                                                      ELSE NewBlock(1)]
        /\ slot = [t \in Thread |-> [s \in Slot |-> Null]]
        /\ pinned = {}
        /\ resize_lock = 0
        /\ pc = [t \in Thread |-> "idle"]
        /\ loc = [t \in Thread |-> NoLoc]
        /\ left = [t \in Thread |-> Roles[role].does[t].times]
        /\ scan = [t \in Thread |-> [met |-> {}, due |-> {}]]
        /\ call = [t \in Thread |-> NoCall]
        /\ could = [t \in Thread |-> {}]
        /\ res = [t \in Thread |-> NoCall]

Op(t) == IF call[t] = NoCall THEN "scan" ELSE call[t].op
B(t) == slot[t]["block"]                     \* the guarded block
Buck(t) == block[B(t)].bucket[loc[t].bucket] \* bucket
Ext(t) == block[B(t)].item[loc[t].x]         \* *extension
Goto(t, from, to) == pc[t] = from /\ pc' = [pc EXCEPT ![t] = to]
With(f, r) == [x \in DOMAIN f |-> IF x \in DOMAIN r THEN r[x] ELSE f[x]]
Set(t, r) == loc' = [loc EXCEPT ![t] = With(@, r)]
SetBucket(t, r) == block' = [block EXCEPT ![B(t)].bucket[loc[t].bucket] = With(@, r)]
SetItem(t, r) == block' = [block EXCEPT ![B(t)].item[loc[t].x] = With(@, r)]
SetCell(t, r) == block' = [block EXCEPT ![B(t)].bucket[loc[t].bucket].cell[loc[t].i] = With(@, r)]
NoGrow == UNCHANGED <<rvars, data_block, resize_lock>>
Quiet == UNCHANGED <<role, left, scan, history>>
Answer(t, a) == /\ pc' = [pc EXCEPT ![t] = "done"]
                /\ res' = [res EXCEPT ![t] = a]
                /\ UNCHANGED <<rvars, block, data_block, resize_lock, loc, role, left, scan, call, could>>

\* The call of t has its effect: who answered differently before may do so still.
Effect(t) == /\ M!Witness(t, map')
             /\ scan' = [u \in Thread |-> [scan[u] EXCEPT !.due = {k \in @ : map'[k] # Absent}]]
             /\ UNCHANGED <<role, left, call, res>>

-----------------------------------------------------------------------------
Call(t, c) == /\ Goto(t, "idle", "block")
              /\ c \in Roles[role].does[t].calls /\ left[t] > 0
              /\ left' = [left EXCEPT ![t] = @ - 1]
              /\ call' = [call EXCEPT ![t] = c]
              /\ could' = [could EXCEPT ![t] = M!Answers(c, map)]
              /\ UNCHANGED <<block, loc, role, scan, res>> /\ NoGrow

\* begin(): a loop up to end()
ScanBegin(t) == /\ Goto(t, "idle", "block")
                /\ Roles[role].does[t].scans /\ left[t] > 0
                /\ left' = [left EXCEPT ![t] = @ - 1]
                /\ scan' = [scan EXCEPT ![t].due = {k \in Key : map[k] # Absent}]
                /\ UNCHANGED <<block, loc, role, history>> /\ NoGrow

\* The guard goes out of scope.
Return(t) == /\ pc[t] \in {"done", "end"} /\ pc' = [pc EXCEPT ![t] = "idle"]
             /\ Release(t, Slot)
             /\ loc' = [loc EXCEPT ![t] = NoLoc]
             /\ call' = [call EXCEPT ![t] = NoCall]
             /\ could' = [could EXCEPT ![t] = {}]
             /\ res' = [res EXCEPT ![t] = NoCall]
             /\ scan' = [scan EXCEPT ![t] = [met |-> {}, due |-> {}]]
             /\ UNCHANGED <<status, block, data_block, resize_lock, role, left>>

\* b.acquire(data_block)
AcquireBlock(t) ==
    /\ Goto(t, "block", IF Op(t) = "get" THEN "state" ELSE "lock")
    /\ Publish(t, "block", data_block)
    /\ loc' = [loc EXCEPT ![t] = [NoLoc EXCEPT !.bucket = IF Op(t) = "scan" THEN 0
                                                           ELSE call[t].key % BucketCount(data_block)]]
    /\ UNCHANGED <<status, block, data_block, resize_lock>> /\ Quiet

\* The bucket is locked, or has changed: the block may be an old one.
LockFails(t) == /\ Goto(t, "lock", "block")
                /\ Buck(t).lock /\ B(t) # data_block
                /\ UNCHANGED <<block, loc>> /\ NoGrow /\ Quiet

\* Lock the bucket, and find out what to do.
Locks(t, to, r) == /\ Goto(t, "lock", to)
                   /\ ~Buck(t).lock
                   /\ block' = [block EXCEPT ![B(t)].bucket[loc[t].bucket].lock = TRUE]
                   /\ loc' = [loc EXCEPT ![t] = With([@ EXCEPT !.count = Buck(t).count, !.ver = Buck(t).ver], r)]
                   /\ NoGrow /\ Quiet

Ready(t, op) == pc[t] = "lock" /\ Op(t) = op
CellsWith(t) == {i \in 1..Buck(t).count : Buck(t).cell[i].key = call[t].key}
ItemsWith(t) == {x \in ToSet(Extensions(block[B(t)], loc[t].bucket)) : block[B(t)].item[x].key = call[t].key}
Found(t) == CellsWith(t) \union ItemsWith(t) # {}

\* The end of a call that changes nothing, or has done so before
Unlock(t) == /\ Goto(t, "unlock", IF Op(t) = "scan" THEN "end" ELSE "finish")
             /\ SetBucket(t, [lock |-> FALSE])
             /\ UNCHANGED loc /\ NoGrow /\ Quiet

Finish(t) == pc[t] = "finish" /\ Answer(t, loc[t].answer)

-----------------------------------------------------------------------------
(* do_get_or_emplace                                                       *)

InsertFound(t) == /\ Ready(t, "insert") /\ Found(t)
                  /\ Locks(t, "unlock", [answer |-> "already_present"])

InsertCell(t) == /\ Ready(t, "insert") /\ ~Found(t) /\ Buck(t).count < Cells
                 /\ Locks(t, "cell_key", [i |-> Buck(t).count + 1])

CellKey(t) == /\ Goto(t, "cell_key", "cell_val")
              /\ SetCell(t, [key |-> call[t].key])
              /\ UNCHANGED loc /\ NoGrow /\ Quiet

CellVal(t) == /\ Goto(t, "cell_val", "inserted")
              /\ SetCell(t, [val |-> call[t].val])
              /\ UNCHANGED loc /\ NoGrow /\ Quiet

\* state.inc_item_count(), and the lock is released
Inserted(t) == /\ Goto(t, "inserted", "finish")
               /\ SetBucket(t, [lock |-> FALSE, count |-> loc[t].count + 1])
               /\ Set(t, [answer |-> "success"])
               /\ NoGrow /\ Effect(t)

InsertExtension(t) == /\ Ready(t, "insert") /\ ~Found(t) /\ Buck(t).count = Cells
                      /\ Locks(t, "allocate", [answer |-> "success"])

\* allocate_extension_item
AllocateItem(t) == /\ Goto(t, "allocate", "ext_key")
                   /\ LET x == block[B(t)].free IN
                      /\ x # 0
                      /\ block' = [block EXCEPT ![B(t)].free = block[B(t)].item[x].next]
                      /\ Set(t, [x |-> x])
                   /\ NoGrow /\ Quiet

AllocateFails(t) == /\ Goto(t, "allocate", "grow")
                    /\ block[B(t)].free = 0
                    /\ UNCHANGED <<block, loc>> /\ NoGrow /\ Quiet

ExtKey(t) == /\ Goto(t, "ext_key", "ext_val")
             /\ SetItem(t, [key |-> call[t].key])
             /\ UNCHANGED loc /\ NoGrow /\ Quiet

ExtVal(t) == /\ Goto(t, "ext_val", "ext_next")
             /\ SetItem(t, [val |-> call[t].val])
             /\ UNCHANGED loc /\ NoGrow /\ Quiet

ExtNext(t) == /\ Goto(t, "ext_next", "ext_head")
              /\ SetItem(t, [next |-> Buck(t).head])
              /\ UNCHANGED loc /\ NoGrow /\ Quiet

ExtHead(t) == /\ Goto(t, "ext_head", "unlock")
              /\ SetBucket(t, [head |-> loc[t].x])
              /\ UNCHANGED loc /\ NoGrow /\ Effect(t)

InsertStep(t) == \/ InsertFound(t) \/ InsertCell(t) \/ CellKey(t) \/ CellVal(t) \/ Inserted(t)
                 \/ InsertExtension(t) \/ AllocateItem(t) \/ AllocateFails(t)
                 \/ ExtKey(t) \/ ExtVal(t) \/ ExtNext(t) \/ ExtHead(t)

-----------------------------------------------------------------------------
(* grow and do_grow                                                        *)

\* The bucket stays locked until it is known who grows the map.
GrowTry(t) == /\ Goto(t, "grow", "grow_unlock")
              /\ Set(t, [won |-> resize_lock = 0])
              /\ resize_lock' = 1
              /\ UNCHANGED <<rvars, block, data_block>> /\ Quiet

GrowUnlock(t) == /\ Goto(t, "grow_unlock", IF loc[t].won THEN "grow_lock" ELSE "grow_wait")
                 /\ SetBucket(t, [lock |-> FALSE])
                 /\ Set(t, [bucket |-> 0])
                 /\ NoGrow /\ Quiet

GrowWait(t) == /\ Goto(t, "grow_wait", "block")
               /\ resize_lock = 0
               /\ UNCHANGED <<block, loc>> /\ NoGrow /\ Quiet

GrowLock(t) ==
    /\ Goto(t, "grow_lock", IF loc[t].bucket + 1 = BucketCount(data_block) THEN "copy" ELSE "grow_lock")
    /\ ~Buck(t).lock
    /\ SetBucket(t, [lock |-> TRUE])
    /\ Set(t, [bucket |-> loc[t].bucket + 1])
    /\ NoGrow /\ Quiet

GrowCopy(t) == /\ Goto(t, "copy", "publish")
               /\ \E n \in Node : /\ Allocate(n)
                                 /\ block' = [block EXCEPT ![n] = Copy(block[data_block])]
                                 /\ Set(t, [new |-> n])
               /\ UNCHANGED <<slot, pinned, data_block, resize_lock>> /\ Quiet

\* The old buckets stay locked for ever.
GrowPublish(t) == /\ Goto(t, "publish", "grown")
                  /\ data_block' = loc[t].new
                  /\ UNCHANGED <<rvars, block, resize_lock, loc>> /\ Quiet

Grown(t) == /\ Goto(t, "grown", "retire")
            /\ resize_lock' = 0
            /\ UNCHANGED <<rvars, block, data_block, loc>> /\ Quiet

\* Mutant of GrowRetire: the old block is deleted at once.
GrowDelete(t) == /\ Goto(t, "retire", "block")
                 /\ status' = [status EXCEPT ![B(t)] = "free"]
                 /\ UNCHANGED <<slot, pinned, block, data_block, resize_lock, loc>> /\ Quiet

\* g.reclaim(), and try again with the new block
GrowRetire(t) == /\ Goto(t, "retire", "block")
                 /\ Retire(B(t))
                 /\ UNCHANGED <<slot, block, data_block, resize_lock, loc>> /\ Quiet

GrowStep(t) == \/ GrowTry(t) \/ GrowUnlock(t) \/ GrowWait(t) \/ GrowLock(t) \/ GrowCopy(t)
               \/ GrowPublish(t) \/ Grown(t) \/ GrowRetire(t)

-----------------------------------------------------------------------------
(* do_extract, and erase of an iterator in a bucket without extensions     *)

\* The count is looked at before the bucket is locked.
RemoveNone(t) == /\ Ready(t, "remove") /\ call[t].how = "key"
                 /\ Buck(t).count = 0
                 /\ Answer(t, "element_not_found")

Removing(t) == Ready(t, "remove") /\ (call[t].how = "key" => Buck(t).count > 0)

RemoveNotFound(t) == /\ Removing(t) /\ ~Found(t)
                     /\ Locks(t, "unlock", [answer |-> "element_not_found"])

\* The last cell is dropped; any other one gets the first extension or the last cell.
RemoveCell(t) == /\ Removing(t)
                 /\ \E i \in CellsWith(t) :
                       Locks(t, IF Buck(t).head = 0 /\ i = Buck(t).count THEN "erased" ELSE "mark",
                             [i |-> i, answer |-> "success"])

RemoveItem(t) == /\ Removing(t) /\ CellsWith(t) = {}
                 /\ LET list == <<0>> \o Extensions(block[B(t)], loc[t].bucket)
                    IN \E n \in 2..Len(list) :
                          /\ list[n] \in ItemsWith(t)
                          /\ Locks(t, "unlink", [x |-> list[n], prev |-> list[n - 1], answer |-> "success"])

Mark(t) == /\ Goto(t, "mark", "move_key")
           /\ SetBucket(t, [mark |-> loc[t].i])
           /\ UNCHANGED loc /\ NoGrow /\ Effect(t)

Moved(t) == IF Buck(t).head # 0 THEN block[B(t)].item[Buck(t).head] ELSE Buck(t).cell[loc[t].count]

MoveKey(t) == /\ Goto(t, "move_key", "move_val")
              /\ SetCell(t, [key |-> Moved(t).key])
              /\ UNCHANGED loc /\ NoGrow /\ Quiet

MoveVal(t) == /\ Goto(t, "move_val", IF Buck(t).head # 0 THEN "unmark" ELSE "erased")
              /\ SetCell(t, [val |-> Moved(t).val])
              /\ UNCHANGED loc /\ NoGrow /\ Quiet

\* Mutant of Unmark: the version is increased at the end only.
UnmarkSilently(t) == /\ Goto(t, "unmark", "drop")
                     /\ SetBucket(t, [mark |-> 0])
                     /\ Set(t, [x |-> Buck(t).head])
                     /\ NoGrow /\ Quiet

\* locked_state.new_version(), without the mark
Unmark(t) == /\ Goto(t, "unmark", "drop")
             /\ SetBucket(t, [mark |-> 0, ver |-> loc[t].ver + 1])
             /\ Set(t, [ver |-> loc[t].ver + 1, x |-> Buck(t).head])
             /\ NoGrow /\ Quiet

\* Mutant of DropItem: the item stays in the list.
DropItemKept(t) == Goto(t, "drop", "erased") /\ UNCHANGED <<block, loc>> /\ NoGrow /\ Quiet

DropItem(t) == /\ Goto(t, "drop", "erased")
               /\ SetBucket(t, [head |-> Ext(t).next])
               /\ UNCHANGED loc /\ NoGrow /\ Quiet

Unlink(t) == /\ Goto(t, "unlink", "erased")
             /\ IF loc[t].prev = 0 THEN SetBucket(t, [head |-> Ext(t).next])
                ELSE block' = [block EXCEPT ![B(t)].item[loc[t].prev].next = Ext(t).next]
             /\ UNCHANGED loc /\ NoGrow /\ Effect(t)

\* A new version; erase(pos) keeps the lock, and goes on to the next item.
Erased(t) ==
    /\ Goto(t, "erased", IF loc[t].x # 0 THEN "free" ELSE IF call[t].how = "key" THEN "finish"
                         ELSE IF loc[t].i = loc[t].count THEN "next" ELSE "unlock")
    /\ SetBucket(t, [lock |-> call[t].how # "key", mark |-> 0, ver |-> loc[t].ver + 1,
                     count |-> IF loc[t].x = 0 THEN loc[t].count - 1 ELSE loc[t].count])
    /\ UNCHANGED loc /\ NoGrow
    /\ IF loc[t].x = 0 /\ Buck(t).mark = 0 THEN Effect(t) ELSE Quiet

\* free_extension_item, after the bucket has been unlocked
FreeItem(t) == /\ Goto(t, "free", "finish")
               /\ block' = [block EXCEPT ![B(t)].item[loc[t].x].next = block[B(t)].free,
                                         ![B(t)].free = loc[t].x]
               /\ UNCHANGED loc /\ NoGrow /\ Quiet

RemoveStep(t) == \/ RemoveNone(t) \/ RemoveNotFound(t) \/ RemoveCell(t) \/ RemoveItem(t)
                 \/ Mark(t) \/ MoveKey(t) \/ MoveVal(t) \/ Unmark(t) \/ DropItem(t) \/ Unlink(t)
                 \/ Erased(t) \/ FreeItem(t)

-----------------------------------------------------------------------------
(* try_get_value                                                           *)

Get(t, from, to, r) == Goto(t, from, to) /\ Set(t, r) /\ UNCHANGED block /\ NoGrow /\ Quiet
Same(t) == Buck(t).ver = loc[t].ver
More(t) == IF loc[t].i < loc[t].count THEN "get_key" ELSE "head"

GetState(t) == /\ pc[t] = "state"
               /\ Get(t, "state", IF Buck(t).count > 0 THEN "get_key" ELSE "head",
                      [count |-> Buck(t).count, ver |-> Buck(t).ver, i |-> 1])

GetKey(t) == /\ pc[t] = "get_key"
             /\ IF Buck(t).cell[loc[t].i].key = call[t].key THEN Get(t, "get_key", "get_val", [x |-> 0])
                ELSE Get(t, "get_key", More(t), [i |-> loc[t].i + 1])

GetVal(t) == pc[t] = "get_val" /\ Get(t, "get_val", "get_check", [val |-> Buck(t).cell[loc[t].i].val])

\* Another version: a removal has moved something in the meantime.
GetAgain(t) == /\ pc[t] \in {"get_check", "get_ext_check", "last"} /\ ~Same(t)
               /\ Get(t, pc[t], "state", [val |-> Absent])

\* A cell that a removal is working on is passed over.
GetCheck(t) == /\ pc[t] = "get_check" /\ Same(t)
               /\ IF Buck(t).mark = loc[t].i THEN Get(t, "get_check", More(t), [i |-> loc[t].i + 1, val |-> Absent])
                  ELSE Answer(t, loc[t].val)

GetHead(t) == pc[t] = "head" /\ Get(t, "head", IF Buck(t).head = 0 THEN "last" ELSE "get_ext", [x |-> Buck(t).head])

GetExt(t) == pc[t] = "get_ext" /\ Get(t, "get_ext", IF Ext(t).key = call[t].key THEN "get_ext_val" ELSE "get_next", [i |-> 0])

GetExtVal(t) == pc[t] = "get_ext_val" /\ Get(t, "get_ext_val", "get_ext_check", [val |-> Ext(t).val])

GetExtCheck(t) == pc[t] = "get_ext_check" /\ Same(t) /\ Answer(t, loc[t].val)

GetNext(t) == pc[t] = "get_next" /\ Get(t, "get_next", "next_check", [x |-> Ext(t).next])

GetNextCheck(t) == /\ pc[t] = "next_check"
                   /\ Get(t, "next_check", IF ~Same(t) THEN "state" ELSE IF loc[t].x = 0 THEN "last" ELSE "get_ext", [i |-> 0])

GetLast(t) == pc[t] = "last" /\ Same(t) /\ Answer(t, Absent)

GetStep(t) == \/ GetState(t) \/ GetKey(t) \/ GetVal(t) \/ GetAgain(t) \/ GetCheck(t) \/ GetHead(t) \/ GetExt(t)
              \/ GetExtVal(t) \/ GetExtCheck(t) \/ GetNext(t) \/ GetNextCheck(t) \/ GetLast(t)

-----------------------------------------------------------------------------
(* Iterators: the bucket of the iterator is locked.                        *)

ScanLock(t) == Ready(t, "scan") /\ Locks(t, "visit", [i |-> 0])

\* Mutant of Visit: the loop leaves a bucket after its cells.
VisitCells(t) ==
    /\ Goto(t, "visit", "next")
    /\ scan' = [scan EXCEPT ![t].met = @ \union {Buck(t).cell[i].key : i \in 1..loc[t].count}]
    /\ UNCHANGED <<block, loc, role, left, history>> /\ NoGrow

\* The body of a loop for the items of one bucket
Visit(t) == /\ Goto(t, "visit", "next")
            /\ scan' = [scan EXCEPT ![t].met = @ \union {e.key : e \in ToSet(Entries(block[B(t)], loc[t].bucket))}]
            /\ UNCHANGED <<block, loc, role, left, history>> /\ NoGrow

\* move_to_next_bucket: lock the next bucket, or come to the end
NextBucket(t) == /\ Goto(t, "next", "leave")
                 /\ loc[t].bucket + 1 < BucketCount(B(t))
                 /\ ~block[B(t)].bucket[loc[t].bucket + 1].lock
                 /\ block' = [block EXCEPT ![B(t)].bucket[loc[t].bucket + 1].lock = TRUE]
                 /\ UNCHANGED loc /\ NoGrow /\ Quiet

LastBucket(t) == /\ Goto(t, "next", "unlock")
                 /\ loc[t].bucket + 1 = BucketCount(B(t))
                 /\ UNCHANGED <<block, loc>> /\ NoGrow /\ Quiet

\* ... and unlock the previous one
LeaveBucket(t) == /\ Goto(t, "leave", IF Op(t) = "scan" THEN "visit"
                                     ELSE IF block[B(t)].bucket[loc[t].bucket + 1].count = 0 THEN "next" ELSE "unlock")
                  /\ SetBucket(t, [lock |-> FALSE])
                  /\ Set(t, [bucket |-> loc[t].bucket + 1])
                  /\ NoGrow /\ Quiet

IteratorStep(t) == ScanLock(t) \/ Visit(t) \/ NextBucket(t) \/ LastBucket(t) \/ LeaveBucket(t)

-----------------------------------------------------------------------------
Delete(n) == Reclaim(n) /\ UNCHANGED <<slot, pinned, block, data_block, resize_lock, pc, loc, role, left, scan, history>>

\* The callers are done.
Done == (\A t \in Thread : pc[t] = "idle" /\ left[t] = 0) /\ UNCHANGED vars

Next == \/ \E t \in Thread : \/ \E c \in MapCalls : Call(t, c)
                           \/ ScanBegin(t) \/ Return(t) \/ AcquireBlock(t) \/ LockFails(t) \/ Unlock(t) \/ Finish(t)
                           \/ InsertStep(t) \/ GrowStep(t) \/ RemoveStep(t) \/ GetStep(t) \/ IteratorStep(t)
        \/ \E n \in Node : Delete(n)
        \/ Done

Spec == Init /\ [][Next]_vars

-----------------------------------------------------------------------------
(* Properties                                                              *)

TypeOK == /\ RTypeOK
          /\ data_block \in Node /\ resize_lock \in {0, 1}
          /\ \A b \in Node : /\ block[b].free \in 0..Items
                           /\ \A j \in DOMAIN block[b].bucket : /\ block[b].bucket[j].count \in 0..Cells
                                                              /\ block[b].bucket[j].mark \in 0..Cells
          /\ \A t \in Thread : loc[t].i \in 0..(Cells + 1) /\ loc[t].x \in 0..Items

\* A thread that works on a block has guarded it since before it was retired.
MemorySafe == \A t \in Thread : pc[t] \notin {"idle", "block", "grow_wait", "finish", "done", "end"} => Protected(t, "block")

Held(b) == {t \in Thread : B(t) = b /\ pc[t] \in {"ext_key", "ext_val", "ext_next", "ext_head", "erased", "free"} /\ loc[t].x # 0}

\* An extension item is in the list of one bucket, on the free list, or in the
\* hands of one thread; lists stand behind full buckets; a key is in the map once.
ItemsOwned == \A b \in Node : status[b] # "free" =>
    /\ \A x \in Item :
          Cardinality({t \in Held(b) : loc[t].x = x})
            + Cardinality({j \in DOMAIN block[b].bucket : x \in ToSet(Extensions(block[b], j))})
            + Cardinality({x} \intersect ToSet(Chain(block[b], block[b].free))) = 1
    /\ \A j \in DOMAIN block[b].bucket :
          /\ block[b].bucket[j].head # 0 => block[b].bucket[j].count = Cells
          /\ \A e \in ToSet(Entries(block[b], j)) : e.key % BucketCount(b) = j
    /\ b = data_block => \A k \in Key : Cardinality(Current(k)) <= 1

\* A loop meets every element that is in the map all the time.
ScanComplete == \A t \in Thread : pc[t] = "end" => scan[t].due \subseteq scan[t].met

\* Every call takes effect, or reads, at one moment (module ConcurrentMap).
Linearizable == M!MSpec
=============================================================================
