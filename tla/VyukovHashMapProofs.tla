------------------------- MODULE VyukovHashMapProofs -------------------------
(***************************************************************************)
(* Proofs about VyukovHashMap, for any number of threads, blocks, buckets, *)
(* cells, extension items and keys: who works on a block guards it, and    *)
(* who works on a bucket is alone with it, in the current block.           *)
(***************************************************************************)
EXTENDS VyukovHashMap, FiniteSetTheorems, SequenceTheorems, WellFoundedInduction, TLAPS

-----------------------------------------------------------------------------
(* The invariant                                                           *)

IsBucket(k) ==
    /\ DOMAIN k = {"lock", "count", "mark", "ver", "cell", "head"}
    /\ k.lock \in BOOLEAN /\ k.count \in Int

IsBlock(blk) ==
    /\ DOMAIN blk = {"bucket", "item", "free"}
    /\ Cardinality(DOMAIN blk.bucket) \in Nat \ {0}
    /\ DOMAIN blk.bucket = 0..(Cardinality(DOMAIN blk.bucket) - 1)
    /\ \A j \in DOMAIN blk.bucket : IsBucket(blk.bucket[j])

Domains == /\ DOMAIN block = Node /\ DOMAIN pc = Thread /\ DOMAIN loc = Thread
           /\ DOMAIN call = Thread /\ data_block \in Node

LocType(t) ==
    /\ DOMAIN loc[t] = DOMAIN NoLoc
    /\ loc[t].bucket \in Nat /\ loc[t].count \in Int /\ loc[t].won \in BOOLEAN
    /\ call[t] \in MapCalls \union {NoCall}

VType == /\ RTypeOK /\ Domains
         /\ \A b \in Node : IsBlock(block[b])
         /\ \A t \in Thread : LocType(t)

\* The places at which a thread has locked the bucket it works on
Owning == {"unlock", "cell_key", "cell_val", "inserted", "allocate", "ext_key", "ext_val", "ext_next",
           "ext_head", "grow", "grow_unlock", "mark", "move_key", "move_val", "unmark", "drop",
           "unlink", "erased", "visit", "next", "leave"}

\* Thread t owns the lock of bucket j of its block; do_grow owns all that it has come to.
Owns(t, j) == \/ pc[t] \in Owning /\ j = loc[t].bucket
              \/ pc[t] = "leave" /\ j = loc[t].bucket + 1
              \/ pc[t] \in {"grow_lock", "copy", "publish"} /\ j \in 0..(loc[t].bucket - 1)

Locked(b, j) == block[b].bucket[j].lock
Buckets(b) == DOMAIN block[b].bucket

\* The guard of a thread protects its block, and its bucket is one of them.
Idle == {"idle", "block", "grow_wait", "finish", "done", "end"}
PlaceOK(t) ==
    /\ B(t) # Null => Protected(t, "block")
    /\ pc[t] \notin Idle => B(t) # Null
    /\ pc[t] \notin Idle \union {"copy", "publish", "grown", "retire"} => loc[t].bucket \in Buckets(B(t))
    /\ pc[t] = "leave" => loc[t].bucket + 1 \in Buckets(B(t))
    /\ pc[t] \in {"copy", "publish"} => loc[t].bucket = BucketCount(B(t))

\* The owner of a lock is in the current block, where it has the lock alone.
LocksOK ==
    /\ \A t \in Thread : \A j \in Nat : Owns(t, j) =>
          B(t) = data_block /\ j \in Buckets(B(t)) /\ Locked(B(t), j)
    /\ \A t, u \in Thread : \A j \in Nat : Owns(t, j) /\ Owns(u, j) => t = u

\* Nobody can lock anything in a block that has been replaced.
OldLocked(t) == B(t) # Null /\ B(t) # data_block => \A j \in Buckets(B(t)) : Locked(B(t), j)

\* The thread that has set resize_lock
Growing(t) == pc[t] \in {"grow_lock", "copy", "publish", "grown"} \/ (pc[t] = "grow_unlock" /\ loc[t].won)

GrowOK ==
    /\ status[data_block] = "live"
    /\ \A t \in Thread : Growing(t) => resize_lock = 1
    /\ \A t, u \in Thread : Growing(t) /\ Growing(u) => t = u
    /\ \A t \in Thread : pc[t] \in {"grow_lock", "copy", "publish"} => B(t) = data_block
    /\ \A t \in Thread : pc[t] = "publish" =>
          /\ loc[t].new \in Node /\ status[loc[t].new] = "live" /\ loc[t].new # data_block
          /\ \A u \in Thread : B(u) # loc[t].new
    /\ \A t \in Thread : pc[t] \in {"grown", "retire"} => B(t) # data_block /\ status[B(t)] = "live"
    /\ \A t, u \in Thread :
          pc[t] \in {"grown", "retire"} /\ pc[u] \in {"grown", "retire"} /\ B(t) = B(u) => t = u

VInv == /\ VType /\ LocksOK /\ GrowOK
        /\ \A t \in Thread : PlaceOK(t) /\ OldLocked(t)

-----------------------------------------------------------------------------
(* The shape of a block that is filled                                     *)

LEMMA LeastNumber ==
  ASSUME NEW S \in SUBSET Nat, S # {}
  PROVE  \E m \in S : \A n \in S : m <= n
<1>1. PICK m \in S : \A n \in S : ~(<<n, m>> \in OpToRel(<, Nat))
  BY WFMin, NatLessThanWellFounded
<1>2. \A n \in S : ~(n < m)
  BY <1>1 DEF OpToRel
<1> QED
  BY <1>2

\* blk, and what has become of it after each of the first n elements of a list
Fills(f, blk, list, n) == /\ DOMAIN f = 0..n /\ f[0] = blk
                          /\ \A i \in 1..n : f[i] = Put(f[i - 1], list[i])

LEMMA FillsExists ==
  ASSUME NEW blk, NEW list
  PROVE  \A n \in Nat : \E f : Fills(f, blk, list, n)
<1> DEFINE Bad == {n \in Nat : ~ \E f : Fills(f, blk, list, n)}
<1> SUFFICES ASSUME Bad # {} PROVE FALSE
  OBVIOUS
<1>1. PICK m \in Bad : \A n \in Bad : m <= n
  BY LeastNumber
<1>2. CASE m = 0
  <2>1. Fills([i \in 0..0 |-> blk], blk, list, 0)
    BY DEF Fills
  <2> QED
    BY <1>1, <1>2, <2>1
<1>3. CASE m # 0
  <2>1. m - 1 \in Nat /\ m - 1 \notin Bad
    BY <1>1, <1>3
  <2>2. PICK f : Fills(f, blk, list, m - 1)
    BY <2>1
  <2> DEFINE g == [i \in 0..m |-> IF i = m THEN Put(f[m - 1], list[m]) ELSE f[i]]
  <2>3. Fills(g, blk, list, m)
    <3>1. g[0] = blk /\ DOMAIN g = 0..m
      BY <2>1, <2>2, <1>3 DEF Fills
    <3>2. ASSUME NEW i \in 1..m PROVE g[i] = Put(g[i - 1], list[i])
      <4>1. CASE i = m
        <5>1. g[i] = Put(f[m - 1], list[m]) /\ g[i - 1] = f[m - 1]
          BY <2>1, <4>1
        <5> QED
          BY <5>1, <4>1
      <4>2. CASE i # m
        <5>1. i \in 1..(m - 1) /\ g[i] = f[i] /\ g[i - 1] = f[i - 1]
          BY <2>1, <4>2
        <5>2. f[i] = Put(f[i - 1], list[i])
          BY <5>1, <2>2 DEF Fills
        <5> QED
          BY <5>1, <5>2
      <4> QED
        BY <4>1, <4>2
    <3> QED
      BY <3>1, <3>2 DEF Fills
  <2> QED
    BY <1>1, <2>3
<1> QED
  BY <1>2, <1>3

LEMMA PutShape ==
  ASSUME NEW blk, NEW e, IsBlock(blk)
  PROVE  IsBlock(Put(blk, e)) /\ DOMAIN Put(blk, e).bucket = DOMAIN blk.bucket
<1> DEFINE j == e.key % Cardinality(DOMAIN blk.bucket)
           c == blk.bucket[j].count
           x == blk.free
           X == [blk EXCEPT !.bucket[j].cell[c + 1] = Entry(e.key, e.val), !.bucket[j].count = c + 1]
           Y == [blk EXCEPT !.item[x] = [key |-> e.key, val |-> e.val, next |-> blk.bucket[j].head],
                            !.bucket[j].head = x, !.free = blk.item[x].next]
<1>1. Put(blk, e) = IF c < Cells THEN X ELSE Y
  BY DEF Put
<1> HIDE DEF j
<1>2. IsBlock(X) /\ DOMAIN X.bucket = DOMAIN blk.bucket
  <2>1. DOMAIN X = DOMAIN blk /\ DOMAIN X.bucket = DOMAIN blk.bucket
    BY DEF IsBlock
  <2>2. ASSUME NEW i \in DOMAIN blk.bucket PROVE IsBucket(X.bucket[i])
    BY <2>1 DEF IsBlock, IsBucket
  <2> QED
    BY <2>1, <2>2 DEF IsBlock
<1>3. IsBlock(Y) /\ DOMAIN Y.bucket = DOMAIN blk.bucket
  <2>1. DOMAIN Y = DOMAIN blk /\ DOMAIN Y.bucket = DOMAIN blk.bucket
    BY DEF IsBlock
  <2>2. ASSUME NEW i \in DOMAIN blk.bucket PROVE IsBucket(Y.bucket[i])
    BY <2>1 DEF IsBlock, IsBucket
  <2> QED
    BY <2>1, <2>2 DEF IsBlock
<1> QED
  BY <1>1, <1>2, <1>3

\* The same without a last element: what is filled in is a block.
LEMMA FillsShape ==
  ASSUME NEW f, NEW blk, NEW list, NEW n \in Nat, Fills(f, blk, list, n), IsBlock(blk)
  PROVE  \A i \in 0..n : IsBlock(f[i]) /\ DOMAIN f[i].bucket = DOMAIN blk.bucket
<1> DEFINE Bad == {i \in 0..n : ~(IsBlock(f[i]) /\ DOMAIN f[i].bucket = DOMAIN blk.bucket)}
<1> SUFFICES ASSUME Bad # {} PROVE FALSE
  OBVIOUS
<1>0. Bad \in SUBSET Nat
  OBVIOUS
<1>1. PICK m \in Bad : \A i \in Bad : m <= i
  BY <1>0, LeastNumber
<1>2. m # 0
  BY <1>1 DEF Fills
<1>3. m - 1 \in 0..n /\ m - 1 \notin Bad /\ m \in 1..n
  BY <1>1, <1>2
<1>4. f[m] = Put(f[m - 1], list[m]) /\ IsBlock(f[m - 1]) /\ DOMAIN f[m - 1].bucket = DOMAIN blk.bucket
  BY <1>3 DEF Fills
<1> QED
  BY <1>1, <1>4, PutShape

LEMMA FilledShape ==
  ASSUME NEW blk, NEW list, IsBlock(blk), Len(list) \in Nat
  PROVE  IsBlock(Filled(blk, list)) /\ DOMAIN Filled(blk, list).bucket = DOMAIN blk.bucket
<1> DEFINE n == Len(list)
           Step(f) == [i \in 0..n |-> IF i = 0 THEN blk ELSE Put(f[i - 1], list[i])]
           after == CHOOSE f : f = Step(f)
<1>1. Filled(blk, list) = after[n]
  BY DEF Filled
<1>2. \E f : f = Step(f)
  <2>1. PICK g : Fills(g, blk, list, n)
    BY FillsExists
  <2> DEFINE f == [i \in 0..n |-> g[i]]
  <2>2. f = Step(f)
    BY <2>1 DEF Fills
  <2> QED
    BY <2>2
<1>3. after = Step(after)
  BY <1>2
<1> HIDE DEF after
<1>4. Fills(after, blk, list, n)
  BY <1>3 DEF Fills
<1> QED
  BY <1>1, <1>4, FillsShape

LEMMA NewBlockShape ==
  ASSUME NEW n \in Nat \ {0}
  PROVE  IsBlock(NewBlock(n)) /\ DOMAIN NewBlock(n).bucket = 0..(n - 1)
<1>1. Cardinality(0..(n - 1)) = n
  BY FS_Interval
<1>2. IsBucket(EmptyBucket)
  BY DEF IsBucket, EmptyBucket
<1> QED
  BY <1>1, <1>2 DEF NewBlock, IsBlock

LEMMA EntriesLength ==
  ASSUME NEW blk, IsBlock(blk), NEW j \in DOMAIN blk.bucket
  PROVE  Len(Entries(blk, j)) \in Nat
<1> DEFINE b == blk.bucket[j]
           cells == SubSeq(b.cell, 1, b.count)
           ext == Extensions(blk, j)
           items == [i \in DOMAIN ext |-> blk.item[ext[i]]]
           S == {b.cell[i] : i \in Int} \union {blk.item[ext[i]] : i \in Int}
<1>1. Entries(blk, j) = cells \o items
  BY DEF Entries
<1>2. cells \in Seq(S)
  <2>1. b.count \in Int /\ \A i \in 1..b.count : b.cell[i] \in S
    BY DEF IsBlock, IsBucket
  <2> HIDE DEF b, S
  <2> QED
    BY <2>1, SubSeqProperties
<1>3. items \in Seq(S)
  <2> DEFINE at == CHOOSE f : f = [i \in 0..Items |-> IF i = 0 THEN b.head
                                       ELSE IF f[i - 1] = 0 THEN 0 ELSE blk.item[f[i - 1]].next]
             n == Cardinality({i \in 0..Items : at[i] # 0})
  <2>1. ext = [i \in 1..n |-> at[i - 1]]
    BY DEF Extensions, Chain
  <2>2. n \in Nat
    <3>1. IsFiniteSet(0..Items)
      BY FS_Interval, VHMAssumption
    <3>2. IsFiniteSet({i \in 0..Items : at[i] # 0})
      BY <3>1, FS_Subset
    <3> QED
      BY <3>2, FS_CardinalityType
  <2>3. items = [i \in 1..n |-> blk.item[ext[i]]]
    BY <2>1
  <2> HIDE DEF n, ext, b, items
  <2>4. \A i \in 1..n : blk.item[ext[i]] \in S
    OBVIOUS
  <2> QED
    BY <2>2, <2>3, <2>4
<1> HIDE DEF cells, items, S
<1>4. cells \o items \in Seq(S)
  BY <1>2, <1>3
<1> QED
  BY <1>1, <1>4, LenProperties

\* What do_grow has made of the new block after n buckets
Copies(f, blk, m, n) == /\ DOMAIN f = 0..n /\ f[0] = NewBlock(2 * m)
                        /\ \A j \in 1..n : f[j] = Filled(f[j - 1], Entries(blk, j - 1))

LEMMA CopiesExists ==
  ASSUME NEW blk, NEW m
  PROVE  \A n \in Nat : \E f : Copies(f, blk, m, n)
<1> DEFINE Bad == {n \in Nat : ~ \E f : Copies(f, blk, m, n)}
<1> SUFFICES ASSUME Bad # {} PROVE FALSE
  OBVIOUS
<1>1. PICK n \in Bad : \A i \in Bad : n <= i
  BY LeastNumber
<1>2. CASE n = 0
  <2>1. Copies([i \in 0..0 |-> NewBlock(2 * m)], blk, m, 0)
    BY DEF Copies
  <2> QED
    BY <1>1, <1>2, <2>1
<1>3. CASE n # 0
  <2>1. n - 1 \in Nat /\ n - 1 \notin Bad
    BY <1>1, <1>3
  <2>2. PICK f : Copies(f, blk, m, n - 1)
    BY <2>1
  <2> DEFINE g == [i \in 0..n |-> IF i = n THEN Filled(f[n - 1], Entries(blk, n - 1)) ELSE f[i]]
  <2>3. g[0] = NewBlock(2 * m) /\ DOMAIN g = 0..n
    BY <2>1, <2>2, <1>3 DEF Copies
  <2>4. ASSUME NEW i \in 1..n PROVE g[i] = Filled(g[i - 1], Entries(blk, i - 1))
    <3>1. CASE i = n
      <4>1. g[i] = Filled(f[n - 1], Entries(blk, n - 1)) /\ g[i - 1] = f[n - 1]
        BY <2>1, <3>1
      <4> QED
        BY <4>1, <3>1
    <3>2. CASE i # n
      <4>1. i \in 1..(n - 1) /\ g[i] = f[i] /\ g[i - 1] = f[i - 1]
        BY <2>1, <3>2
      <4>2. f[i] = Filled(f[i - 1], Entries(blk, i - 1))
        BY <4>1, <2>2 DEF Copies
      <4> QED
        BY <4>1, <4>2
    <3> QED
      BY <3>1, <3>2
  <2>5. Copies(g, blk, m, n)
    BY <2>3, <2>4 DEF Copies
  <2> QED
    BY <1>1, <2>5
<1> QED
  BY <1>2, <1>3

\* A copy is a block with twice as many buckets.
LEMMA CopyShape ==
  ASSUME NEW blk, IsBlock(blk)
  PROVE  IsBlock(Copy(blk))
<1> DEFINE n == Cardinality(DOMAIN blk.bucket)
           Step(f) == [j \in 0..n |-> IF j = 0 THEN NewBlock(2 * n) ELSE Filled(f[j - 1], Entries(blk, j - 1))]
           after == CHOOSE f : f = Step(f)
<1>1. Copy(blk) = after[n]
  BY DEF Copy
<1>2. n \in Nat \ {0} /\ DOMAIN blk.bucket = 0..(n - 1)
  BY DEF IsBlock
<1> HIDE DEF n
<1>3. \E f : f = Step(f)
  <2>1. PICK g : Copies(g, blk, n, n)
    BY <1>2, CopiesExists
  <2> DEFINE f == [j \in 0..n |-> g[j]]
  <2>2. f = Step(f)
    BY <2>1, <1>2 DEF Copies
  <2> QED
    BY <2>2
<1>4. after = Step(after)
  BY <1>3
<1> HIDE DEF after
<1>5. Copies(after, blk, n, n)
  BY <1>2, <1>4 DEF Copies
<1> DEFINE Bad == {j \in 0..n : ~IsBlock(after[j])}
<1>6. Bad = {}
  <2> SUFFICES ASSUME Bad # {} PROVE FALSE
    OBVIOUS
  <2>0. Bad \in SUBSET Nat
    BY <1>2
  <2>1. PICK m \in Bad : \A i \in Bad : m <= i
    BY <2>0, LeastNumber
  <2>2. m # 0
    BY <1>2, <1>5, <2>1, NewBlockShape DEF Copies
  <2>3. m - 1 \in 0..(n - 1) /\ m - 1 \notin Bad /\ m \in 1..n
    BY <1>2, <2>1, <2>2
  <2>4. IsBlock(after[m - 1]) /\ after[m] = Filled(after[m - 1], Entries(blk, m - 1))
    BY <1>2, <1>5, <2>3 DEF Copies
  <2>5. Len(Entries(blk, m - 1)) \in Nat
    BY <1>2, <2>3, EntriesLength
  <2> QED
    BY <2>1, <2>4, <2>5, FilledShape
<1> QED
  BY <1>1, <1>2, <1>6

-----------------------------------------------------------------------------
(* Steps that change at most the locks of one thread                       *)

LEMMA Initially == Init => VInv
<1> SUFFICES ASSUME Init PROVE VInv
  OBVIOUS
<1>1. PICK b \in Node :
         /\ data_block = b
         /\ status = [n \in Node |-> IF n = b THEN "live" ELSE "free"]
         /\ block = [n \in Node |-> IF n = b THEN Filled(NewBlock(Roles[role].buckets), Roles[role].holds)
                                    ELSE NewBlock(1)]
  BY DEF Init
<1>2. /\ slot = [t \in Thread |-> [s \in Slot |-> Null]] /\ pinned = {}
      /\ pc = [t \in Thread |-> "idle"] /\ loc = [t \in Thread |-> NoLoc]
      /\ call = [t \in Thread |-> NoCall] /\ role \in DOMAIN Roles
  BY DEF Init
<1>3. \A n \in Node : IsBlock(block[n])
  <2>1. Len(Roles[role].holds) \in Nat /\ Roles[role].buckets \in Nat \ {0}
    BY <1>2, VHMRolesAssumption
  <2>2. IsBlock(Filled(NewBlock(Roles[role].buckets), Roles[role].holds)) /\ IsBlock(NewBlock(1))
    BY <2>1, FilledShape, NewBlockShape
  <2> QED
    BY <1>1, <2>2
<1>4. \A t \in Thread : B(t) = Null /\ pc[t] = "idle"
  BY <1>2, VHMAssumption DEF B
<1>5. VType
  <2>1. RTypeOK
    BY <1>1, <1>2 DEF RTypeOK
  <2>2. Domains
    BY <1>1, <1>2 DEF Domains
  <2>3. \A t \in Thread : LocType(t)
    <3>1. NoLoc.bucket = 0 /\ NoLoc.count = 0 /\ NoLoc.won = FALSE
      BY DEF NoLoc
    <3>2. \A t \in Thread : loc[t] = NoLoc /\ call[t] = NoCall
      BY <1>2
    <3> QED
      BY <3>1, <3>2, 0 \in Nat /\ 0 \in Int DEF LocType
  <2> QED
    BY <1>3, <2>1, <2>2, <2>3 DEF VType
<1>6. LocksOK /\ GrowOK
  BY <1>1, <1>4 DEF LocksOK, Owns, Owning, GrowOK, Growing
<1> QED
  BY <1>4, <1>5, <1>6 DEF VInv, PlaceOK, OldLocked, Idle

\* The blocks keep their shapes.
Shaped == /\ DOMAIN block' = Node
          /\ \A b \in Node : IsBlock(block'[b]) /\ Buckets(b)' = Buckets(b)

LEMMA BlockType ==
  ASSUME VInv, NEW b \in Node
  PROVE  /\ IsBlock(block[b]) /\ BucketCount(b) \in Nat \ {0} /\ Buckets(b) = 0..(BucketCount(b) - 1)
         /\ \A j \in Buckets(b) : IsBucket(block[b].bucket[j])
BY DEF VInv, VType, IsBlock, BucketCount, Buckets

\* Bucket j of block b is overwritten with a bucket, perhaps with another state of its lock.
Overwrites(b, j, k) == block' = [block EXCEPT ![b].bucket[j] = k]

LEMMA BucketChanged ==
  ASSUME VInv, NEW b \in Node, NEW j \in Buckets(b), NEW k, IsBucket(k), Overwrites(b, j, k)
  PROVE  /\ Shaped
         /\ \A c \in Node : \A i \in Buckets(c) :
               Locked(c, i)' = IF c = b /\ i = j THEN k.lock ELSE Locked(c, i)
<1>1. DOMAIN block = Node
  BY DEF VInv, VType, Domains
<1>2. IsBlock(block[b])
  BY BlockType
<1>3. block'[b] = [block[b] EXCEPT !.bucket[j] = k] /\ \A c \in Node \ {b} : block'[c] = block[c]
  BY <1>1 DEF Overwrites
<1>4. DOMAIN block'[b] = DOMAIN block[b] /\ block'[b].bucket = [block[b].bucket EXCEPT ![j] = k]
  BY <1>2, <1>3 DEF IsBlock
<1>5. IsBlock(block'[b]) /\ DOMAIN block'[b].bucket = DOMAIN block[b].bucket
  BY <1>2, <1>4 DEF IsBlock, Buckets
<1>6. \A i \in Buckets(b) : block'[b].bucket[i] = IF i = j THEN k ELSE block[b].bucket[i]
  BY <1>4 DEF Buckets
<1>7. Shaped
  <2>1. DOMAIN block' = Node
    BY <1>1 DEF Overwrites
  <2>2. \A c \in Node \ {b} : IsBlock(block'[c]) /\ Buckets(c)' = Buckets(c)
    BY <1>3, BlockType DEF Buckets
  <2>3. Buckets(b)' = Buckets(b)
    BY <1>5 DEF Buckets
  <2> QED
    BY <1>5, <2>1, <2>2, <2>3 DEF Shaped
<1> QED
  BY <1>3, <1>6, <1>7 DEF Locked

LEMMA WithBucket ==
  ASSUME NEW k, IsBucket(k), NEW r, "lock" \in DOMAIN r => r["lock"] \in BOOLEAN,
         "count" \in DOMAIN r => r["count"] \in Int
  PROVE  IsBucket(With(k, r)) /\ With(k, r).lock = IF "lock" \in DOMAIN r THEN r["lock"] ELSE k.lock
BY DEF IsBucket, With

LEMMA BucketSet ==
  ASSUME VInv, NEW t \in Thread, B(t) \in Node, loc[t].bucket \in Buckets(B(t)), NEW r, SetBucket(t, r),
         "lock" \in DOMAIN r => r["lock"] \in BOOLEAN, "count" \in DOMAIN r => r["count"] \in Int
  PROVE  /\ Shaped
         /\ \A c \in Node : \A i \in Buckets(c) :
               Locked(c, i)' = IF c = B(t) /\ i = loc[t].bucket /\ "lock" \in DOMAIN r THEN r["lock"]
                               ELSE Locked(c, i)
<1>1. PICK b \in Node, j \in Nat : b = B(t) /\ j = loc[t].bucket
  BY DEF VInv, VType, LocType
<1>2. PICK k : k = block[b].bucket[j]
  OBVIOUS
<1>3. j \in Buckets(b) /\ IsBucket(k)
  BY <1>1, <1>2, BlockType
<1>4. PICK new : new = With(k, r)
  OBVIOUS
<1>5. Overwrites(b, j, new)
  BY <1>1, <1>2, <1>4 DEF Overwrites, SetBucket, VInv, VType, Domains
<1>6. IsBucket(new) /\ new.lock = IF "lock" \in DOMAIN r THEN r["lock"] ELSE Locked(b, j)
  BY <1>2, <1>3, <1>4, WithBucket DEF Locked
<1>7. /\ Shaped
      /\ \A c \in Node : \A i \in Buckets(c) : Locked(c, i)' = IF c = b /\ i = j THEN new.lock ELSE Locked(c, i)
  BY <1>3, <1>5, <1>6, BucketChanged
<1> QED
  BY <1>1, <1>6, <1>7

\* What changes besides buckets
SameLocks == Shaped /\ \A c \in Node : \A i \in Buckets(c) : Locked(c, i)' = Locked(c, i)

LEMMA CellSet ==
  ASSUME VInv, NEW t \in Thread, B(t) \in Node, loc[t].bucket \in Buckets(B(t)), NEW r, SetCell(t, r)
  PROVE  SameLocks
<1>1. PICK b \in Node, j \in Nat : b = B(t) /\ j = loc[t].bucket
  BY DEF VInv, VType, LocType
<1>2. PICK k : k = block[b].bucket[j]
  OBVIOUS
<1>3. j \in Buckets(b) /\ IsBucket(k)
  BY <1>1, <1>2, BlockType
<1>4. PICK new : new = [k EXCEPT !.cell[loc[t].i] = With(@, r)]
  OBVIOUS
<1>5. Overwrites(b, j, new)
  BY <1>1, <1>2, <1>4 DEF Overwrites, SetCell, VInv, VType, Domains
<1>6. IsBucket(new) /\ new.lock = Locked(b, j)
  BY <1>2, <1>3, <1>4 DEF Locked, IsBucket
<1>7. /\ Shaped
      /\ \A c \in Node : \A i \in Buckets(c) : Locked(c, i)' = IF c = b /\ i = j THEN new.lock ELSE Locked(c, i)
  BY <1>3, <1>5, <1>6, BucketChanged
<1> QED
  BY <1>6, <1>7 DEF SameLocks

LEMMA ItemsChanged ==
  ASSUME VInv, NEW b \in Node, NEW x, IsBlock(x), x.bucket = block[b].bucket,
         block' = [block EXCEPT ![b] = x]
  PROVE  SameLocks
BY BlockType DEF SameLocks, Shaped, Buckets, Locked, VInv, VType, Domains

\* Thread t makes a step that concerns neither guards nor the other threads.
Lone(t) == /\ UNCHANGED <<rvars, data_block>> /\ Shaped
           /\ DOMAIN pc' = Thread /\ DOMAIN loc' = Thread /\ DOMAIN call' = Thread /\ LocType(t)'
           /\ \A u \in Thread \ {t} : pc'[u] = pc[u] /\ loc'[u] = loc[u] /\ call'[u] = call[u]

\* Where a lock changes, t has it or gets it.
LocksOf(t) == \A c \in Node : \A i \in Buckets(c) :
                 Locked(c, i)' # Locked(c, i) => c = B(t) /\ (Owns(t, i) \/ ~Locked(c, i))

GetsLock(t, j) == /\ B(t) \in Node /\ j \in Buckets(B(t)) /\ Locked(B(t), j)'
                  /\ Owns(t, j) \/ ~Locked(B(t), j)

LEMMA LoneStep ==
  ASSUME VInv, NEW t \in Thread, Lone(t), LocksOf(t),
         \A j \in Nat : Owns(t, j)' => GetsLock(t, j),
         PlaceOK(t)',
         Growing(t)' => resize_lock' = 1 /\ (Growing(t) \/ resize_lock = 0),
         resize_lock' # resize_lock => resize_lock' = 1 \/ (Growing(t) /\ ~Growing(t)'),
         pc'[t] \in {"grow_lock", "copy"} => B(t) = data_block,
         pc'[t] # "publish", pc'[t] \in {"grown", "retire"} => pc[t] = "grown"
  PROVE  VInv'
<1>1. /\ status' = status /\ slot' = slot /\ pinned' = pinned /\ data_block' = data_block
      /\ \A u \in Thread \ {t} : pc'[u] = pc[u] /\ loc'[u] = loc[u] /\ call'[u] = call[u]
  BY DEF Lone, rvars
<1>2. \A u \in Thread : B(u)' = B(u)
  BY <1>1 DEF B
<1>3. VType'
  <2>1. RTypeOK'
    BY <1>1 DEF VInv, VType, RTypeOK
  <2>2. Domains'
    BY <1>1 DEF VInv, VType, Domains, Lone, Shaped
  <2>3. \A u \in Thread : LocType(u)'
    BY <1>1 DEF VInv, VType, LocType, Lone
  <2> QED
    BY <2>1, <2>2, <2>3 DEF VType, Lone, Shaped
<1>4. \A u \in Thread \ {t} : \A j \in Nat : Owns(u, j)' <=> Owns(u, j)
  BY <1>1 DEF Owns
<1>5. \A b \in Node : Buckets(b)' = Buckets(b)
  BY DEF Lone, Shaped
<1>6. Null \notin Node /\ data_block \in Node
  BY NullAssumption DEF VInv, VType, Domains
<1>7. ASSUME NEW j \in Nat, Owns(t, j)'
      PROVE  B(t) = data_block /\ j \in Buckets(B(t)) /\ Locked(B(t), j)'
  <2>1. GetsLock(t, j)
    BY <1>7
  <2>2. CASE Owns(t, j)
    BY <2>1, <2>2 DEF VInv, LocksOK, GetsLock
  <2>3. CASE ~Locked(B(t), j)
    BY <1>6, <2>1, <2>3 DEF VInv, OldLocked, GetsLock
  <2> QED
    BY <2>1, <2>2, <2>3 DEF GetsLock
<1>8. ASSUME NEW u \in Thread \ {t}, NEW j \in Nat, Owns(u, j)
      PROVE  /\ B(u) = data_block /\ j \in Buckets(B(u)) /\ Locked(B(u), j)' /\ ~Owns(t, j)'
  <2>1. B(u) = data_block /\ j \in Buckets(B(u)) /\ Locked(B(u), j) /\ ~Owns(t, j)
    BY <1>8 DEF VInv, LocksOK
  <2>2. Locked(B(u), j)'
    BY <1>2, <1>6, <2>1 DEF LocksOf
  <2>3. ~Owns(t, j)'
    BY <1>7, <2>1 DEF GetsLock
  <2> QED
    BY <2>1, <2>2, <2>3
<1>9. LocksOK'
  <2>1. ASSUME NEW u \in Thread, NEW j \in Nat, Owns(u, j)'
        PROVE  B(u)' = data_block' /\ j \in Buckets(B(u))' /\ Locked(B(u), j)'
    <3>1. B(u) = data_block /\ j \in Buckets(B(u)) /\ Locked(B(u), j)'
      BY <1>4, <1>7, <1>8, <2>1
    <3>2. Buckets(B(u))' = Buckets(B(u))
      BY <1>2, <1>5, <1>6, <3>1 DEF Buckets
    <3> QED
      BY <1>1, <1>2, <3>1, <3>2
  <2>2. ASSUME NEW u \in Thread, NEW v \in Thread, NEW j \in Nat, Owns(u, j)', Owns(v, j)'
        PROVE  u = v
    <3>1. CASE u # t /\ v # t
      BY <1>4, <2>2, <3>1 DEF VInv, LocksOK
    <3>2. CASE u = t /\ v # t
      BY <1>4, <1>8, <2>2, <3>2
    <3>3. CASE u # t /\ v = t
      BY <1>4, <1>8, <2>2, <3>3
    <3> QED
      BY <3>1, <3>2, <3>3
  <2> QED
    BY <2>1, <2>2 DEF LocksOK
<1>10. \A u \in Thread \ {t} : PlaceOK(u)'
  <2> SUFFICES ASSUME NEW u \in Thread \ {t} PROVE PlaceOK(u)'
    OBVIOUS
  <2>1. PlaceOK(u)
    BY DEF VInv
  <2>2. B(u) \in Node \union {Null}
    BY VHMAssumption DEF VInv, VType, RTypeOK, B
  <2>3. B(u) # Null => Buckets(B(u))' = Buckets(B(u)) /\ BucketCount(B(u))' = BucketCount(B(u))
    BY <1>2, <1>5, <2>2 DEF Buckets, BucketCount
  <2>4. Protected(u, "block")' <=> Protected(u, "block")
    BY <1>1 DEF Protected
  <2> QED
    BY <1>1, <1>2, <2>1, <2>3, <2>4 DEF PlaceOK, Idle
<1>11. ASSUME NEW u \in Thread, B(u) # Null, B(u) # data_block, NEW j \in Buckets(B(u))
       PROVE  Locked(B(u), j)'
  <2>1. B(u) \in Node
    BY <1>11, VHMAssumption DEF VInv, VType, RTypeOK, B
  <2>2. Locked(B(u), j)
    BY <1>11 DEF VInv, OldLocked
  <2>3. Owns(t, j) => B(t) = data_block
    BY <1>11, <2>1, BlockType DEF VInv, LocksOK
  <2> QED
    BY <1>2, <1>11, <2>1, <2>2, <2>3 DEF LocksOf
<1>12. \A u \in Thread : OldLocked(u)'
  <2> SUFFICES ASSUME NEW u \in Thread, B(u)' # Null, B(u)' # data_block', NEW j \in Buckets(B(u))'
               PROVE  Locked(B(u), j)'
    BY DEF OldLocked
  <2>1. B(u) \in Node
    BY <1>2, VHMAssumption DEF VInv, VType, RTypeOK, B
  <2>2. j \in Buckets(B(u))
    BY <1>2, <1>5, <2>1 DEF Buckets
  <2> QED
    BY <1>1, <1>2, <1>11, <2>2
<1>13. GrowOK'
  <2>1. status'[data_block'] = "live"
    BY <1>1 DEF VInv, GrowOK
  <2>2. \A u \in Thread \ {t} : Growing(u)' <=> Growing(u)
    BY <1>1 DEF Growing
  <2>3. \A u \in Thread : Growing(u)' => resize_lock' = 1
    BY <2>2 DEF VInv, GrowOK
  <2>4. \A u, v \in Thread : Growing(u)' /\ Growing(v)' => u = v
    BY <2>2 DEF VInv, GrowOK
  <2>5. \A u \in Thread : pc'[u] \in {"grow_lock", "copy", "publish"} => B(u)' = data_block'
    BY <1>1, <1>2 DEF VInv, GrowOK
  <2>6. \A u \in Thread : pc'[u] = "publish" =>
          /\ loc'[u].new \in Node /\ status'[loc'[u].new] = "live" /\ loc'[u].new # data_block'
          /\ \A v \in Thread : B(v)' # loc'[u].new
    BY <1>1, <1>2 DEF VInv, GrowOK
  <2>7. \A u \in Thread : pc'[u] \in {"grown", "retire"} => pc[u] \in {"grown", "retire"}
    BY <1>1
  <2>8. \A u \in Thread : pc'[u] \in {"grown", "retire"} => B(u)' # data_block' /\ status'[B(u)'] = "live"
    BY <1>1, <1>2, <2>7 DEF VInv, GrowOK
  <2>9. \A u, v \in Thread :
           pc'[u] \in {"grown", "retire"} /\ pc'[v] \in {"grown", "retire"} /\ B(u)' = B(v)' => u = v
    BY <1>1, <1>2, <2>7 DEF VInv, GrowOK
  <2> QED
    BY <2>1, <2>3, <2>4, <2>5, <2>6, <2>8, <2>9 DEF GrowOK
<1> QED
  BY <1>3, <1>9, <1>10, <1>12, <1>13 DEF VInv

\* Places between the beginning and the end of the work on one bucket
Plain(p) == p \notin Idle \union {"leave", "copy", "publish", "grown", "retire", "grow_lock", "grow_unlock"}

\* The whole of the thread's part in a step, apart from the blocks
Moves(t) ==
    /\ UNCHANGED <<rvars, data_block, resize_lock>>
    /\ DOMAIN pc' = Thread /\ DOMAIN loc' = Thread /\ DOMAIN call' = Thread /\ LocType(t)'
    /\ \A u \in Thread \ {t} : pc'[u] = pc[u] /\ loc'[u] = loc[u] /\ call'[u] = call[u]

\* Work on one bucket
Stays(t) == /\ Moves(t)
            /\ pc[t] \notin {"leave", "copy", "publish", "grown", "retire", "grow_lock", "grow_unlock"}
            /\ \/ pc'[t] \in Idle
               \/ Plain(pc[t]) /\ Plain(pc'[t]) /\ loc'[t].bucket = loc[t].bucket

LEMMA GuardedBlock ==
  ASSUME VInv, NEW t \in Thread
  PROVE  /\ B(t) \in Node \union {Null}
         /\ pc[t] \notin Idle => B(t) \in Node
BY VHMAssumption DEF VInv, VType, RTypeOK, B, PlaceOK

LEMMA StaysPlace ==
  ASSUME VInv, NEW t \in Thread, Stays(t), Shaped
  PROVE  PlaceOK(t)' /\ ~Growing(t)' /\ pc'[t] \notin {"grow_lock", "copy", "publish", "grown", "retire"}
<1>1. /\ status' = status /\ slot' = slot /\ pinned' = pinned /\ B(t)' = B(t)
  BY DEF Stays, Moves, rvars, B
<1>2. Protected(t, "block")' <=> Protected(t, "block")
  BY <1>1 DEF Protected
<1>3. Plain(pc'[t]) => loc'[t].bucket \in Buckets(B(t)) /\ B(t) \in Node
  BY GuardedBlock DEF VInv, PlaceOK, Stays, Plain
<1>4. B(t) \in Node => Buckets(B(t))' = Buckets(B(t))
  BY <1>1 DEF Shaped, Buckets
<1>5. pc'[t] \in Idle \/ Plain(pc'[t])
  BY DEF Stays
<1>6. PlaceOK(t)'
  BY <1>1, <1>2, <1>3, <1>4, <1>5, NullAssumption DEF PlaceOK, VInv, Plain, Idle
<1> QED
  BY <1>5, <1>6 DEF Growing, Plain, Idle

\* Steps that lock and unlock nothing
LEMMA CalmStep ==
  ASSUME VInv, NEW t \in Thread, Stays(t), SameLocks, pc'[t] \in Owning => pc[t] \in Owning
  PROVE  VInv'
<1>1. Shaped
  BY DEF SameLocks
<1>2. Lone(t) /\ resize_lock' = resize_lock
  BY <1>1 DEF Stays, Moves, Lone
<1>3. PlaceOK(t)' /\ ~Growing(t)' /\ pc'[t] \notin {"grow_lock", "copy", "publish", "grown", "retire"}
  BY <1>1, StaysPlace
<1>4. LocksOf(t)
  BY DEF LocksOf, SameLocks
<1>5. ASSUME NEW j \in Nat, Owns(t, j)' PROVE GetsLock(t, j)
  <2>1. pc'[t] \in Owning /\ j = loc'[t].bucket
    BY <1>3, <1>5 DEF Owns, Stays, Plain, Idle
  <2>2. Plain(pc[t]) /\ loc'[t].bucket = loc[t].bucket
    BY <2>1 DEF Stays, Idle, Owning
  <2>3. Owns(t, j)
    BY <2>1, <2>2 DEF Owns
  <2>4. B(t) = data_block /\ j \in Buckets(B(t)) /\ Locked(B(t), j)
    BY <2>3 DEF VInv, LocksOK
  <2>5. B(t) \in Node
    BY <2>4 DEF VInv, VType, Domains
  <2>9. B(t)' = B(t)
    BY DEF Stays, Moves, rvars, B
  <2> QED
    BY <2>3, <2>4, <2>5, <2>9 DEF GetsLock, SameLocks, Locked
<1> QED
  BY <1>2, <1>3, <1>4, <1>5, LoneStep

\* Steps that lock the bucket the thread works on
LEMMA LockStep ==
  ASSUME VInv, NEW t \in Thread, Stays(t), Shaped, pc[t] = "lock", ~Locked(B(t), loc[t].bucket),
         \A c \in Node : \A i \in Buckets(c) :
            Locked(c, i)' = IF c = B(t) /\ i = loc[t].bucket THEN TRUE ELSE Locked(c, i)
  PROVE  VInv'
<1>2. Lone(t) /\ resize_lock' = resize_lock
  BY DEF Stays, Moves, Lone
<1>3. PlaceOK(t)' /\ ~Growing(t)' /\ pc'[t] \notin {"grow_lock", "copy", "publish", "grown", "retire"}
  BY StaysPlace
<1>4. LocksOf(t)
  BY DEF LocksOf
<1>5. ASSUME NEW j \in Nat, Owns(t, j)' PROVE GetsLock(t, j)
  <2>1. pc'[t] \in Owning /\ j = loc'[t].bucket
    BY <1>3, <1>5 DEF Owns, Stays, Plain, Idle
  <2>2. loc'[t].bucket = loc[t].bucket
    BY <2>1 DEF Stays, Idle, Owning
  <2>3. B(t) \in Node /\ loc[t].bucket \in Buckets(B(t))
    BY GuardedBlock DEF VInv, PlaceOK, Idle
  <2>9. B(t)' = B(t)
    BY DEF Stays, Moves, rvars, B
  <2> QED
    BY <2>1, <2>2, <2>3, <2>9 DEF GetsLock, Locked
<1> QED
  BY <1>2, <1>3, <1>4, <1>5, LoneStep

\* Steps that may unlock it
LEMMA UnlockStep ==
  ASSUME VInv, NEW t \in Thread, Stays(t), Shaped, pc[t] \in Owning, NEW lock \in BOOLEAN,
         pc'[t] \in Owning => lock,
         \A c \in Node : \A i \in Buckets(c) :
            Locked(c, i)' = IF c = B(t) /\ i = loc[t].bucket THEN lock ELSE Locked(c, i)
  PROVE  VInv'
<1>2. Lone(t) /\ resize_lock' = resize_lock
  BY DEF Stays, Moves, Lone
<1>3. PlaceOK(t)' /\ ~Growing(t)' /\ pc'[t] \notin {"grow_lock", "copy", "publish", "grown", "retire"}
  BY StaysPlace
<1>4. LocksOf(t)
  BY DEF LocksOf, Owns
<1>5. ASSUME NEW j \in Nat, Owns(t, j)' PROVE GetsLock(t, j)
  <2>1. pc'[t] \in Owning /\ j = loc'[t].bucket
    BY <1>3, <1>5 DEF Owns, Stays, Plain, Idle
  <2>2. loc'[t].bucket = loc[t].bucket
    BY <2>1 DEF Stays, Idle, Owning
  <2>3. Owns(t, j) /\ lock
    BY <2>1, <2>2 DEF Owns
  <2>4. B(t) = data_block /\ j \in Buckets(B(t)) /\ B(t) \in Node
    BY <2>3 DEF VInv, LocksOK, VType, Domains
  <2>9. B(t)' = B(t)
    BY DEF Stays, Moves, rvars, B
  <2> QED
    BY <2>1, <2>2, <2>3, <2>4, <2>9 DEF GetsLock, Locked
<1> QED
  BY <1>2, <1>3, <1>4, <1>5, LoneStep

-----------------------------------------------------------------------------
(* The actions                                                             *)

\* What an action does to pc and loc, in the terms of Stays
LEMMA MovesBy ==
  ASSUME VInv, NEW t \in Thread, UNCHANGED <<rvars, data_block, resize_lock, call>>,
         NEW to, pc' = [pc EXCEPT ![t] = to], NEW l, loc' = [loc EXCEPT ![t] = l],
         DOMAIN l = DOMAIN NoLoc, l.bucket \in Nat, l.count \in Int, l.won \in BOOLEAN
  PROVE  Moves(t) /\ pc'[t] = to /\ loc'[t] = l
<1>1. DOMAIN pc = Thread /\ DOMAIN loc = Thread /\ DOMAIN call = Thread /\ call[t] \in MapCalls \union {NoCall}
  BY DEF VInv, VType, Domains, LocType
<1>2. pc'[t] = to /\ loc'[t] = l /\ call'[t] = call[t]
  BY <1>1
<1>3. LocType(t)'
  BY <1>1, <1>2 DEF LocType
<1> QED
  BY <1>1, <1>2, <1>3 DEF Moves

LEMMA MovesLoc ==
  ASSUME VInv, NEW t \in Thread, UNCHANGED <<rvars, data_block, resize_lock, call, loc>>,
         NEW to, pc' = [pc EXCEPT ![t] = to]
  PROVE  Moves(t) /\ pc'[t] = to /\ loc'[t] = loc[t]
<1>1. /\ DOMAIN loc = Thread /\ LocType(t)
  BY DEF VInv, VType, Domains
<1>2. DOMAIN pc = Thread /\ DOMAIN call = Thread
  BY DEF VInv, VType, Domains
<1>3. LocType(t)'
  BY <1>1 DEF LocType
<1> QED
  BY <1>1, <1>2, <1>3 DEF Moves

LEMMA MovesSet ==
  ASSUME VInv, NEW t \in Thread, UNCHANGED <<rvars, data_block, resize_lock, call>>,
         NEW to, pc' = [pc EXCEPT ![t] = to], NEW r, Set(t, r),
         "bucket" \in DOMAIN r => r["bucket"] \in Nat, "count" \in DOMAIN r => r["count"] \in Int,
         "won" \in DOMAIN r => r["won"] \in BOOLEAN
  PROVE  /\ Moves(t) /\ pc'[t] = to
         /\ loc'[t].bucket = IF "bucket" \in DOMAIN r THEN r["bucket"] ELSE loc[t].bucket
         /\ loc'[t].won = IF "won" \in DOMAIN r THEN r["won"] ELSE loc[t].won
<1>1. PICK l : l = With(loc[t], r)
  OBVIOUS
<1>2. loc' = [loc EXCEPT ![t] = l]
  BY <1>1 DEF Set, VInv, VType, Domains
<1>3. DOMAIN loc[t] = {"bucket", "count", "ver", "i", "x", "prev", "val", "won", "new", "answer"}
  BY DEF VInv, VType, LocType, NoLoc
<1>4. /\ DOMAIN l = DOMAIN loc[t]
      /\ l.bucket = IF "bucket" \in DOMAIN r THEN r["bucket"] ELSE loc[t].bucket
      /\ l.count = IF "count" \in DOMAIN r THEN r["count"] ELSE loc[t].count
      /\ l.won = IF "won" \in DOMAIN r THEN r["won"] ELSE loc[t].won
  BY <1>1, <1>3 DEF With
<1>5. LocType(t)
  BY DEF VInv, VType
<1>6. DOMAIN l = DOMAIN NoLoc /\ l.bucket \in Nat /\ l.count \in Int /\ l.won \in BOOLEAN
  BY <1>4, <1>5 DEF LocType
<1> QED
  BY <1>2, <1>4, <1>6, MovesBy

\* Steps in which the blocks do not change
LEMMA SameBlocks ==
  ASSUME VInv, block' = block
  PROVE  SameLocks
BY BlockType DEF SameLocks, Shaped, Buckets, Locked, VInv, VType, Domains

LEMMA BuckType ==
  ASSUME VInv, NEW t \in Thread, pc[t] \notin Idle \union {"copy", "publish", "grown", "retire"}
  PROVE  /\ B(t) \in Node /\ loc[t].bucket \in Buckets(B(t))
         /\ Buck(t).count \in Int /\ Buck(t).lock \in BOOLEAN /\ Buck(t).lock = Locked(B(t), loc[t].bucket)
<1>1. B(t) \in Node /\ loc[t].bucket \in Buckets(B(t))
  BY GuardedBlock DEF VInv, PlaceOK
<1>2. IsBucket(Buck(t))
  BY <1>1, BlockType DEF Buck
<1> QED
  BY <1>1, <1>2 DEF IsBucket, Locked, Buck

Steady(t, to) == pc' = [pc EXCEPT ![t] = to] /\ UNCHANGED <<rvars, data_block, resize_lock, loc, call>>

\* From one place to another: within a bucket, or away from it
Leads(p, q) == /\ p \notin {"leave", "copy", "publish", "grown", "retire", "grow_lock", "grow_unlock"}
               /\ q \in Idle \/ (Plain(p) /\ Plain(q))

LEMMA SteadyStep ==
  ASSUME VInv, NEW t \in Thread, NEW to, Steady(t, to), SameLocks, Leads(pc[t], to),
         to \in Owning => pc[t] \in Owning
  PROVE  VInv'
<1>1. Moves(t) /\ pc'[t] = to /\ loc'[t] = loc[t]
  BY MovesLoc DEF Steady
<1>2. Stays(t)
  BY <1>1 DEF Stays, Leads
<1> QED
  BY <1>1, <1>2, CalmStep

LEMMA SetStep ==
  ASSUME VInv, NEW t \in Thread, NEW to, pc' = [pc EXCEPT ![t] = to], NEW r, Set(t, r),
         UNCHANGED <<rvars, data_block, resize_lock, call>>, SameLocks, Leads(pc[t], to),
         to \in Owning => pc[t] \in Owning,
         "bucket" \notin DOMAIN r, "count" \in DOMAIN r => r["count"] \in Int, "won" \notin DOMAIN r
  PROVE  VInv'
<1>1. Moves(t) /\ pc'[t] = to /\ loc'[t].bucket = loc[t].bucket
  BY MovesSet
<1>2. Stays(t)
  BY <1>1 DEF Stays, Leads
<1> QED
  BY <1>1, <1>2, CalmStep

LEMMA StillActions ==
  ASSUME VInv, NEW t \in Thread,
         \/ LockFails(t) \/ Finish(t) \/ AllocateFails(t) \/ GrowWait(t) \/ RemoveNone(t)
         \/ Visit(t) \/ LastBucket(t) \/ GetExtCheck(t) \/ GetLast(t)
         \/ (GetCheck(t) /\ Buck(t).mark # loc[t].i)
  PROVE  VInv'
<1>1. SameLocks
  <2>1. block' = block
    BY DEF LockFails, Finish, AllocateFails, GrowWait, RemoveNone, Visit, LastBucket, GetExtCheck, GetLast,
           GetCheck, Answer
  <2> QED
    BY <2>1, SameBlocks
<1>2. CASE LockFails(t)
  <2>1. Steady(t, "block") /\ pc[t] = "lock"
    BY <1>2 DEF LockFails, Steady, Goto, NoGrow, Quiet, history
  <2> QED
    BY <1>1, <2>1, SteadyStep DEF Leads, Plain, Idle, Owning
<1>3. CASE Finish(t)
  <2>1. Steady(t, "done") /\ pc[t] = "finish"
    BY <1>3 DEF Finish, Steady, Answer
  <2> QED
    BY <1>1, <2>1, SteadyStep DEF Leads, Plain, Idle, Owning
<1>4. CASE AllocateFails(t)
  <2>1. Steady(t, "grow") /\ pc[t] = "allocate"
    BY <1>4 DEF AllocateFails, Steady, Goto, NoGrow, Quiet, history
  <2> QED
    BY <1>1, <2>1, SteadyStep DEF Leads, Plain, Idle, Owning
<1>5. CASE GrowWait(t)
  <2>1. Steady(t, "block") /\ pc[t] = "grow_wait"
    BY <1>5 DEF GrowWait, Steady, Goto, NoGrow, Quiet, history
  <2> QED
    BY <1>1, <2>1, SteadyStep DEF Leads, Plain, Idle, Owning
<1>6. CASE RemoveNone(t)
  <2>1. Steady(t, "done") /\ pc[t] = "lock"
    BY <1>6 DEF RemoveNone, Steady, Ready, Answer
  <2> QED
    BY <1>1, <2>1, SteadyStep DEF Leads, Plain, Idle, Owning
<1>7. CASE Visit(t)
  <2>1. Steady(t, "next") /\ pc[t] = "visit"
    BY <1>7 DEF Visit, Steady, Goto, NoGrow, history
  <2> QED
    BY <1>1, <2>1, SteadyStep DEF Leads, Plain, Idle, Owning
<1>8. CASE LastBucket(t)
  <2>1. Steady(t, "unlock") /\ pc[t] = "next"
    BY <1>8 DEF LastBucket, Steady, Goto, NoGrow, Quiet, history
  <2> QED
    BY <1>1, <2>1, SteadyStep DEF Leads, Plain, Idle, Owning
<1>9. CASE GetExtCheck(t) \/ GetLast(t) \/ (GetCheck(t) /\ Buck(t).mark # loc[t].i)
  <2>1. Steady(t, "done") /\ pc[t] \in {"get_ext_check", "last", "get_check"}
    BY <1>9 DEF GetExtCheck, GetLast, GetCheck, Steady, Answer
  <2> QED
    BY <1>1, <2>1, SteadyStep DEF Leads, Plain, Idle, Owning
<1> QED
  BY <1>2, <1>3, <1>4, <1>5, <1>6, <1>7, <1>8, <1>9

GetPC == {"state", "get_key", "get_val", "get_check", "head", "get_ext", "get_ext_val", "get_ext_check",
          "get_next", "next_check", "last"}

LEMMA GetMoves ==
  ASSUME VInv, NEW t \in Thread, NEW from \in GetPC, NEW to \in GetPC, NEW r, Get(t, from, to, r),
         "bucket" \notin DOMAIN r, "count" \in DOMAIN r => r["count"] \in Int, "won" \notin DOMAIN r
  PROVE  VInv'
<1>1. /\ pc[t] = from /\ pc' = [pc EXCEPT ![t] = to] /\ Set(t, r)
      /\ UNCHANGED <<rvars, data_block, resize_lock, call>> /\ block' = block
  BY DEF Get, Goto, NoGrow, Quiet, history
<1>2. Leads(pc[t], to) /\ to \notin Owning
  BY <1>1 DEF Leads, Plain, Idle, Owning, GetPC
<1> QED
  BY <1>1, <1>2, SameBlocks, SetStep

LEMMA GetActions ==
  ASSUME VInv, NEW t \in Thread, GetStep(t)
  PROVE  VInv'
<1>1. CASE GetState(t)
  <2>1. PICK to, r : /\ to = IF Buck(t).count > 0 THEN "get_key" ELSE "head"
                     /\ r = [count |-> Buck(t).count, ver |-> Buck(t).ver, i |-> 1]
    OBVIOUS
  <2>2. Get(t, "state", to, r) /\ pc[t] = "state"
    BY <1>1, <2>1 DEF GetState
  <2>3. r["count"] \in Int
    BY <2>1, <2>2, BuckType DEF Idle
  <2> QED
    BY <2>1, <2>2, <2>3, GetMoves DEF GetPC
<1>2. CASE GetKey(t)
  <2>1. CASE Buck(t).cell[loc[t].i].key = call[t].key
    <3>1. Get(t, "get_key", "get_val", [x |-> 0])
      BY <1>2, <2>1 DEF GetKey
    <3> QED
      BY <3>1, GetMoves DEF GetPC
  <2>2. CASE Buck(t).cell[loc[t].i].key # call[t].key
    <3>1. PICK to, r : to = More(t) /\ r = [i |-> loc[t].i + 1]
      OBVIOUS
    <3>2. Get(t, "get_key", to, r)
      BY <1>2, <2>2, <3>1 DEF GetKey
    <3> QED
      BY <3>1, <3>2, GetMoves DEF GetPC, More
  <2> QED
    BY <2>1, <2>2
<1>3. CASE GetVal(t)
  <2>1. PICK r : r = [val |-> Buck(t).cell[loc[t].i].val]
    OBVIOUS
  <2>2. Get(t, "get_val", "get_check", r)
    BY <1>3, <2>1 DEF GetVal
  <2> QED
    BY <2>1, <2>2, GetMoves DEF GetPC
<1>4. CASE GetAgain(t)
  <2>1. PICK from : from = pc[t]
    OBVIOUS
  <2>2. Get(t, from, "state", [val |-> Absent]) /\ from \in {"get_check", "get_ext_check", "last"}
    BY <1>4, <2>1 DEF GetAgain
  <2> QED
    BY <2>2, GetMoves DEF GetPC
<1>5. CASE GetCheck(t)
  <2>1. CASE Buck(t).mark = loc[t].i
    <3>1. PICK to, r : to = More(t) /\ r = [i |-> loc[t].i + 1, val |-> Absent]
      OBVIOUS
    <3>2. Get(t, "get_check", to, r)
      BY <1>5, <2>1, <3>1 DEF GetCheck
    <3> QED
      BY <3>1, <3>2, GetMoves DEF GetPC, More
  <2> QED
    BY <1>5, <2>1, StillActions
<1>6. CASE GetHead(t)
  <2>1. PICK to, r : to = (IF Buck(t).head = 0 THEN "last" ELSE "get_ext") /\ r = [x |-> Buck(t).head]
    OBVIOUS
  <2>2. Get(t, "head", to, r)
    BY <1>6, <2>1 DEF GetHead
  <2> QED
    BY <2>1, <2>2, GetMoves DEF GetPC
<1>7. CASE GetExt(t)
  <2>1. PICK to : to = IF Ext(t).key = call[t].key THEN "get_ext_val" ELSE "get_next"
    OBVIOUS
  <2>2. Get(t, "get_ext", to, [i |-> 0])
    BY <1>7, <2>1 DEF GetExt
  <2> QED
    BY <2>1, <2>2, GetMoves DEF GetPC
<1>8. CASE GetExtVal(t)
  <2>1. PICK r : r = [val |-> Ext(t).val]
    OBVIOUS
  <2>2. Get(t, "get_ext_val", "get_ext_check", r)
    BY <1>8, <2>1 DEF GetExtVal
  <2> QED
    BY <2>1, <2>2, GetMoves DEF GetPC
<1>9. CASE GetNext(t)
  <2>1. PICK r : r = [x |-> Ext(t).next]
    OBVIOUS
  <2>2. Get(t, "get_next", "next_check", r)
    BY <1>9, <2>1 DEF GetNext
  <2> QED
    BY <2>1, <2>2, GetMoves DEF GetPC
<1>10. CASE GetNextCheck(t)
  <2>1. PICK to : to = IF ~Same(t) THEN "state" ELSE IF loc[t].x = 0 THEN "last" ELSE "get_ext"
    OBVIOUS
  <2>2. Get(t, "next_check", to, [i |-> 0])
    BY <1>10, <2>1 DEF GetNextCheck
  <2> QED
    BY <2>1, <2>2, GetMoves DEF GetPC
<1>11. CASE GetExtCheck(t) \/ GetLast(t)
  BY <1>11, StillActions
<1> QED
  BY <1>1, <1>2, <1>3, <1>4, <1>5, <1>6, <1>7, <1>8, <1>9, <1>10, <1>11 DEF GetStep

\* Places at which a thread owns the lock of the one bucket it works on
Inner == Owning \ {"leave", "grow_unlock"}

LEMMA InnerLeads ==
  ASSUME NEW p \in Inner, NEW q \in Inner \union {"free"}
  PROVE  Leads(p, q) /\ p \in Owning /\ p \notin Idle \union {"copy", "publish", "grown", "retire"}
BY DEF Inner, Leads, Plain, Idle, Owning

LEMMA CellStep ==
  ASSUME VInv, NEW t \in Thread, NEW to \in Inner, Steady(t, to), pc[t] \in Inner, NEW r, SetCell(t, r)
  PROVE  VInv'
<1>1. PICK p : p = pc[t]
  OBVIOUS
<1>2. Leads(pc[t], to) /\ pc[t] \in Owning /\ pc[t] \notin Idle \union {"copy", "publish", "grown", "retire"}
  BY <1>1, InnerLeads
<1>3. SameLocks
  BY <1>2, BuckType, CellSet
<1> QED
  BY <1>2, <1>3, SteadyStep

LEMMA SameBucket ==
  ASSUME VInv, NEW t \in Thread, pc[t] \in Inner, NEW r, SetBucket(t, r),
         "lock" \notin DOMAIN r, "count" \notin DOMAIN r
  PROVE  SameLocks
<1>1. pc[t] \notin Idle \union {"copy", "publish", "grown", "retire"}
  BY DEF Inner, Owning, Idle
<1> QED
  BY <1>1, BuckType, BucketSet DEF SameLocks

LEMMA BucketStep ==
  ASSUME VInv, NEW t \in Thread, NEW to \in Inner, Steady(t, to), pc[t] \in Inner, NEW r, SetBucket(t, r),
         "lock" \notin DOMAIN r, "count" \notin DOMAIN r
  PROVE  VInv'
<1>1. PICK p : p = pc[t]
  OBVIOUS
<1>2. Leads(pc[t], to) /\ pc[t] \in Owning
  BY <1>1, InnerLeads
<1>3. SameLocks
  BY SameBucket
<1> QED
  BY <1>2, <1>3, SteadyStep

\* A step that changes the extension items of the block, or which of them are free
ItemsOf(b) == \E x : IsBlock(x) /\ x.bucket = block[b].bucket /\ block' = [block EXCEPT ![b] = x]

LEMMA SameItems ==
  ASSUME VInv, NEW b \in Node, ItemsOf(b)
  PROVE  SameLocks
<1>1. PICK x : IsBlock(x) /\ x.bucket = block[b].bucket /\ block' = [block EXCEPT ![b] = x]
  BY DEF ItemsOf
<1> QED
  BY <1>1, ItemsChanged

LEMMA ItemSet ==
  ASSUME VInv, NEW t \in Thread, B(t) \in Node, NEW r, SetItem(t, r)
  PROVE  SameLocks
<1>1. PICK b : b = B(t)
  OBVIOUS
<1>2. IsBlock(block[b]) /\ b \in Node
  BY <1>1, BlockType
<1> DEFINE x == [block[b] EXCEPT !.item[loc[t].x] = With(@, r)]
<1>3. IsBlock(x) /\ x.bucket = block[b].bucket
  BY <1>2 DEF IsBlock
<1>4. block' = [block EXCEPT ![b] = x]
  BY <1>1 DEF SetItem
<1>5. ItemsOf(b)
  BY <1>3, <1>4 DEF ItemsOf
<1> QED
  BY <1>2, <1>5, SameItems

LEMMA ItemStep ==
  ASSUME VInv, NEW t \in Thread, NEW to \in Inner, Steady(t, to), pc[t] \in Inner, NEW r, SetItem(t, r)
  PROVE  VInv'
<1>1. PICK p : p = pc[t]
  OBVIOUS
<1>2. Leads(pc[t], to) /\ pc[t] \in Owning /\ pc[t] \notin Idle \union {"copy", "publish", "grown", "retire"}
  BY <1>1, InnerLeads
<1>3. SameLocks
  BY <1>2, GuardedBlock, ItemSet
<1> QED
  BY <1>2, <1>3, SteadyStep

\* What a thread does first when it has locked a bucket
LEMMA LocksStep ==
  ASSUME VInv, NEW t \in Thread, NEW to \in Inner, NEW r, Locks(t, to, r),
         "bucket" \notin DOMAIN r, "count" \notin DOMAIN r, "won" \notin DOMAIN r
  PROVE  VInv'
<1>1. /\ pc[t] = "lock" /\ ~Buck(t).lock /\ pc' = [pc EXCEPT ![t] = to]
      /\ UNCHANGED <<rvars, data_block, resize_lock, call>>
      /\ block' = [block EXCEPT ![B(t)].bucket[loc[t].bucket].lock = TRUE]
      /\ loc' = [loc EXCEPT ![t] = With([@ EXCEPT !.count = Buck(t).count, !.ver = Buck(t).ver], r)]
  BY DEF Locks, Goto, NoGrow, Quiet, history
<1>2. /\ B(t) \in Node /\ loc[t].bucket \in Buckets(B(t))
      /\ Buck(t).count \in Int /\ ~Locked(B(t), loc[t].bucket)
  BY <1>1, BuckType DEF Idle
<1>3. /\ Shaped
      /\ \A c \in Node : \A i \in Buckets(c) :
            Locked(c, i)' = IF c = B(t) /\ i = loc[t].bucket THEN TRUE ELSE Locked(c, i)
  <2>1. PICK b \in Node, j \in Nat : b = B(t) /\ j = loc[t].bucket
    BY <1>2 DEF VInv, VType, LocType
  <2>2. PICK k : k = block[b].bucket[j]
    OBVIOUS
  <2>3. j \in Buckets(b) /\ IsBucket(k)
    BY <1>2, <2>1, <2>2, BlockType
  <2>4. PICK new : new = [k EXCEPT !.lock = TRUE]
    OBVIOUS
  <2>5. Overwrites(b, j, new)
    BY <1>1, <2>1, <2>2, <2>4 DEF Overwrites, VInv, VType, Domains
  <2>6. IsBucket(new) /\ new.lock = TRUE
    BY <2>3, <2>4 DEF IsBucket
  <2>7. /\ Shaped
        /\ \A c \in Node : \A i \in Buckets(c) : Locked(c, i)' = IF c = b /\ i = j THEN new.lock ELSE Locked(c, i)
    BY <2>3, <2>5, <2>6, BucketChanged
  <2> QED
    BY <2>1, <2>6, <2>7
<1>4. Moves(t) /\ pc'[t] = to /\ loc'[t].bucket = loc[t].bucket
  <2>1. PICK h : h = [loc[t] EXCEPT !.count = Buck(t).count, !.ver = Buck(t).ver]
    OBVIOUS
  <2>2. PICK l : l = With(h, r)
    OBVIOUS
  <2>3. loc' = [loc EXCEPT ![t] = l]
    BY <1>1, <2>1, <2>2 DEF VInv, VType, Domains
  <2>4. LocType(t) /\ DOMAIN NoLoc = {"bucket", "count", "ver", "i", "x", "prev", "val", "won", "new", "answer"}
    BY DEF VInv, VType, NoLoc
  <2>5. DOMAIN h = DOMAIN NoLoc /\ h.bucket = loc[t].bucket /\ h.count \in Int /\ h.won \in BOOLEAN
    BY <1>2, <2>1, <2>4 DEF LocType
  <2>6. DOMAIN l = DOMAIN NoLoc /\ l.bucket = loc[t].bucket /\ l.count \in Int /\ l.won \in BOOLEAN
    BY <2>2, <2>4, <2>5 DEF With
  <2>7. l.bucket \in Nat
    BY <2>4, <2>6 DEF LocType
  <2>8. UNCHANGED <<rvars, data_block, resize_lock, call>> /\ pc' = [pc EXCEPT ![t] = to]
    BY <1>1
  <2> QED
    BY <2>3, <2>6, <2>7, <2>8, MovesBy
<1>5. Stays(t)
  BY <1>1, <1>4 DEF Stays, Plain, Inner, Owning, Idle
<1> QED
  BY <1>1, <1>2, <1>3, <1>5, LockStep

\* Steps that unlock the bucket the thread works on
LEMMA UnlocksStep ==
  ASSUME VInv, NEW t \in Thread, pc[t] \in Inner, Moves(t), loc'[t].bucket = loc[t].bucket,
         pc'[t] \in {"end", "finish", "free"} \union Inner, NEW r, SetBucket(t, r), "lock" \in DOMAIN r,
         r["lock"] \in BOOLEAN, "count" \in DOMAIN r => r["count"] \in Int, pc'[t] \in Owning => r["lock"]
  PROVE  VInv'
<1>1. pc[t] \in Owning /\ pc[t] \notin Idle \union {"copy", "publish", "grown", "retire"}
  BY DEF Inner, Owning, Idle
<1>2. /\ Shaped
      /\ \A c \in Node : \A i \in Buckets(c) :
            Locked(c, i)' = IF c = B(t) /\ i = loc[t].bucket THEN r["lock"] ELSE Locked(c, i)
  BY <1>1, BuckType, BucketSet
<1>3. Stays(t)
  BY DEF Stays, Plain, Inner, Owning, Idle
<1> QED
  BY <1>1, <1>2, <1>3, UnlockStep

LEMMA UnlockActions ==
  ASSUME VInv, NEW t \in Thread, Unlock(t) \/ Inserted(t) \/ Erased(t)
  PROVE  VInv'
<1>1. CASE Unlock(t)
  <2>1. PICK to : to = IF Op(t) = "scan" THEN "end" ELSE "finish"
    OBVIOUS
  <2>2. PICK r : r = [lock |-> FALSE]
    OBVIOUS
  <2>3. /\ pc[t] = "unlock" /\ pc' = [pc EXCEPT ![t] = to] /\ SetBucket(t, r)
        /\ UNCHANGED <<rvars, data_block, resize_lock, call, loc>>
    BY <1>1, <2>1, <2>2 DEF Unlock, Goto, NoGrow, Quiet, history
  <2>4. Moves(t) /\ pc'[t] = to /\ loc'[t] = loc[t]
    BY <2>3, MovesLoc
  <2>5. DOMAIN r = {"lock"} /\ r["lock"] = FALSE
    BY <2>2
  <2>6. pc'[t] \in {"end", "finish", "free"} \union Inner /\ pc'[t] \notin Owning /\ pc[t] \in Inner
    BY <2>1, <2>3, <2>4 DEF Inner, Owning
  <2> QED
    BY <2>3, <2>4, <2>5, <2>6, UnlocksStep
<1>2. CASE Inserted(t)
  <2>1. PICK r : r = [lock |-> FALSE, count |-> loc[t].count + 1]
    OBVIOUS
  <2>2. /\ pc[t] = "inserted" /\ pc' = [pc EXCEPT ![t] = "finish"] /\ SetBucket(t, r)
        /\ UNCHANGED <<rvars, data_block, resize_lock, call>>
    BY <1>2, <2>1 DEF Inserted, Goto, NoGrow, Effect
  <2>3. Moves(t) /\ pc'[t] = "finish" /\ loc'[t].bucket = loc[t].bucket
    <3>1. PICK l : l = [answer |-> "success"]
      OBVIOUS
    <3>2. Set(t, l)
      BY <1>2, <3>1 DEF Inserted
    <3>3. DOMAIN l = {"answer"}
      BY <3>1
    <3> QED
      BY <2>2, <3>2, <3>3, MovesSet
  <2>4. r["lock"] = FALSE /\ r["count"] \in Int /\ DOMAIN r = {"lock", "count"}
    BY <2>1 DEF VInv, VType, LocType
  <2> QED
    BY <2>2, <2>3, <2>4, UnlocksStep DEF Inner, Owning
<1>3. CASE Erased(t)
  <2>1. PICK to : to = IF loc[t].x # 0 THEN "free" ELSE IF call[t].how = "key" THEN "finish"
                       ELSE IF loc[t].i = loc[t].count THEN "next" ELSE "unlock"
    OBVIOUS
  <2>2. PICK r : r = [lock |-> call[t].how # "key", mark |-> 0, ver |-> loc[t].ver + 1,
                      count |-> IF loc[t].x = 0 THEN loc[t].count - 1 ELSE loc[t].count]
    OBVIOUS
  <2>3. /\ pc[t] = "erased" /\ pc' = [pc EXCEPT ![t] = to] /\ SetBucket(t, r)
        /\ UNCHANGED <<rvars, data_block, resize_lock, loc>>
    BY <1>3, <2>1, <2>2 DEF Erased, Goto, NoGrow
  <2>4. call' = call
    BY <1>3 DEF Erased, Effect, Quiet, history
  <2>5. Moves(t) /\ pc'[t] = to /\ loc'[t] = loc[t]
    BY <2>3, <2>4, MovesLoc
  <2>6. DOMAIN r = {"lock", "mark", "ver", "count"} /\ r["lock"] \in BOOLEAN
    BY <2>2
  <2>7. r["count"] \in Int
    BY <2>2 DEF VInv, VType, LocType
  <2>8. to \in Owning => r["lock"] = TRUE
    BY <2>1, <2>2 DEF Owning
  <2>9. to \in {"end", "finish", "free"} \union Inner /\ pc[t] \in Inner
    BY <2>1, <2>3 DEF Inner, Owning
  <2>10. "lock" \in DOMAIN r /\ loc'[t].bucket = loc[t].bucket
    BY <2>5, <2>6
  <2> QED
    BY <2>3, <2>5, <2>6, <2>7, <2>8, <2>9, <2>10, UnlocksStep
<1> QED
  BY <1>1, <1>2, <1>3

LEMMA InsertActions ==
  ASSUME VInv, NEW t \in Thread, InsertStep(t)
  PROVE  VInv'
<1>1. CASE InsertFound(t)
  BY <1>1, LocksStep DEF InsertFound, Inner, Owning
<1>2. CASE InsertCell(t)
  <2>1. PICK r : r = [i |-> Buck(t).count + 1]
    OBVIOUS
  <2>2. Locks(t, "cell_key", r)
    BY <1>2, <2>1 DEF InsertCell
  <2> QED
    BY <2>1, <2>2, LocksStep DEF Inner, Owning
<1>3. CASE CellKey(t)
  <2>1. PICK r : r = [key |-> call[t].key]
    OBVIOUS
  <2>2. Steady(t, "cell_val") /\ pc[t] = "cell_key" /\ SetCell(t, r)
    BY <1>3, <2>1 DEF CellKey, Steady, Goto, NoGrow, Quiet, history
  <2> QED
    BY <2>2, CellStep DEF Inner, Owning
<1>4. CASE CellVal(t)
  <2>1. PICK r : r = [val |-> call[t].val]
    OBVIOUS
  <2>2. Steady(t, "inserted") /\ pc[t] = "cell_val" /\ SetCell(t, r)
    BY <1>4, <2>1 DEF CellVal, Steady, Goto, NoGrow, Quiet, history
  <2> QED
    BY <2>2, CellStep DEF Inner, Owning
<1>5. CASE InsertExtension(t)
  BY <1>5, LocksStep DEF InsertExtension, Inner, Owning
<1>6. CASE AllocateItem(t)
  <2>1. PICK b : b = B(t)
    OBVIOUS
  <2>2. PICK r : r = [x |-> block[b].free]
    OBVIOUS
  <2>3. /\ pc[t] = "allocate" /\ pc' = [pc EXCEPT ![t] = "ext_key"] /\ Set(t, r)
        /\ UNCHANGED <<rvars, data_block, resize_lock, call>>
    BY <1>6, <2>1, <2>2 DEF AllocateItem, Goto, NoGrow, Quiet, history
  <2>4. b \in Node
    BY <2>1, <2>3, GuardedBlock DEF Idle
  <2>5. IsBlock(block[b])
    BY <2>4, BlockType
  <2> DEFINE x == [block[b] EXCEPT !.free = block[b].item[block[b].free].next]
  <2>6. IsBlock(x) /\ x.bucket = block[b].bucket
    BY <2>5 DEF IsBlock
  <2>7. block' = [block EXCEPT ![b] = x]
    BY <1>6, <2>1 DEF AllocateItem
  <2>8. SameLocks
    BY <2>4, <2>6, <2>7, SameItems DEF ItemsOf
  <2>9. Leads(pc[t], "ext_key")
    BY <2>3 DEF Leads, Plain, Idle
  <2> QED
    BY <2>2, <2>3, <2>8, <2>9, SetStep DEF Owning
<1>7. CASE AllocateFails(t)
  BY <1>7, StillActions
<1>8. CASE ExtKey(t)
  <2>1. PICK r : r = [key |-> call[t].key]
    OBVIOUS
  <2>2. Steady(t, "ext_val") /\ pc[t] = "ext_key" /\ SetItem(t, r)
    BY <1>8, <2>1 DEF ExtKey, Steady, Goto, NoGrow, Quiet, history
  <2> QED
    BY <2>2, ItemStep DEF Inner, Owning
<1>9. CASE ExtVal(t)
  <2>1. PICK r : r = [val |-> call[t].val]
    OBVIOUS
  <2>2. Steady(t, "ext_next") /\ pc[t] = "ext_val" /\ SetItem(t, r)
    BY <1>9, <2>1 DEF ExtVal, Steady, Goto, NoGrow, Quiet, history
  <2> QED
    BY <2>2, ItemStep DEF Inner, Owning
<1>10. CASE ExtNext(t)
  <2>1. PICK r : r = [next |-> Buck(t).head]
    OBVIOUS
  <2>2. Steady(t, "ext_head") /\ pc[t] = "ext_next" /\ SetItem(t, r)
    BY <1>10, <2>1 DEF ExtNext, Steady, Goto, NoGrow, Quiet, history
  <2> QED
    BY <2>2, ItemStep DEF Inner, Owning
<1>11. CASE ExtHead(t)
  <2>1. PICK r : r = [head |-> loc[t].x]
    OBVIOUS
  <2>2. Steady(t, "unlock") /\ pc[t] = "ext_head" /\ SetBucket(t, r)
    BY <1>11, <2>1 DEF ExtHead, Steady, Goto, NoGrow, Effect
  <2> QED
    BY <2>1, <2>2, BucketStep DEF Inner, Owning
<1>12. CASE Inserted(t)
  BY <1>12, UnlockActions
<1> QED
  BY <1>1, <1>2, <1>3, <1>4, <1>5, <1>6, <1>7, <1>8, <1>9, <1>10, <1>11, <1>12 DEF InsertStep

LEMMA UnlinkAction ==
  ASSUME VInv, NEW t \in Thread, Unlink(t)
  PROVE  VInv'
<1>1. Steady(t, "erased") /\ pc[t] = "unlink"
  BY DEF Unlink, Steady, Goto, NoGrow, Effect
<1>2. CASE loc[t].prev = 0
  <2>1. PICK r : r = [head |-> Ext(t).next]
    OBVIOUS
  <2>2. SetBucket(t, r)
    BY <1>2, <2>1 DEF Unlink
  <2> QED
    BY <1>1, <2>1, <2>2, BucketStep DEF Inner, Owning
<1>3. CASE loc[t].prev # 0
  <2>1. PICK b : b = B(t)
    OBVIOUS
  <2>2. b \in Node
    BY <1>1, <2>1, GuardedBlock DEF Idle
  <2>3. IsBlock(block[b])
    BY <2>2, BlockType
  <2> DEFINE x == [block[b] EXCEPT !.item[loc[t].prev].next = Ext(t).next]
  <2>4. IsBlock(x) /\ x.bucket = block[b].bucket
    BY <2>3 DEF IsBlock
  <2>5. block' = [block EXCEPT ![b] = x]
    BY <1>3, <2>1 DEF Unlink
  <2>6. SameLocks
    BY <2>2, <2>4, <2>5, SameItems DEF ItemsOf
  <2>7. Leads(pc[t], "erased") /\ pc[t] \in Owning
    BY <1>1 DEF Leads, Plain, Idle, Owning
  <2> QED
    BY <1>1, <2>6, <2>7, SteadyStep
<1> QED
  BY <1>2, <1>3

LEMMA FreeAction ==
  ASSUME VInv, NEW t \in Thread, FreeItem(t)
  PROVE  VInv'
<1>1. Steady(t, "finish") /\ pc[t] = "free"
  BY DEF FreeItem, Steady, Goto, NoGrow, Quiet, history
<1>2. PICK b : b = B(t)
  OBVIOUS
<1>3. b \in Node
  BY <1>1, <1>2, GuardedBlock DEF Idle
<1>4. IsBlock(block[b])
  BY <1>3, BlockType
<1> DEFINE x == [block[b] EXCEPT !.item[loc[t].x].next = block[b].free, !.free = loc[t].x]
<1>5. IsBlock(x) /\ x.bucket = block[b].bucket
  BY <1>4 DEF IsBlock
<1>6. block' = [block EXCEPT ![b] = x]
  BY <1>2 DEF FreeItem
<1>7. SameLocks
  BY <1>3, <1>5, <1>6, SameItems DEF ItemsOf
<1>8. Leads(pc[t], "finish") /\ "finish" \notin Owning
  BY <1>1 DEF Leads, Plain, Idle, Owning
<1> QED
  BY <1>1, <1>7, <1>8, SteadyStep

LEMMA RemoveActions ==
  ASSUME VInv, NEW t \in Thread, RemoveStep(t)
  PROVE  VInv'
<1>1. CASE RemoveNone(t)
  BY <1>1, StillActions
<1>2. CASE RemoveNotFound(t)
  BY <1>2, LocksStep DEF RemoveNotFound, Inner, Owning
<1>3. CASE RemoveCell(t)
  <2>1. PICK i : Locks(t, IF Buck(t).head = 0 /\ i = Buck(t).count THEN "erased" ELSE "mark",
                       [i |-> i, answer |-> "success"])
    BY <1>3 DEF RemoveCell
  <2>2. PICK to : to = IF Buck(t).head = 0 /\ i = Buck(t).count THEN "erased" ELSE "mark"
    OBVIOUS
  <2>3. Locks(t, to, [i |-> i, answer |-> "success"])
    BY <2>1, <2>2
  <2> QED
    BY <2>2, <2>3, LocksStep DEF Inner, Owning
<1>4. CASE RemoveItem(t)
  <2>1. PICK x, p : Locks(t, "unlink", [x |-> x, prev |-> p, answer |-> "success"])
    BY <1>4 DEF RemoveItem
  <2> QED
    BY <2>1, LocksStep DEF Inner, Owning
<1>5. CASE Mark(t)
  <2>1. PICK r : r = [mark |-> loc[t].i]
    OBVIOUS
  <2>2. Steady(t, "move_key") /\ pc[t] = "mark" /\ SetBucket(t, r)
    BY <1>5, <2>1 DEF Mark, Steady, Goto, NoGrow, Effect
  <2> QED
    BY <2>1, <2>2, BucketStep DEF Inner, Owning
<1>6. CASE MoveKey(t)
  <2>1. PICK r : r = [key |-> Moved(t).key]
    OBVIOUS
  <2>2. Steady(t, "move_val") /\ pc[t] = "move_key" /\ SetCell(t, r)
    BY <1>6, <2>1 DEF MoveKey, Steady, Goto, NoGrow, Quiet, history
  <2> QED
    BY <2>2, CellStep DEF Inner, Owning
<1>7. CASE MoveVal(t)
  <2>1. PICK r : r = [val |-> Moved(t).val]
    OBVIOUS
  <2>2. PICK to : to = IF Buck(t).head # 0 THEN "unmark" ELSE "erased"
    OBVIOUS
  <2>3. Steady(t, to) /\ pc[t] = "move_val" /\ SetCell(t, r)
    BY <1>7, <2>1, <2>2 DEF MoveVal, Steady, Goto, NoGrow, Quiet, history
  <2> QED
    BY <2>2, <2>3, CellStep DEF Inner, Owning
<1>8. CASE Unmark(t)
  <2>1. PICK r : r = [mark |-> 0, ver |-> loc[t].ver + 1]
    OBVIOUS
  <2>2. PICK l : l = [ver |-> loc[t].ver + 1, x |-> Buck(t).head]
    OBVIOUS
  <2>3. /\ pc[t] = "unmark" /\ pc' = [pc EXCEPT ![t] = "drop"] /\ SetBucket(t, r) /\ Set(t, l)
        /\ UNCHANGED <<rvars, data_block, resize_lock, call>>
    BY <1>8, <2>1, <2>2 DEF Unmark, Goto, NoGrow, Quiet, history
  <2>4. SameLocks
    BY <2>1, <2>3, SameBucket DEF Inner, Owning
  <2>5. Leads(pc[t], "drop") /\ pc[t] \in Owning
    BY <2>3 DEF Leads, Plain, Idle, Owning
  <2> QED
    BY <2>2, <2>3, <2>4, <2>5, SetStep
<1>9. CASE DropItem(t)
  <2>1. PICK r : r = [head |-> Ext(t).next]
    OBVIOUS
  <2>2. Steady(t, "erased") /\ pc[t] = "drop" /\ SetBucket(t, r)
    BY <1>9, <2>1 DEF DropItem, Steady, Goto, NoGrow, Quiet, history
  <2> QED
    BY <2>1, <2>2, BucketStep DEF Inner, Owning
<1>10. CASE Unlink(t) \/ FreeItem(t)
  BY <1>10, UnlinkAction, FreeAction
<1>11. CASE Erased(t)
  BY <1>11, UnlockActions
<1> QED
  BY <1>1, <1>2, <1>3, <1>4, <1>5, <1>6, <1>7, <1>8, <1>9, <1>10, <1>11 DEF RemoveStep

\* An iterator locks its next bucket before it unlocks the one it leaves.
LEMMA NextBucketAction ==
  ASSUME VInv, NEW t \in Thread, NextBucket(t)
  PROVE  VInv'
<1>1. /\ pc[t] = "next" /\ pc' = [pc EXCEPT ![t] = "leave"] /\ loc[t].bucket + 1 < BucketCount(B(t))
      /\ ~Locked(B(t), loc[t].bucket + 1)
      /\ block' = [block EXCEPT ![B(t)].bucket[loc[t].bucket + 1].lock = TRUE]
      /\ UNCHANGED <<rvars, data_block, resize_lock, call, loc>>
  BY DEF NextBucket, Goto, NoGrow, Quiet, history, Locked
<1>2. Moves(t) /\ pc'[t] = "leave" /\ loc'[t] = loc[t]
  BY <1>1, MovesLoc
<1>3. B(t) \in Node /\ loc[t].bucket \in Buckets(B(t))
  BY <1>1, BuckType DEF Idle
<1>4. PICK b \in Node, j \in Nat : b = B(t) /\ j = loc[t].bucket + 1
  BY <1>3 DEF VInv, VType, LocType
<1>5. j \in Buckets(b)
  BY <1>1, <1>3, <1>4, BlockType
<1>6. PICK k : k = block[b].bucket[j]
  OBVIOUS
<1>7. IsBucket(k)
  BY <1>5, <1>6, BlockType
<1>8. PICK new : new = [k EXCEPT !.lock = TRUE]
  OBVIOUS
<1>9. Overwrites(b, j, new)
  BY <1>1, <1>4, <1>6, <1>8 DEF Overwrites, VInv, VType, Domains
<1>10. IsBucket(new) /\ new.lock = TRUE
  BY <1>7, <1>8 DEF IsBucket
<1>11. /\ Shaped
       /\ \A c \in Node : \A i \in Buckets(c) : Locked(c, i)' = IF c = b /\ i = j THEN TRUE ELSE Locked(c, i)
  <2>1. /\ Shaped
        /\ \A c \in Node : \A i \in Buckets(c) : Locked(c, i)' = IF c = b /\ i = j THEN new.lock ELSE Locked(c, i)
    BY <1>5, <1>9, <1>10, BucketChanged
  <2> QED
    BY <1>10, <2>1
<1>12. Lone(t) /\ resize_lock' = resize_lock /\ B(t)' = B(t) /\ Buckets(b)' = Buckets(b)
  BY <1>2, <1>11, <1>4 DEF Moves, Lone, rvars, B, Shaped
<1>13. LocksOf(t)
  BY <1>1, <1>4, <1>11 DEF LocksOf
<1>14. ASSUME NEW i \in Nat, Owns(t, i)' PROVE GetsLock(t, i)
  <2>1. CASE i = loc[t].bucket
    <3>1. Owns(t, i)
      BY <1>1, <2>1 DEF Owns, Owning
    <3>2. Locked(B(t), i)
      BY <3>1 DEF VInv, LocksOK
    <3> QED
      BY <1>3, <1>4, <1>11, <1>12, <2>1, <3>1, <3>2 DEF GetsLock, Locked
  <2>2. CASE i = loc[t].bucket + 1
    BY <1>1, <1>4, <1>5, <1>11, <1>12, <2>2 DEF GetsLock, Locked
  <2> QED
    BY <1>2, <1>14, <2>1, <2>2 DEF Owns
<1>15. PlaceOK(t)'
  <2>1. Protected(t, "block")' <=> Protected(t, "block")
    BY <1>1 DEF Protected, rvars
  <2> QED
    BY <1>1, <1>2, <1>3, <1>4, <1>5, <1>12, <2>1, NullAssumption DEF PlaceOK, VInv, Idle, Buckets
<1>16. ~Growing(t)' /\ pc'[t] \notin {"grow_lock", "copy", "publish", "grown", "retire"}
  BY <1>2 DEF Growing
<1> QED
  BY <1>12, <1>13, <1>14, <1>15, <1>16, LoneStep

LEMMA CallAction ==
  ASSUME VInv, NEW t \in Thread, (\E c \in MapCalls : Call(t, c)) \/ ScanBegin(t)
  PROVE  VInv'
<1>1. /\ pc[t] = "idle" /\ pc' = [pc EXCEPT ![t] = "block"] /\ block' = block
      /\ UNCHANGED <<rvars, data_block, resize_lock, loc>>
  BY DEF Call, ScanBegin, Goto, NoGrow
<1>2. DOMAIN pc = Thread /\ DOMAIN loc = Thread /\ DOMAIN call = Thread /\ LocType(t)
  BY DEF VInv, VType, Domains
<1>3. /\ DOMAIN call' = Thread /\ call'[t] \in MapCalls \union {NoCall}
      /\ \A u \in Thread \ {t} : call'[u] = call[u]
  <2>1. CASE \E c \in MapCalls : Call(t, c)
    BY <1>2, <2>1 DEF Call
  <2>2. CASE ScanBegin(t)
    BY <1>2, <2>2 DEF ScanBegin, history, LocType
  <2> QED
    BY <2>1, <2>2
<1>4. LocType(t)' /\ DOMAIN call' = Thread /\ \A u \in Thread \ {t} : call'[u] = call[u]
  BY <1>1, <1>2, <1>3 DEF LocType
<1>5. Moves(t) /\ pc'[t] = "block"
  BY <1>1, <1>2, <1>4 DEF Moves
<1>6. Stays(t) /\ pc'[t] \notin Owning
  BY <1>1, <1>5 DEF Stays, Idle, Owning
<1> QED
  BY <1>1, <1>6, SameBlocks, CalmStep

\* A step that changes the bucket of a thread, or the flag it has found
LEMMA SetLone ==
  ASSUME VInv, NEW t \in Thread, UNCHANGED <<rvars, data_block, call>>, Shaped,
         NEW to, pc' = [pc EXCEPT ![t] = to], NEW r, Set(t, r),
         "bucket" \in DOMAIN r => r["bucket"] \in Nat, "count" \notin DOMAIN r,
         "won" \in DOMAIN r => r["won"] \in BOOLEAN
  PROVE  /\ Lone(t) /\ pc'[t] = to /\ B(t)' = B(t)
         /\ loc'[t].bucket = IF "bucket" \in DOMAIN r THEN r["bucket"] ELSE loc[t].bucket
         /\ loc'[t].won = IF "won" \in DOMAIN r THEN r["won"] ELSE loc[t].won
<1>1. PICK l : l = With(loc[t], r)
  OBVIOUS
<1>2. loc' = [loc EXCEPT ![t] = l]
  BY <1>1 DEF Set, VInv, VType, Domains
<1>3. DOMAIN NoLoc = {"bucket", "count", "ver", "i", "x", "prev", "val", "won", "new", "answer"}
  BY DEF NoLoc
<1>4. LocType(t) /\ DOMAIN pc = Thread /\ DOMAIN loc = Thread /\ DOMAIN call = Thread
  BY DEF VInv, VType, Domains
<1>5. /\ DOMAIN l = DOMAIN NoLoc
      /\ l.bucket = IF "bucket" \in DOMAIN r THEN r["bucket"] ELSE loc[t].bucket
      /\ l.count = loc[t].count
      /\ l.won = IF "won" \in DOMAIN r THEN r["won"] ELSE loc[t].won
  BY <1>1, <1>3, <1>4 DEF With, LocType
<1>6. loc'[t] = l /\ pc'[t] = to /\ call'[t] = call[t] /\ B(t)' = B(t)
  BY <1>2, <1>4 DEF rvars, B
<1>7. LocType(t)'
  BY <1>4, <1>5, <1>6 DEF LocType
<1>8. Lone(t)
  BY <1>2, <1>4, <1>7 DEF Lone
<1> QED
  BY <1>5, <1>6, <1>8

LEMMA LeaveBucketAction ==
  ASSUME VInv, NEW t \in Thread, LeaveBucket(t)
  PROVE  VInv'
<1>1. PICK to : to = IF Op(t) = "scan" THEN "visit"
                     ELSE IF block[B(t)].bucket[loc[t].bucket + 1].count = 0 THEN "next" ELSE "unlock"
  OBVIOUS
<1>2. PICK b \in Node, j \in Nat : b = B(t) /\ j = loc[t].bucket
  <2>1. pc[t] = "leave"
    BY DEF LeaveBucket, Goto
  <2> QED
    BY <2>1, BuckType DEF Idle, VInv, VType, LocType
<1>3. PICK r, l : r = [lock |-> FALSE] /\ l = [bucket |-> j + 1]
  OBVIOUS
<1>4. /\ pc[t] = "leave" /\ pc' = [pc EXCEPT ![t] = to] /\ SetBucket(t, r) /\ Set(t, l)
      /\ UNCHANGED <<rvars, data_block, resize_lock, call>>
  BY <1>1, <1>2, <1>3 DEF LeaveBucket, Goto, NoGrow, Quiet, history
<1>5. B(t) \in Node /\ loc[t].bucket \in Buckets(B(t))
  BY <1>4, BuckType DEF Idle
<1>6. /\ Shaped
      /\ \A c \in Node : \A i \in Buckets(c) : Locked(c, i)' = IF c = b /\ i = j THEN FALSE ELSE Locked(c, i)
  <2>1. DOMAIN r = {"lock"} /\ r["lock"] = FALSE
    BY <1>3
  <2>2. /\ Shaped
        /\ \A c \in Node : \A i \in Buckets(c) :
              Locked(c, i)' = IF c = B(t) /\ i = loc[t].bucket /\ "lock" \in DOMAIN r THEN r["lock"]
                              ELSE Locked(c, i)
    BY <1>4, <1>5, <2>1, BucketSet
  <2> QED
    BY <1>2, <2>1, <2>2
<1>7. Lone(t) /\ pc'[t] = to /\ B(t)' = B(t) /\ loc'[t].bucket = j + 1
  <2>1. DOMAIN l = {"bucket"} /\ l["bucket"] = j + 1 /\ j + 1 \in Nat
    BY <1>3
  <2>2. UNCHANGED <<rvars, data_block, call>> /\ pc' = [pc EXCEPT ![t] = to] /\ Set(t, l)
    BY <1>4
  <2> QED
    BY <1>6, <2>1, <2>2, SetLone
<1>8. LocksOf(t)
  BY <1>2, <1>4, <1>6 DEF LocksOf, Owns, Owning
<1>9. j + 1 \in Buckets(B(t)) /\ Buckets(b)' = Buckets(b)
  BY <1>2, <1>4, <1>6 DEF VInv, PlaceOK, Shaped
<1>10. ASSUME NEW i \in Nat, Owns(t, i)' PROVE GetsLock(t, i)
  <2>1. i = j + 1
    BY <1>1, <1>7, <1>10 DEF Owns
  <2>2. Owns(t, i)
    BY <1>2, <1>4, <2>1 DEF Owns
  <2>3. Locked(B(t), i)
    BY <2>2 DEF VInv, LocksOK
  <2>4. Locked(b, i)'
    <3>1. i # j /\ i \in Buckets(b) /\ Locked(b, i)
      BY <1>2, <1>9, <2>1, <2>3
    <3> QED
      BY <1>6, <3>1
  <2>5. Locked(B(t), i)'
    BY <1>2, <1>7, <2>4 DEF Locked
  <2> QED
    BY <1>5, <1>9, <2>1, <2>2, <2>5 DEF GetsLock
<1>11. PlaceOK(t)'
  <2>1. Protected(t, "block")' <=> Protected(t, "block")
    BY <1>4 DEF Protected, rvars
  <2> QED
    BY <1>1, <1>2, <1>4, <1>7, <1>9, <2>1, NullAssumption DEF PlaceOK, VInv, Idle, Buckets
<1>12. ~Growing(t)' /\ pc'[t] \notin {"grow_lock", "copy", "publish", "grown", "retire"}
  BY <1>1, <1>7 DEF Growing
<1> QED
  BY <1>4, <1>7, <1>8, <1>10, <1>11, <1>12, LoneStep

LEMMA IteratorActions ==
  ASSUME VInv, NEW t \in Thread, IteratorStep(t)
  PROVE  VInv'
<1>1. CASE ScanLock(t)
  BY <1>1, LocksStep DEF ScanLock, Inner, Owning
<1>2. CASE Visit(t) \/ LastBucket(t)
  BY <1>2, StillActions
<1> QED
  BY <1>1, <1>2, NextBucketAction, LeaveBucketAction DEF IteratorStep

LEMMA GrowTryAction ==
  ASSUME VInv, NEW t \in Thread, GrowTry(t)
  PROVE  VInv'
<1>1. PICK r : r = [won |-> resize_lock = 0]
  OBVIOUS
<1>2. /\ pc[t] = "grow" /\ pc' = [pc EXCEPT ![t] = "grow_unlock"] /\ Set(t, r) /\ resize_lock' = 1
      /\ block' = block /\ UNCHANGED <<rvars, data_block, call>>
  BY <1>1 DEF GrowTry, Goto, Quiet, history
<1>3. SameLocks
  BY <1>2, SameBlocks
<1>4. /\ Lone(t) /\ pc'[t] = "grow_unlock" /\ B(t)' = B(t)
      /\ loc'[t].bucket = loc[t].bucket /\ loc'[t].won = (resize_lock = 0)
  <2>1. DOMAIN r = {"won"} /\ r["won"] = (resize_lock = 0)
    BY <1>1
  <2>2. r["won"] \in BOOLEAN
    BY <2>1
  <2>3. UNCHANGED <<rvars, data_block, call>> /\ pc' = [pc EXCEPT ![t] = "grow_unlock"] /\ Set(t, r) /\ Shaped
    BY <1>2, <1>3 DEF SameLocks
  <2>4. /\ Lone(t) /\ pc'[t] = "grow_unlock" /\ B(t)' = B(t)
        /\ loc'[t].bucket = (IF "bucket" \in DOMAIN r THEN r["bucket"] ELSE loc[t].bucket)
        /\ loc'[t].won = IF "won" \in DOMAIN r THEN r["won"] ELSE loc[t].won
    BY <2>1, <2>2, <2>3, SetLone
  <2> QED
    BY <2>1, <2>4
<1>5. B(t) \in Node /\ loc[t].bucket \in Buckets(B(t))
  BY <1>2, BuckType DEF Idle
<1>6. Buckets(B(t))' = Buckets(B(t))
  BY <1>2, <1>4 DEF Buckets
<1>7. LocksOf(t)
  BY <1>3 DEF LocksOf, SameLocks
<1>8. ASSUME NEW j \in Nat, Owns(t, j)' PROVE GetsLock(t, j)
  <2>1. j = loc[t].bucket /\ Owns(t, j)
    BY <1>2, <1>4, <1>8 DEF Owns, Owning
  <2>2. Locked(B(t), j)
    BY <2>1 DEF VInv, LocksOK
  <2>3. Locked(B(t), j)'
    BY <1>2, <1>4, <2>2 DEF Locked
  <2> QED
    BY <1>5, <2>1, <2>3 DEF GetsLock
<1>9. PlaceOK(t)'
  <2>1. Protected(t, "block")' <=> Protected(t, "block")
    BY <1>2 DEF Protected, rvars
  <2> QED
    BY <1>2, <1>4, <1>5, <1>6, <2>1, NullAssumption DEF PlaceOK, VInv, Idle
<1>10. Growing(t)' => resize_lock = 0
  BY <1>4 DEF Growing
<1>11. pc'[t] \notin {"grow_lock", "copy", "publish", "grown", "retire"}
  BY <1>4
<1> QED
  BY <1>2, <1>4, <1>7, <1>8, <1>9, <1>10, <1>11, LoneStep

LEMMA GrowUnlockAction ==
  ASSUME VInv, NEW t \in Thread, GrowUnlock(t)
  PROVE  VInv'
<1>1. PICK to : to = IF loc[t].won THEN "grow_lock" ELSE "grow_wait"
  OBVIOUS
<1>2. PICK r, l : r = [lock |-> FALSE] /\ l = [bucket |-> 0]
  OBVIOUS
<1>3. /\ pc[t] = "grow_unlock" /\ pc' = [pc EXCEPT ![t] = to] /\ SetBucket(t, r) /\ Set(t, l)
      /\ UNCHANGED <<rvars, data_block, resize_lock, call>>
  BY <1>1, <1>2 DEF GrowUnlock, Goto, NoGrow, Quiet, history
<1>4. B(t) \in Node /\ loc[t].bucket \in Buckets(B(t)) /\ loc[t].bucket \in Nat
  BY <1>3, BuckType DEF Idle, VInv, VType, LocType
<1>5. /\ Shaped
      /\ \A c \in Node : \A i \in Buckets(c) :
            Locked(c, i)' = IF c = B(t) /\ i = loc[t].bucket THEN FALSE ELSE Locked(c, i)
  <2>1. DOMAIN r = {"lock"} /\ r["lock"] = FALSE
    BY <1>2
  <2>2. /\ Shaped
        /\ \A c \in Node : \A i \in Buckets(c) :
              Locked(c, i)' = IF c = B(t) /\ i = loc[t].bucket /\ "lock" \in DOMAIN r THEN r["lock"]
                              ELSE Locked(c, i)
    BY <1>3, <1>4, <2>1, BucketSet
  <2> QED
    BY <2>1, <2>2
<1>6. Lone(t) /\ pc'[t] = to /\ B(t)' = B(t) /\ loc'[t].bucket = 0
  <2>1. DOMAIN l = {"bucket"} /\ l["bucket"] = 0 /\ 0 \in Nat
    BY <1>2
  <2>2. UNCHANGED <<rvars, data_block, call>> /\ pc' = [pc EXCEPT ![t] = to] /\ Set(t, l)
    BY <1>3
  <2> QED
    BY <1>5, <2>1, <2>2, SetLone
<1>7. LocksOf(t)
  BY <1>3, <1>5 DEF LocksOf, Owns, Owning
<1>8. B(t) = data_block
  BY <1>3, <1>4 DEF VInv, LocksOK, Owns, Owning
<1>9. Buckets(B(t))' = Buckets(B(t)) /\ 0 \in Buckets(B(t))
  <2>1. PICK b \in Node : b = B(t)
    BY <1>4
  <2>2. Buckets(b)' = Buckets(b)
    BY <1>5 DEF Shaped
  <2>3. 0 \in Buckets(b)
    BY BlockType
  <2> QED
    BY <1>6, <2>1, <2>2, <2>3 DEF Buckets
<1>10. \A j \in Nat : ~Owns(t, j)'
  BY <1>1, <1>6 DEF Owns, Owning
<1>11. PlaceOK(t)'
  <2>1. Protected(t, "block")' <=> Protected(t, "block")
    BY <1>3 DEF Protected, rvars
  <2> QED
    BY <1>1, <1>3, <1>4, <1>6, <1>9, <2>1, NullAssumption DEF PlaceOK, VInv, Idle
<1>12. Growing(t)' => Growing(t) /\ resize_lock' = 1
  BY <1>1, <1>3, <1>6 DEF Growing, VInv, GrowOK
<1>13. pc'[t] \notin {"publish", "grown", "retire"}
  BY <1>1, <1>6
<1> QED
  BY <1>3, <1>6, <1>7, <1>8, <1>10, <1>11, <1>12, <1>13, LoneStep

LEMMA GrowLockAction ==
  ASSUME VInv, NEW t \in Thread, GrowLock(t)
  PROVE  VInv'
<1>1. PICK to : to = IF loc[t].bucket + 1 = BucketCount(data_block) THEN "copy" ELSE "grow_lock"
  OBVIOUS
<1>2. PICK j \in Nat : j = loc[t].bucket
  BY DEF VInv, VType, LocType
<1>3. PICK r, l : r = [lock |-> TRUE] /\ l = [bucket |-> j + 1]
  OBVIOUS
<1>4. /\ pc[t] = "grow_lock" /\ pc' = [pc EXCEPT ![t] = to] /\ SetBucket(t, r) /\ Set(t, l)
      /\ ~Buck(t).lock /\ UNCHANGED <<rvars, data_block, resize_lock, call>>
  BY <1>1, <1>2, <1>3 DEF GrowLock, Goto, NoGrow, Quiet, history
<1>5. B(t) \in Node /\ j \in Buckets(B(t)) /\ ~Locked(B(t), j)
  BY <1>2, <1>4, BuckType DEF Idle
<1>6. /\ Shaped
      /\ \A c \in Node : \A i \in Buckets(c) : Locked(c, i)' = IF c = B(t) /\ i = j THEN TRUE ELSE Locked(c, i)
  <2>1. DOMAIN r = {"lock"} /\ r["lock"] = TRUE
    BY <1>3
  <2>2. /\ Shaped
        /\ \A c \in Node : \A i \in Buckets(c) :
              Locked(c, i)' = IF c = B(t) /\ i = loc[t].bucket /\ "lock" \in DOMAIN r THEN r["lock"]
                              ELSE Locked(c, i)
    BY <1>2, <1>4, <1>5, <2>1, BucketSet
  <2> QED
    BY <1>2, <2>1, <2>2
<1>7. Lone(t) /\ pc'[t] = to /\ B(t)' = B(t) /\ loc'[t].bucket = j + 1
  <2>1. DOMAIN l = {"bucket"} /\ l["bucket"] = j + 1 /\ j + 1 \in Nat
    BY <1>3
  <2>2. UNCHANGED <<rvars, data_block, call>> /\ pc' = [pc EXCEPT ![t] = to] /\ Set(t, l)
    BY <1>4
  <2> QED
    BY <1>6, <2>1, <2>2, SetLone
<1>8. LocksOf(t)
  BY <1>5, <1>6 DEF LocksOf
<1>9. B(t) = data_block
  BY <1>4 DEF VInv, GrowOK
<1>10. PICK b \in Node : b = B(t)
  BY <1>5
<1>11. /\ Buckets(b)' = Buckets(b) /\ BucketCount(b)' = BucketCount(b)
       /\ Buckets(b) = 0..(BucketCount(b) - 1) /\ BucketCount(b) \in Nat
  BY <1>6, BlockType DEF Shaped, Buckets, BucketCount
<1>12. ASSUME NEW i \in Nat, Owns(t, i)' PROVE GetsLock(t, i)
  <2>1. i \in 0..j
    BY <1>1, <1>2, <1>7, <1>12 DEF Owns, Owning
  <2>2. CASE i = j
    <3>1. Locked(b, i)'
      BY <1>5, <1>6, <1>10, <2>2 DEF Locked
    <3>2. Locked(B(t), i)'
      BY <1>7, <1>10, <3>1 DEF Locked
    <3> QED
      BY <1>5, <2>2, <3>2 DEF GetsLock
  <2>3. CASE i # j
    <3>1. Owns(t, i)
      BY <1>2, <1>4, <2>1, <2>3 DEF Owns
    <3>2. i \in Buckets(B(t)) /\ Locked(B(t), i)
      BY <3>1 DEF VInv, LocksOK
    <3>3. Locked(b, i)'
      BY <1>6, <1>10, <2>3, <3>2 DEF Locked
    <3>4. Locked(B(t), i)'
      BY <1>7, <1>10, <3>3 DEF Locked
    <3> QED
      BY <1>5, <3>1, <3>2, <3>4 DEF GetsLock
  <2> QED
    BY <2>2, <2>3
<1>13. PlaceOK(t)'
  <2>1. Protected(t, "block")' <=> Protected(t, "block")
    BY <1>4 DEF Protected, rvars
  <2>2. to \in {"copy", "grow_lock"} /\ (to = "copy" <=> j + 1 = BucketCount(b))
    BY <1>1, <1>2, <1>9, <1>10
  <2>3. Buckets(B(t))' = Buckets(b) /\ BucketCount(B(t))' = BucketCount(b)
    BY <1>7, <1>10, <1>11 DEF Buckets, BucketCount
  <2>4. to = "grow_lock" => j + 1 \in Buckets(b)
    BY <1>5, <1>10, <1>11, <2>2
  <2> QED
    BY <1>4, <1>5, <1>7, <2>1, <2>2, <2>3, <2>4, NullAssumption DEF PlaceOK, VInv, Idle
<1>14. Growing(t) /\ resize_lock' = 1 /\ pc'[t] \notin {"publish", "grown", "retire"}
  BY <1>1, <1>4, <1>7 DEF Growing, VInv, GrowOK
<1>15. resize_lock' = resize_lock
  BY <1>4
<1> QED
  BY <1>7, <1>8, <1>9, <1>12, <1>13, <1>14, <1>15, LoneStep

LEMMA GrownAction ==
  ASSUME VInv, NEW t \in Thread, Grown(t)
  PROVE  VInv'
<1>1. /\ pc[t] = "grown" /\ pc' = [pc EXCEPT ![t] = "retire"] /\ resize_lock' = 0 /\ block' = block
      /\ UNCHANGED <<rvars, data_block, call, loc>>
  BY DEF Grown, Goto, Quiet, history
<1>2. DOMAIN pc = Thread /\ DOMAIN loc = Thread /\ DOMAIN call = Thread /\ LocType(t)
  BY DEF VInv, VType, Domains
<1>3. SameLocks
  BY <1>1, SameBlocks
<1>4. Lone(t) /\ pc'[t] = "retire" /\ B(t)' = B(t)
  <2>1. LocType(t)'
    BY <1>1, <1>2 DEF LocType
  <2> QED
    BY <1>1, <1>2, <1>3, <2>1 DEF Lone, SameLocks, rvars, B
<1>5. LocksOf(t) /\ \A j \in Nat : ~Owns(t, j)'
  BY <1>3, <1>4 DEF LocksOf, SameLocks, Owns, Owning
<1>6. PlaceOK(t)'
  <2>1. Protected(t, "block")' <=> Protected(t, "block")
    BY <1>1 DEF Protected, rvars
  <2> QED
    BY <1>1, <1>4, <2>1 DEF PlaceOK, VInv, Idle
<1>7. Growing(t) /\ ~Growing(t)' /\ pc'[t] \notin {"grow_lock", "copy", "publish"}
  BY <1>1, <1>4 DEF Growing
<1> QED
  BY <1>1, <1>4, <1>5, <1>6, <1>7, LoneStep

-----------------------------------------------------------------------------
(* Steps with guards, and the steps of do_grow with the whole block        *)

OthersSame(t) == \A u \in Thread \ {t} : pc'[u] = pc[u] /\ loc'[u] = loc[u] /\ call'[u] = call[u]

\* A thread that owns nothing gives its guard away, or takes the current block.
LEMMA GuardStep ==
  ASSUME VInv, NEW t \in Thread, UNCHANGED <<status, block, data_block, resize_lock>>,
         RTypeOK', Domains', LocType(t)', OthersSame(t),
         \A u \in Thread \ {t} :
            B(u)' = B(u) /\ (<<u, "block">> \in pinned' <=> <<u, "block">> \in pinned),
         pc[t] \in Idle, pc'[t] \in Idle \union {"lock", "state"}, B(t)' \in {Null, data_block}, PlaceOK(t)'
  PROVE  VInv'
<1>1. VType'
  BY DEF VInv, VType, OthersSame, LocType
<1>2. \A u \in Thread \ {t} : \A j \in Nat : Owns(u, j)' <=> Owns(u, j)
  BY DEF Owns, OthersSame
<1>3. \A j \in Nat : ~Owns(t, j)'
  BY DEF Owns, Owning, Idle
<1>4. \A u \in Thread \ {t} : Buckets(B(u))' = Buckets(B(u)) /\ BucketCount(B(u))' = BucketCount(B(u))
  BY DEF Buckets, BucketCount
<1>5. \A u \in Thread \ {t} : \A j \in Nat : Locked(B(u), j)' <=> Locked(B(u), j)
  BY DEF Locked
<1>6. LocksOK'
  <2>1. ASSUME NEW u \in Thread, NEW j \in Nat, Owns(u, j)'
        PROVE  B(u)' = data_block' /\ j \in Buckets(B(u))' /\ Locked(B(u), j)'
    <3>1. u \in Thread \ {t} /\ Owns(u, j)
      BY <1>2, <1>3, <2>1
    <3>2. B(u) = data_block /\ j \in Buckets(B(u)) /\ Locked(B(u), j)
      BY <3>1 DEF VInv, LocksOK
    <3> QED
      BY <1>4, <1>5, <3>1, <3>2
  <2>2. ASSUME NEW u \in Thread, NEW v \in Thread, NEW j \in Nat, Owns(u, j)', Owns(v, j)'
        PROVE  u = v
    <3>1. Owns(u, j) /\ Owns(v, j)
      BY <1>2, <1>3, <2>2
    <3> QED
      BY <3>1 DEF VInv, LocksOK
  <2> QED
    BY <2>1, <2>2 DEF LocksOK
<1>7. \A u \in Thread \ {t} : PlaceOK(u)'
  <2> SUFFICES ASSUME NEW u \in Thread \ {t} PROVE PlaceOK(u)'
    OBVIOUS
  <2>1. B(u)' = B(u) /\ slot'[u]["block"] = slot[u]["block"]
    BY DEF B
  <2>2. Protected(u, "block")' <=> Protected(u, "block")
    BY <2>1 DEF Protected
  <2> QED
    BY <1>4, <2>1, <2>2 DEF VInv, PlaceOK, OthersSame
<1>8. \A u \in Thread : OldLocked(u)'
  <2>1. OldLocked(t)'
    BY DEF OldLocked
  <2>2. ASSUME NEW u \in Thread \ {t} PROVE OldLocked(u)'
    BY BlockType, GuardedBlock, <1>4 DEF VInv, OldLocked, Locked
  <2> QED
    BY <2>1, <2>2
<1>9. GrowOK'
  <2>1. \A u \in Thread : Growing(u)' => u # t /\ Growing(u)
    BY DEF Growing, OthersSame, Idle
  <2>2. \A u \in Thread : pc'[u] \in {"grow_lock", "copy", "publish", "grown", "retire"} =>
           u # t /\ pc[u] = pc'[u] /\ loc'[u] = loc[u] /\ B(u)' = B(u)
    BY DEF OthersSame, Idle
  <2>3. ASSUME NEW u \in Thread, pc'[u] = "publish"
        PROVE  /\ loc'[u].new \in Node /\ status'[loc'[u].new] = "live" /\ loc'[u].new # data_block'
               /\ \A v \in Thread : B(v)' # loc'[u].new
    <3>1. pc[u] = "publish" /\ loc'[u] = loc[u]
      BY <2>2, <2>3
    <3>2. /\ loc[u].new \in Node /\ status[loc[u].new] = "live" /\ loc[u].new # data_block
          /\ \A v \in Thread : B(v) # loc[u].new
      BY <3>1 DEF VInv, GrowOK
    <3>3. \A v \in Thread : B(v)' \in {B(v), Null, data_block}
      OBVIOUS
    <3> QED
      BY <3>1, <3>2, <3>3, NullAssumption
  <2> QED
    BY <2>1, <2>2, <2>3 DEF VInv, GrowOK
<1> QED
  BY <1>1, <1>6, <1>7, <1>8, <1>9 DEF VInv

LEMMA AcquireAction ==
  ASSUME VInv, NEW t \in Thread, AcquireBlock(t)
  PROVE  VInv'
<1>1. PICK to : to = IF Op(t) = "get" THEN "state" ELSE "lock"
  OBVIOUS
<1>2. PICK j : j = IF Op(t) = "scan" THEN 0 ELSE call[t].key % BucketCount(data_block)
  OBVIOUS
<1>3. /\ pc[t] = "block" /\ pc' = [pc EXCEPT ![t] = to] /\ Publish(t, "block", data_block)
      /\ loc' = [loc EXCEPT ![t] = [NoLoc EXCEPT !.bucket = j]]
      /\ UNCHANGED <<status, block, data_block, resize_lock, call>>
  BY <1>1, <1>2 DEF AcquireBlock, Goto, Quiet, history
<1>4. VType /\ Domains /\ RTypeOK /\ data_block \in Node /\ status[data_block] = "live"
  BY DEF VInv, VType, Domains, GrowOK
<1>5. j \in 0..(BucketCount(data_block) - 1)
  <2>1. BucketCount(data_block) \in Nat \ {0}
    BY <1>4, BlockType
  <2>2. CASE Op(t) = "scan"
    BY <1>2, <2>1, <2>2
  <2>3. CASE Op(t) # "scan"
    <3>1. call[t] \in MapCalls
      BY <1>4, <2>3 DEF Op, VType, LocType
    <3>2. call[t].key \in Nat
      BY <3>1, VHMRolesAssumption, VHMAssumption
    <3> QED
      BY <1>2, <2>1, <2>3, <3>2
  <2> QED
    BY <2>2, <2>3
<1>6. j \in Nat /\ j \in Buckets(data_block)
  BY <1>4, <1>5, BlockType
<1>7. /\ slot' = [slot EXCEPT ![t]["block"] = data_block]
      /\ pinned' = IF slot[t]["block"] = data_block THEN pinned ELSE pinned \ {<<t, "block">>}
  BY <1>3 DEF Publish
<1>8. slot \in [Thread -> [Slot -> Node \union {Null}]] /\ pinned \in SUBSET Guard /\ "block" \in Slot
  BY <1>4, VHMAssumption DEF RTypeOK
<1>9. B(t)' = data_block /\ \A u \in Thread \ {t} : B(u)' = B(u)
  BY <1>7, <1>8 DEF B
<1>10. RTypeOK'
  BY <1>3, <1>4, <1>7, <1>8 DEF RTypeOK
<1>11. \A u \in Thread \ {t} : <<u, "block">> \in pinned' <=> <<u, "block">> \in pinned
  BY <1>7
<1>12. Domains' /\ OthersSame(t) /\ pc'[t] = to /\ loc'[t] = [NoLoc EXCEPT !.bucket = j] /\ call'[t] = call[t]
  BY <1>3, <1>4 DEF Domains, OthersSame
<1>13. DOMAIN loc'[t] = DOMAIN NoLoc /\ loc'[t].bucket = j /\ loc'[t].count = 0 /\ loc'[t].won = FALSE
  BY <1>12 DEF NoLoc
<1>14. LocType(t)'
  <2>1. call'[t] \in MapCalls \union {NoCall}
    BY <1>4, <1>12 DEF LocType, VType
  <2>2. 0 \in Int /\ FALSE \in BOOLEAN
    OBVIOUS
  <2> QED
    BY <1>6, <1>13, <2>1, <2>2 DEF LocType
<1>15. PlaceOK(t)'
  <2>1. Protected(t, "block")'
    BY <1>3, <1>4, <1>9, NullAssumption DEF Protected, B
  <2>2. Buckets(B(t))' = Buckets(data_block)
    BY <1>3, <1>9 DEF Buckets
  <2> QED
    BY <1>1, <1>4, <1>6, <1>9, <1>12, <1>13, <2>1, <2>2, NullAssumption DEF PlaceOK
<1>16. pc[t] \in Idle /\ pc'[t] \in Idle \union {"lock", "state"}
  BY <1>1, <1>3, <1>12 DEF Idle
<1> QED
  BY <1>3, <1>9, <1>10, <1>11, <1>12, <1>14, <1>15, <1>16, GuardStep

LEMMA ReturnAction ==
  ASSUME VInv, NEW t \in Thread, Return(t)
  PROVE  VInv'
<1>1. /\ pc[t] \in {"done", "end"} /\ pc' = [pc EXCEPT ![t] = "idle"] /\ Release(t, Slot)
      /\ loc' = [loc EXCEPT ![t] = NoLoc] /\ call' = [call EXCEPT ![t] = NoCall]
      /\ UNCHANGED <<status, block, data_block, resize_lock>>
  BY DEF Return
<1>2. VType /\ Domains /\ RTypeOK
  BY DEF VInv, VType
<1>3. /\ slot' = [slot EXCEPT ![t] = [s \in Slot |-> IF s \in Slot THEN Null ELSE slot[t][s]]]
      /\ pinned' = pinned \ ({t} \X Slot)
  BY <1>1 DEF Release
<1>4. slot \in [Thread -> [Slot -> Node \union {Null}]] /\ pinned \in SUBSET Guard /\ "block" \in Slot
  BY <1>2, VHMAssumption DEF RTypeOK
<1>5. B(t)' = Null /\ \A u \in Thread \ {t} : B(u)' = B(u)
  BY <1>3, <1>4 DEF B
<1>6. RTypeOK'
  BY <1>1, <1>2, <1>3, <1>4 DEF RTypeOK
<1>7. \A u \in Thread \ {t} : <<u, "block">> \in pinned' <=> <<u, "block">> \in pinned
  BY <1>3
<1>8. Domains' /\ OthersSame(t) /\ pc'[t] = "idle" /\ loc'[t] = NoLoc /\ call'[t] = NoCall
  BY <1>1, <1>2 DEF Domains, OthersSame
<1>9. LocType(t)'
  BY <1>8 DEF LocType, NoLoc
<1>10. PlaceOK(t)'
  BY <1>5, <1>8 DEF PlaceOK, Idle
<1>11. pc[t] \in Idle /\ pc'[t] \in Idle \union {"lock", "state"}
  BY <1>1, <1>8 DEF Idle
<1> QED
  BY <1>1, <1>5, <1>6, <1>7, <1>8, <1>9, <1>10, <1>11, GuardStep

\* Who has the guard of a block that is not free or has not been deleted
LEMMA GuardedLive ==
  ASSUME VInv, NEW u \in Thread, B(u) # Null
  PROVE  /\ B(u) \in Node /\ status[B(u)] \in {"live", "retired"}
         /\ status[B(u)] = "retired" => <<u, "block">> \in pinned
BY GuardedBlock DEF VInv, PlaceOK, Protected, B

\* Steps that change neither a guard nor a block that somebody works on
LEMMA KeptPlaces ==
  ASSUME VInv, NEW u \in Thread, slot' = slot, pc'[u] = pc[u], loc'[u].bucket = loc[u].bucket,
         B(u) # Null => block'[B(u)] = block[B(u)] /\ status'[B(u)] = status[B(u)], pinned \subseteq pinned'
  PROVE  PlaceOK(u)'
<1>1. B(u)' = B(u)
  BY DEF B
<1>2. B(u) # Null => Protected(u, "block")'
  BY <1>1, GuardedLive DEF Protected, B
<1>3. B(u) # Null => Buckets(B(u))' = Buckets(B(u)) /\ BucketCount(B(u))' = BucketCount(B(u))
  BY <1>1 DEF Buckets, BucketCount
<1> QED
  BY <1>1, <1>2, <1>3 DEF VInv, PlaceOK, Idle

LEMMA DeleteAction ==
  ASSUME VInv, NEW n \in Node, Delete(n)
  PROVE  VInv'
<1>1. /\ status[n] = "retired" /\ Holders(n) \intersect pinned = {} /\ status' = [status EXCEPT ![n] = "free"]
      /\ UNCHANGED <<slot, pinned, block, data_block, resize_lock, pc, loc, call>>
  BY DEF Delete, Reclaim, history
<1>2. VType /\ Domains /\ RTypeOK
  BY DEF VInv, VType
<1>3. \A u \in Thread : B(u)' = B(u) /\ B(u) # n
  <2> SUFFICES ASSUME NEW u \in Thread, B(u) = n PROVE FALSE
    BY <1>1 DEF B
  <2>1. <<u, "block">> \in pinned
    BY <1>1, GuardedLive, NullAssumption
  <2>2. <<u, "block">> \in Holders(n)
    BY VHMAssumption DEF Holders, Guard, B
  <2> QED
    BY <1>1, <2>1, <2>2
<1>4. \A m \in Node : m # n => status'[m] = status[m]
  BY <1>1, <1>2 DEF RTypeOK
<1>5. VType'
  <2>1. RTypeOK'
    BY <1>1, <1>2 DEF RTypeOK
  <2> QED
    BY <1>1, <1>2, <2>1 DEF VType, Domains, LocType
<1>6. LocksOK'
  BY <1>1, <1>3 DEF VInv, LocksOK, Owns, Buckets, Locked
<1>7. \A u \in Thread : PlaceOK(u)'
  BY <1>1, <1>3, <1>4, GuardedLive, KeptPlaces
<1>8. \A u \in Thread : OldLocked(u)'
  BY <1>1, <1>3 DEF VInv, OldLocked, Buckets, Locked
<1>9. GrowOK'
  <2>1. status'[data_block'] = "live"
    BY <1>1, <1>2, <1>4 DEF VInv, GrowOK, Domains
  <2>2. \A u \in Thread : Growing(u)' <=> Growing(u)
    BY <1>1 DEF Growing
  <2>3. \A u \in Thread : pc[u] = "publish" => loc[u].new \in Node /\ status'[loc[u].new] = "live"
    BY <1>1, <1>4 DEF VInv, GrowOK
  <2>4. \A u \in Thread : pc[u] \in {"grown", "retire"} => status'[B(u)] = "live"
    BY <1>1, <1>3, <1>4, GuardedBlock DEF VInv, GrowOK, Idle
  <2> QED
    BY <1>1, <1>3, <2>1, <2>2, <2>3, <2>4 DEF VInv, GrowOK
<1> QED
  BY <1>5, <1>6, <1>7, <1>8, <1>9 DEF VInv

LEMMA RetireAction ==
  ASSUME VInv, NEW t \in Thread, GrowRetire(t)
  PROVE  VInv'
<1>1. PICK n : n = B(t)
  OBVIOUS
<1>2. /\ pc[t] = "retire" /\ pc' = [pc EXCEPT ![t] = "block"] /\ status[n] = "live"
      /\ status' = [status EXCEPT ![n] = "retired"] /\ pinned' = pinned \union Holders(n)
      /\ UNCHANGED <<slot, block, data_block, resize_lock, loc, call>>
  BY <1>1 DEF GrowRetire, Retire, Goto, Quiet, history
<1>3. VType /\ Domains /\ RTypeOK
  BY DEF VInv, VType
<1>4. n \in Node /\ n # data_block
  BY <1>1, <1>2, GuardedBlock DEF Idle, VInv, GrowOK
<1>5. (\A u \in Thread : B(u)' = B(u)) /\ pc'[t] = "block" /\ \A u \in Thread \ {t} : pc'[u] = pc[u]
  BY <1>2, <1>3 DEF B, Domains
<1>6. \A m \in Node : m # n => status'[m] = status[m]
  BY <1>2, <1>3 DEF RTypeOK
<1>7. VType'
  <2>1. RTypeOK'
    BY <1>2, <1>3, <1>4 DEF RTypeOK, Holders
  <2> QED
    BY <1>2, <1>3, <2>1 DEF VType, Domains, LocType
<1>8. \A u \in Thread : \A j \in Nat : Owns(u, j)' => Owns(u, j)
  BY <1>2, <1>5 DEF Owns, Owning
<1>9. LocksOK'
  BY <1>2, <1>5, <1>8 DEF VInv, LocksOK, Buckets, Locked
<1>10. \A u \in Thread : B(u) # Null => Protected(u, "block")'
  <2> SUFFICES ASSUME NEW u \in Thread, B(u) # Null PROVE Protected(u, "block")'
    OBVIOUS
  <2>1. CASE B(u) = n
    <3>1. <<u, "block">> \in Holders(n)
      BY <2>1, VHMAssumption DEF Holders, Guard, B
    <3>2. status'[n] = "retired" /\ slot'[u]["block"] = n
      BY <1>2, <1>3, <1>4, <2>1 DEF RTypeOK, B
    <3> QED
      BY <1>2, <1>4, <3>1, <3>2, NullAssumption DEF Protected
  <2>2. CASE B(u) # n
    BY <1>2, <1>6, <2>2, GuardedLive DEF Protected, B
  <2> QED
    BY <2>1, <2>2
<1>11. \A u \in Thread : PlaceOK(u)'
  BY <1>2, <1>5, <1>10 DEF VInv, PlaceOK, Idle, Buckets, BucketCount
<1>12. \A u \in Thread : OldLocked(u)'
  BY <1>2, <1>5 DEF VInv, OldLocked, Buckets, Locked
<1>13. GrowOK'
  <2>1. status'[data_block'] = "live"
    BY <1>2, <1>3, <1>4, <1>6 DEF VInv, GrowOK, Domains
  <2>2. \A u \in Thread : Growing(u)' => Growing(u)
    BY <1>2, <1>5 DEF Growing
  <2>3. \A u \in Thread : pc'[u] = "publish" =>
           loc'[u].new \in Node /\ status'[loc'[u].new] = "live" /\ pc[u] = "publish"
    BY <1>1, <1>2, <1>5, <1>6 DEF VInv, GrowOK
  <2>4. \A u \in Thread : pc'[u] \in {"grown", "retire"} =>
           u # t /\ pc[u] = pc'[u] /\ B(u) # n /\ status'[B(u)] = "live"
    BY <1>1, <1>2, <1>5, <1>6, GuardedBlock DEF VInv, GrowOK, Idle
  <2>5. \A u \in Thread : pc'[u] \in {"grow_lock", "copy", "publish"} => pc[u] = pc'[u]
    BY <1>5
  <2> QED
    BY <1>2, <1>5, <2>1, <2>2, <2>3, <2>4, <2>5 DEF VInv, GrowOK
<1> QED
  BY <1>7, <1>9, <1>11, <1>12, <1>13 DEF VInv

\* Who replaces the block owns all its locks: nobody else works on it.
LEMMA PublishAction ==
  ASSUME VInv, NEW t \in Thread, GrowPublish(t)
  PROVE  VInv'
<1>1. PICK n : n = loc[t].new
  OBVIOUS
<1>2. /\ pc[t] = "publish" /\ pc' = [pc EXCEPT ![t] = "grown"] /\ data_block' = n
      /\ UNCHANGED <<status, slot, pinned, block, resize_lock, loc, call>>
  BY <1>1 DEF GrowPublish, Goto, Quiet, history, rvars
<1>3. VType /\ Domains /\ RTypeOK
  BY DEF VInv, VType
<1>4. /\ n \in Node /\ status[n] = "live" /\ n # data_block /\ \A u \in Thread : B(u) # n
      /\ B(t) = data_block
  BY <1>1, <1>2 DEF VInv, GrowOK
<1>5. (\A u \in Thread : B(u)' = B(u)) /\ pc'[t] = "grown" /\ \A u \in Thread \ {t} : pc'[u] = pc[u]
  BY <1>2, <1>3 DEF B, Domains
<1>6. \A j \in Buckets(data_block) : j \in Nat /\ Owns(t, j) /\ Locked(data_block, j)
  <2> SUFFICES ASSUME NEW j \in Buckets(data_block) PROVE j \in Nat /\ Owns(t, j) /\ Locked(data_block, j)
    OBVIOUS
  <2>1. loc[t].bucket = BucketCount(data_block) /\ Buckets(data_block) = 0..(BucketCount(data_block) - 1)
    BY <1>2, <1>3, <1>4, BlockType DEF VInv, PlaceOK, Domains
  <2>2. BucketCount(data_block) \in Nat
    BY <1>3, BlockType DEF Domains
  <2>3. j \in Nat /\ Owns(t, j)
    BY <1>2, <2>1, <2>2 DEF Owns
  <2> QED
    BY <1>4, <2>3 DEF VInv, LocksOK
<1>7. VType'
  <2>1. RTypeOK'
    BY <1>2, <1>3 DEF RTypeOK
  <2> QED
    BY <1>2, <1>3, <1>4, <2>1 DEF VType, Domains, LocType
<1>8. \A u \in Thread : \A j \in Nat : ~Owns(u, j)'
  <2> SUFFICES ASSUME NEW u \in Thread, NEW j \in Nat, Owns(u, j)' PROVE FALSE
    OBVIOUS
  <2>1. u # t /\ Owns(u, j)
    BY <1>2, <1>5 DEF Owns, Owning
  <2>2. j \in Buckets(data_block)
    BY <2>1 DEF VInv, LocksOK
  <2> QED
    BY <1>6, <2>1, <2>2 DEF VInv, LocksOK
<1>9. LocksOK'
  BY <1>8 DEF LocksOK
<1>10. \A u \in Thread : PlaceOK(u)'
  <2> SUFFICES ASSUME NEW u \in Thread PROVE PlaceOK(u)'
    OBVIOUS
  <2>1. CASE u = t
    <3>1. Protected(t, "block")' <=> Protected(t, "block")
      BY <1>2 DEF Protected
    <3> QED
      BY <1>2, <1>5, <2>1, <3>1 DEF VInv, PlaceOK, Idle
  <2>2. CASE u # t
    <3>1. pc'[u] = pc[u] /\ loc'[u].bucket = loc[u].bucket
      BY <1>2, <1>5, <2>2
    <3> QED
      BY <1>2, <3>1, KeptPlaces
  <2> QED
    BY <2>1, <2>2
<1>11. \A u \in Thread : OldLocked(u)'
  <2> SUFFICES ASSUME NEW u \in Thread, B(u) # Null, NEW j \in Buckets(B(u)) PROVE Locked(B(u), j)
    BY <1>2, <1>5 DEF OldLocked, Buckets, Locked
  <2> QED
    BY <1>6 DEF VInv, OldLocked
<1>12. GrowOK'
  <2>1. \A u \in Thread : Growing(u)' <=> Growing(u)
    BY <1>2, <1>5 DEF Growing
  <2>2. Growing(t)
    BY <1>2 DEF Growing
  <2>3. \A u \in Thread : pc'[u] \notin {"grow_lock", "copy", "publish"}
    <3> SUFFICES ASSUME NEW u \in Thread, pc'[u] \in {"grow_lock", "copy", "publish"} PROVE FALSE
      OBVIOUS
    <3>1. Growing(u) /\ u # t
      BY <1>5, <2>1 DEF Growing
    <3> QED
      BY <2>2, <3>1 DEF VInv, GrowOK
  <2>4. \A u \in Thread : pc'[u] \in {"grown", "retire"} =>
           u = t \/ (pc[u] \in {"grown", "retire"} /\ B(u) # data_block /\ status[B(u)] = "live")
    BY <1>5 DEF VInv, GrowOK
  <2>5. status[data_block] = "live"
    BY DEF VInv, GrowOK
  <2>6. \A u \in Thread : pc'[u] \in {"grown", "retire"} => B(u)' # data_block' /\ status'[B(u)'] = "live"
    BY <1>2, <1>4, <1>5, <2>4, <2>5
  <2>7. \A u, v \in Thread :
           pc'[u] \in {"grown", "retire"} /\ pc'[v] \in {"grown", "retire"} /\ B(u)' = B(v)' => u = v
    BY <1>4, <1>5, <2>4 DEF VInv, GrowOK
  <2>8. status'[data_block'] = "live" /\ resize_lock' = resize_lock
    BY <1>2, <1>4
  <2> QED
    BY <2>1, <2>3, <2>6, <2>7, <2>8 DEF VInv, GrowOK
<1> QED
  BY <1>7, <1>9, <1>10, <1>11, <1>12 DEF VInv

LEMMA CopyAction ==
  ASSUME VInv, NEW t \in Thread, GrowCopy(t)
  PROVE  VInv'
<1>1. PICK n \in Node : /\ Allocate(n) /\ block' = [block EXCEPT ![n] = Copy(block[data_block])]
                        /\ Set(t, [new |-> n])
  BY DEF GrowCopy
<1>2. /\ pc[t] = "copy" /\ pc' = [pc EXCEPT ![t] = "publish"]
      /\ status[n] = "free" /\ status' = [status EXCEPT ![n] = "live"]
      /\ UNCHANGED <<slot, pinned, data_block, resize_lock, call>>
  BY <1>1 DEF GrowCopy, Goto, Quiet, history, Allocate
<1>3. VType /\ Domains /\ RTypeOK
  BY DEF VInv, VType
<1>4. PICK l : l = With(loc[t], [new |-> n])
  OBVIOUS
<1>5. loc' = [loc EXCEPT ![t] = l]
  BY <1>1, <1>3, <1>4 DEF Set, Domains
<1>6. /\ DOMAIN l = DOMAIN NoLoc /\ l.bucket = loc[t].bucket /\ l.count = loc[t].count
      /\ l.won = loc[t].won /\ l.new = n
  <2>1. DOMAIN loc[t] = {"bucket", "count", "ver", "i", "x", "prev", "val", "won", "new", "answer"}
    BY <1>3 DEF VType, LocType, NoLoc
  <2> QED
    BY <1>4, <2>1 DEF With, NoLoc
<1>7. \A u \in Thread : B(u)' = B(u) /\ B(u) # n
  BY <1>2, GuardedLive, NullAssumption DEF B
<1>8. n # data_block /\ \A m \in Node : m # n => status'[m] = status[m] /\ block'[m] = block[m]
  BY <1>1, <1>2, <1>3 DEF VInv, GrowOK, RTypeOK, Domains
<1>9. /\ loc'[t] = l /\ pc'[t] = "publish"
      /\ \A u \in Thread \ {t} : loc'[u] = loc[u] /\ pc'[u] = pc[u]
      /\ \A u \in Thread : loc'[u].bucket = loc[u].bucket /\ loc'[u].won = loc[u].won
  BY <1>2, <1>3, <1>5, <1>6 DEF Domains
<1>10. VType'
  <2>1. RTypeOK'
    BY <1>2, <1>3 DEF RTypeOK
  <2>2. Domains'
    BY <1>1, <1>2, <1>3, <1>5 DEF Domains
  <2>3. \A m \in Node : IsBlock(block'[m])
    <3>1. IsBlock(block'[n])
      BY <1>1, <1>3, CopyShape DEF Domains, VType
    <3> QED
      BY <1>3, <1>8, <3>1 DEF VType
  <2>4. \A u \in Thread : LocType(u)'
    BY <1>2, <1>3, <1>6, <1>9 DEF VType, LocType
  <2> QED
    BY <2>1, <2>2, <2>3, <2>4 DEF VType
<1>11. \A u \in Thread : B(u) # Null =>
          B(u) \in Node /\ block'[B(u)] = block[B(u)] /\ status'[B(u)] = status[B(u)]
  BY <1>7, <1>8, GuardedLive
<1>12. \A u \in Thread : \A j \in Nat : Owns(u, j)' <=> Owns(u, j)
  BY <1>2, <1>9 DEF Owns, Owning
<1>13. LocksOK'
  <2>1. block'[data_block] = block[data_block]
    BY <1>3, <1>8 DEF Domains
  <2>2. ASSUME NEW u \in Thread, NEW j \in Nat, Owns(u, j)'
        PROVE  B(u)' = data_block' /\ j \in Buckets(B(u))' /\ Locked(B(u), j)'
    <3>1. B(u) = data_block /\ j \in Buckets(B(u)) /\ Locked(B(u), j)
      BY <1>12, <2>2 DEF VInv, LocksOK
    <3> QED
      BY <1>2, <1>7, <2>1, <3>1 DEF Buckets, Locked
  <2> QED
    BY <1>12, <2>2 DEF VInv, LocksOK
<1>14. \A u \in Thread : PlaceOK(u)'
  <2> SUFFICES ASSUME NEW u \in Thread PROVE PlaceOK(u)'
    OBVIOUS
  <2>1. CASE u = t
    <3>1. B(t) \in Node /\ Protected(t, "block") /\ loc[t].bucket = BucketCount(B(t))
      BY <1>2, GuardedBlock DEF VInv, PlaceOK, Idle
    <3>2. Protected(t, "block")'
      BY <1>2, <1>7, <1>11, <3>1, NullAssumption DEF Protected, B
    <3>3. BucketCount(B(t))' = BucketCount(B(t))
      BY <1>7, <1>11, <3>1, NullAssumption DEF BucketCount
    <3> QED
      BY <1>7, <1>9, <2>1, <3>1, <3>2, <3>3, NullAssumption DEF PlaceOK
  <2>2. CASE u # t
    <3>1. slot' = slot /\ pc'[u] = pc[u] /\ loc'[u].bucket = loc[u].bucket /\ pinned \subseteq pinned'
      BY <1>2, <1>9, <2>2
    <3> QED
      BY <1>11, <3>1, KeptPlaces
  <2> QED
    BY <2>1, <2>2
<1>15. \A u \in Thread : OldLocked(u)'
  BY <1>2, <1>7, <1>11 DEF VInv, OldLocked, Buckets, Locked
<1>16. GrowOK'
  <2>1. \A u \in Thread : Growing(u)' <=> Growing(u)
    BY <1>2, <1>9 DEF Growing
  <2>2. Growing(t) /\ B(t) = data_block
    BY <1>2 DEF Growing, VInv, GrowOK
  <2>3. status'[n] = "live" /\ status'[data_block'] = "live" /\ resize_lock' = resize_lock
    BY <1>2, <1>3, <1>8 DEF RTypeOK, Domains, VInv, GrowOK
  <2>4. ASSUME NEW u \in Thread, pc'[u] = "publish" PROVE u = t
    <3>1. Growing(u)'
      BY <2>4 DEF Growing
    <3> QED
      BY <2>1, <2>2, <3>1 DEF VInv, GrowOK
  <2>5. \A u \in Thread : pc'[u] = "publish" =>
          /\ loc'[u].new \in Node /\ status'[loc'[u].new] = "live" /\ loc'[u].new # data_block'
          /\ \A v \in Thread : B(v)' # loc'[u].new
    BY <1>2, <1>6, <1>7, <1>8, <1>9, <2>3, <2>4
  <2>6. \A u \in Thread : pc'[u] \in {"grow_lock", "copy", "publish"} => B(u)' = data_block'
    BY <1>2, <1>7, <1>9, <2>2 DEF VInv, GrowOK
  <2>7. \A u \in Thread : pc'[u] \in {"grown", "retire"} =>
           pc[u] = pc'[u] /\ B(u)' = B(u) /\ B(u)' # data_block' /\ status'[B(u)'] = "live"
    BY <1>2, <1>7, <1>9, <1>11, GuardedBlock, NullAssumption DEF VInv, GrowOK, Idle
  <2>8. \A u, v \in Thread :
           pc'[u] \in {"grown", "retire"} /\ pc'[v] \in {"grown", "retire"} /\ B(u)' = B(v)' => u = v
    BY <2>7 DEF VInv, GrowOK
  <2>9. /\ \A u \in Thread : Growing(u)' => resize_lock' = 1
        /\ \A u, v \in Thread : Growing(u)' /\ Growing(v)' => u = v
    BY <2>1, <2>3 DEF VInv, GrowOK
  <2> QED
    BY <2>3, <2>5, <2>6, <2>7, <2>8, <2>9 DEF GrowOK
<1> QED
  BY <1>10, <1>13, <1>14, <1>15, <1>16 DEF VInv

-----------------------------------------------------------------------------
(* The theorems                                                            *)

LEMMA GrowActions ==
  ASSUME VInv, NEW t \in Thread, GrowStep(t)
  PROVE  VInv'
BY GrowTryAction, GrowUnlockAction, StillActions, GrowLockAction, CopyAction, PublishAction, GrownAction,
   RetireAction DEF GrowStep

LEMMA NextKeepsVInv == VInv /\ [Next]_vars => VInv'
<1> SUFFICES ASSUME VInv, [Next]_vars PROVE VInv'
  OBVIOUS
<1>1. CASE UNCHANGED vars
  <2>1. UNCHANGED <<rvars, block, data_block, resize_lock, pc, loc, call>>
    BY <1>1 DEF vars, history
  <2>2. VType' /\ LocksOK'
    BY <2>1 DEF VInv, VType, RTypeOK, rvars, Domains, LocType, LocksOK, Owns, B, Buckets, Locked
  <2>3. GrowOK'
    BY <2>1 DEF VInv, GrowOK, rvars, Growing, B
  <2>4. \A t \in Thread : PlaceOK(t)' /\ OldLocked(t)'
    BY <2>1 DEF VInv, PlaceOK, OldLocked, rvars, B, Buckets, BucketCount, Locked, Protected
  <2> QED
    BY <2>2, <2>3, <2>4 DEF VInv
<1>2. CASE \E t \in Thread : (\E c \in MapCalls : Call(t, c)) \/ ScanBegin(t)
  BY <1>2, CallAction
<1>3. CASE \E t \in Thread : Return(t) \/ AcquireBlock(t)
  BY <1>3, ReturnAction, AcquireAction
<1>4. CASE \E t \in Thread : LockFails(t) \/ Finish(t) \/ Unlock(t)
  BY <1>4, StillActions, UnlockActions
<1>5. CASE \E t \in Thread : InsertStep(t) \/ GrowStep(t) \/ RemoveStep(t) \/ GetStep(t) \/ IteratorStep(t)
  BY <1>5, InsertActions, GrowActions, RemoveActions, GetActions, IteratorActions
<1>6. CASE \E n \in Node : Delete(n)
  BY <1>6, DeleteAction
<1>7. CASE Done
  BY <1>1, <1>7 DEF Done
<1> QED
  BY <1>1, <1>2, <1>3, <1>4, <1>5, <1>6, <1>7 DEF Next

\* The invariant holds in every state: among it that the guards protect their
\* blocks, and that the one who grows the map is the one who has set resize_lock.
THEOREM Invariance == Spec => []VInv
<1>1. Init => VInv
  BY Initially
<1>2. VInv /\ [Next]_vars => VInv'
  BY NextKeepsVInv
<1> QED
  BY <1>1, <1>2, PTL DEF Spec

\* A thread that works on a block has guarded it since before it was retired:
\* grow may retire the old block while others are still reading it or waiting
\* for a lock in it (vyukov_hash_map.hpp, do_grow, lock_bucket, try_get_value).
THEOREM MemorySafety == Spec => []MemorySafe
<1>1. VInv => MemorySafe
  BY DEF VInv, PlaceOK, Idle, MemorySafe
<1> QED
  BY <1>1, Invariance, PTL

\* Who has locked a bucket is alone with it, and the bucket is one of the
\* current block: nobody changes a bucket while do_grow copies it, and no
\* change to a block that has been copied is lost (lock_bucket, do_grow).
LocksExclusive ==
    /\ \A t \in Thread : \A j \in Nat : Owns(t, j) => B(t) = data_block
    /\ \A t, u \in Thread : \A j \in Nat : Owns(t, j) /\ Owns(u, j) => t = u
    /\ \A t, u \in Thread : Growing(t) /\ Growing(u) => t = u

THEOREM LocksAreExclusive == Spec => []LocksExclusive
<1>1. VInv => LocksExclusive
  BY DEF VInv, LocksOK, GrowOK, LocksExclusive
<1> QED
  BY <1>1, Invariance, PTL
=============================================================================
