-------------------------- MODULE EpochBasedProofs --------------------------
(***************************************************************************)
(* EpochBased keeps its epochs in step, loses no retired node and deletes  *)
(* none twice, for any number of threads, control blocks, nodes and guards *)
(* and for every policy.  As long as threads leave no nodes to others, it  *)
(* deletes no node that a guard has, and keeps the promise of module       *)
(* Reclaimer: with orphans it does not.                                    *)
(*                                                                         *)
(* EInv and, without orphans, DInv are inductive.  Each of their parts has *)
(* a lemma of its own.                                                     *)
(***************************************************************************)
EXTENDS EpochBased, FiniteSetTheorems, SequenceTheorems, TLAPS

-----------------------------------------------------------------------------
(* The inductive invariant                                                 *)

local(t) == local_epoch[block[t]]
flag(t) == is_in_critical_region[block[t]]
InitPC == {"initLoad", "initStore"}
Running(t) == block[t] # Null /\ pc[t] \notin InitPC

\* A thread with a control block owns it; what a scan has still to visit is in
\* the list of blocks, and there is something where it goes on.
InBlocks(b) == \E k \in 1..Len(blocks) : blocks[k] = b
BlocksOK(t) ==
    /\ block[t] # Null =>
          /\ InBlocks(block[t]) /\ state[block[t]] = "active"
          /\ \A u \in Thread : block[u] = block[t] => u = t
    /\ \A k \in 1..Len(iter[t]) : InBlocks(iter[t][k])
    /\ pc[t] = "entry" => block[t] = Null
    /\ pc[t] \notin {"idle", "entry"} => block[t] # Null
IterOK(t) ==
    /\ pc[t] \in {"scan", "scanEpoch"} => iter[t] # << >>
    /\ pc[t] = "advance" => iter[t] = << >>
    /\ policy.scan = "one" /\ Running(t) /\ pc[t] \notin {"advance", "adopt", "delete", "local"} =>
          iter[t] # << >>

\* What an operation that has begun works on.
AcquirePC == {"entry", "initLoad", "initStore", "enter", "set", "global", "scan", "scanEpoch",
              "advance", "adopt", "delete", "local", "load"}
UpdatePC == {"scan", "scanEpoch", "advance", "adopt", "delete", "local"}
CallOK(t) ==
    /\ pc[t] \in AcquirePC => op[t] \in {"acquire", "if_equal", "copy", "region"}
    /\ pc[t] \in {"global", "load"} \union UpdatePC => op[t] # "region"
    /\ pc[t] \in {"idle", "clear"} => op[t] = "none"
    /\ pc[t] \in {"retire", "reset"} => /\ op[t] = "reclaim" /\ gd[t] \in GuardId
                                        /\ ptr[t][gd[t]] \in Node
    /\ pc[t] \in {"abandon", "release"} => op[t] \in {"none", "exit"}
    /\ pc[t] = "release" => op[t] = "exit"
    /\ op[t] = "region" => ~guarded[t]
    /\ op[t] \in {"acquire", "if_equal", "copy"} => gd[t] \in GuardId
    /\ op[t] \in {"acquire", "if_equal"} => src[t] \in Cell
    /\ op[t] = "copy" => /\ pc[t] \in {"enter", "load"} /\ expected[t] \in Node
                         /\ \E f \in GuardId : ptr[t][f] = expected[t]
    /\ op[t] = "exit" => ~guarded[t] /\ \A g \in GuardId : ptr[t][g] = Null
    /\ pc[t] \in {"entry", "initLoad", "initStore", "set", "global"} \union UpdatePC =>
          \A g \in GuardId : ptr[t][g] = Null
    /\ pc[t] = "enter" /\ op[t] # "region" => ptr[t][gd[t]] = Null

\* The counters of thread_data: guards that the thread has or is acquiring,
\* and these together with its region_guard.
Counted(t) == {g \in GuardId : \/ ptr[t][g] # Null
                               \/ /\ gd[t] = g /\ op[t] # "region"
                                  /\ pc[t] \in {"set", "global", "load"} \union UpdatePC}
Region(t) == guarded[t] \/ (pc[t] = "set" /\ op[t] = "region")
CountOK(t) ==
    /\ IsFiniteSet(Counted(t)) /\ nested[t] = Cardinality(Counted(t))
    /\ regions[t] = IF extends THEN nested[t] + (IF Region(t) THEN 1 ELSE 0) ELSE 0
    /\ block[t] = Null => nested[t] = 0 /\ ~guarded[t]

\* The flag of a block is set as long as its owner has a guard, and not
\* without a region; nobody adopts a block whose flag is set.
InRegion(t) == IF extends THEN regions[t] > 0 ELSE nested[t] > 0
FlagOK(t) ==
    /\ block[t] # Null /\ flag(t) => InRegion(t) \/ pc[t] = "clear"
    /\ nested[t] > 0 /\ pc[t] # "set" => flag(t)
    /\ policy.region = "eager" /\ regions[t] > 0 /\ pc[t] # "set" => flag(t)
    /\ pc[t] = "set" => ~flag(t) /\ InRegion(t)
    /\ pc[t] = "clear" => ~InRegion(t)
UnownedOK == \A b \in Block : is_in_critical_region[b] => \E t \in Thread : block[t] = b

\* A thread in a region that has looked at the global epoch keeps this from
\* going on by more than one: from its own epoch, or from the one it is about to store.
Registered(t) == nested[t] > 0 /\ pc[t] \notin {"set", "global"}
Bound(t) == IF pc[t] = "local" THEN epoch[t] ELSE local(t)
EpochOK(t) ==
    /\ pc[t] = "initStore" => epoch[t] <= global_epoch
    /\ Running(t) => local(t) <= global_epoch
    /\ Registered(t) => Bound(t) <= global_epoch /\ global_epoch <= Bound(t) + 1
    /\ pc[t] \in {"scan", "scanEpoch", "advance"} => epoch[t] = local(t)
    /\ pc[t] = "local" => epoch[t] > local(t)
    /\ pc[t] \in {"adopt", "delete"} =>
          \/ epoch[t] = local(t) + 1 /\ global_epoch = epoch[t]
          \/ pc[t] = "delete" /\ epoch[t] = local(t)

\* A scan of the current epoch has passed only threads that are in that epoch;
\* a scan of single threads goes on over many operations.
Scanning(u) == Running(u) /\ \/ pc[u] \in {"scan", "scanEpoch", "advance"}
                             \/ policy.scan = "one" /\ pc[u] \notin {"adopt", "delete", "local"}
Passed(u, b) == \A k \in 1..Len(iter[u]) : iter[u][k] # b
ScanOK(u) == Scanning(u) /\ local(u) = global_epoch =>
                \A t \in Thread : Registered(t) /\ Passed(u, block[t]) => Bound(t) = global_epoch

\* A node in a cell is live and in no other cell; a node that has been unlinked
\* is live and known to one thread until that thread retires it.
CellOK == /\ \A c \in Cell : cell[c] # Null => status[cell[c]] = "live"
          /\ \A c, d \in Cell : cell[c] = cell[d] /\ cell[c] # Null => c = d
Claims(t, n) == pc[t] = "retire" /\ ptr[t][gd[t]] = n
ClaimOK(t) == \A n \in Node : Claims(t, n) =>
                 /\ status[n] = "live"
                 /\ \A c \in Cell : cell[c] # n
                 /\ \A u \in Thread : Claims(u, n) => u = t

\* Where the retired nodes are.
Listed(t, n) == \E i \in EpochIdx : n \in retire_lists[t][i]
Left(n) == \E i \in EpochIdx : n \in orphans[i]
KeptOK ==
    /\ \A n \in Node : status[n] = "retired" <=>
                          Left(n) \/ \E t \in Thread : Listed(t, n) \/ n \in pending[t]
    /\ \A n \in Node, i, j \in EpochIdx : n \in orphans[i] /\ n \in orphans[j] => i = j
    /\ \A n \in Node, t \in Thread : ~(Left(n) /\ (Listed(t, n) \/ n \in pending[t]))
    /\ \A n \in Node, t \in Thread, i, j \in EpochIdx :
          n \in retire_lists[t][i] /\ n \in retire_lists[t][j] => i = j
    /\ \A n \in Node, t, u \in Thread : ~(Listed(t, n) /\ n \in pending[u])
    /\ \A n \in Node, t, u \in Thread : Listed(t, n) /\ Listed(u, n) => t = u
    /\ \A n \in Node, t, u \in Thread : n \in pending[t] /\ n \in pending[u] => t = u
EmptyOK(t) == /\ pc[t] # "delete" => pending[t] = {}
              /\ pc[t] \in {"entry", "initLoad", "initStore", "release"} \/ block[t] = Null =>
                    \A i \in EpochIdx : retire_lists[t][i] = {}
              /\ pc[t] = "abandon" => HasNodes(t)

EInv == /\ TypeOK
        /\ UnownedOK /\ CellOK /\ KeptOK
        /\ \A t \in Thread : /\ BlocksOK(t) /\ IterOK(t) /\ CallOK(t) /\ CountOK(t) /\ FlagOK(t)
                             /\ EpochOK(t) /\ ScanOK(t) /\ ClaimOK(t) /\ EmptyOK(t)

\* Without orphans a retired node is not deleted before the epochs of all who
\* have it are left behind.
NoOrphans == \A i \in EpochIdx : orphans[i] = {}
IndexOK(t) == Running(t) /\ ~(pc[t] = "delete" /\ epoch[t] = local(t)) =>
                 local_epoch_idx[t] = local(t) % number_epochs
HeldBy(u, n) == \E g \in GuardId : ptr[u][g] = n
WaitOK(t) ==
    /\ \A i \in EpochIdx : \A n \in retire_lists[t][i], u \in Thread, e \in Nat :
          HeldBy(u, n) /\ e % number_epochs = i /\ e > local(t) => local(u) + 2 <= e
    /\ \A n \in pending[t], u \in Thread : ~HeldBy(u, n)

DInv == EInv /\ \A t \in Thread : IndexOK(t) /\ WaitOK(t)

\* There are none where threads neither abandon their nodes nor end.
KeepNodes == policy.abandon = "never" /\ \A t \in Thread : "exit" \notin policy.calls[t]
KInv == /\ EInv /\ KeepNodes /\ NoOrphans
        /\ \A t \in Thread : pc[t] \notin {"abandon", "release"} /\ op[t] # "exit"

Step(t) == ClientStep(t) \/ EnterStep(t) \/ LeaveStep(t)

-----------------------------------------------------------------------------
(* Types                                                                   *)

LEMMA Indexes == /\ number_epochs = 3 /\ EpochIdx = {0, 1, 2}
                 /\ \A e \in Nat : e % number_epochs \in EpochIdx
BY DEF number_epochs, EpochIdx

LEMMA MinIndex ==
  ASSUME NEW S \in SUBSET EpochIdx, S # {}
  PROVE  Min(S) \in S
<1>1. \E x \in S : \A y \in S : x <= y
  <2>1. S \subseteq {0, 1, 2}
    BY Indexes
  <2>2. CASE 0 \in S
    BY <2>1, <2>2
  <2>3. CASE 0 \notin S /\ 1 \in S
    BY <2>1, <2>3
  <2>4. CASE 0 \notin S /\ 1 \notin S
    <3>1. PICK x \in S : TRUE
      OBVIOUS
    <3>2. \A y \in S : y = 2
      BY <2>1, <2>4
    <3> QED
      BY <3>1, <3>2
  <2> QED
    BY <2>2, <2>3, <2>4
<1> QED
  BY <1>1 DEF Min

LEMMA HeadTail ==
  ASSUME NEW S, NEW s \in Seq(S), s # << >>
  PROVE  /\ Len(s) \in Nat /\ Len(s) >= 1
         /\ Head(s) = s[1] /\ Head(s) \in S
         /\ Tail(s) \in Seq(S) /\ Len(Tail(s)) = Len(s) - 1
         /\ \A k \in 1..(Len(s) - 1) : Tail(s)[k] = s[k + 1]
OBVIOUS

LEMMA ConsFacts ==
  ASSUME NEW S, NEW s \in Seq(S), NEW e \in S
  PROVE  /\ <<e>> \o s \in Seq(S) /\ Len(<<e>> \o s) = Len(s) + 1 /\ Len(s) \in Nat
         /\ (<<e>> \o s)[1] = e
         /\ \A k \in 1..Len(s) : (<<e>> \o s)[k + 1] = s[k]
         /\ \A k \in 2..(Len(s) + 1) : (<<e>> \o s)[k] = s[k - 1]
OBVIOUS

LEMMA TypeInit == Init => TypeOK
<1> SUFFICES ASSUME Init PROVE TypeOK
  OBVIOUS
<1>1. 0 \in EpochIdx /\ 0 \in Nat /\ number_epochs \in Nat
  BY Indexes
<1>2. << >> \in Seq(Block)
  BY EmptySeq
<1> QED
  BY <1>1, <1>2 DEF Init, TypeOK

\* What a thread that works on its block, or leaves its region, may rely on.
LEMMA OwnBlock ==
  ASSUME EInv, NEW t \in Thread, pc[t] \notin {"idle", "entry"}
  PROVE  block[t] \in Block /\ block[t] # Null
BY DEF EInv, BlocksOK, TypeOK

LEMMA GuardCounted ==
  ASSUME EInv, NEW t \in Thread, NEW g \in Counted(t)
  PROVE  /\ nested[t] \in Nat /\ nested[t] > 0 /\ nested[t] - 1 \in Nat
         /\ extends => regions[t] >= nested[t] /\ regions[t] - 1 \in Nat
         /\ block[t] \in Block /\ block[t] # Null
<1>1. TypeOK /\ CountOK(t)
  BY DEF EInv
<1>2. Counted(t) # {} /\ IsFiniteSet(Counted(t))
  BY <1>1 DEF CountOK
<1>3. Cardinality(Counted(t)) # 0 /\ Cardinality(Counted(t)) \in Nat
  BY <1>2, FS_EmptySet, FS_CardinalityType
<1>4. nested[t] \in Nat /\ nested[t] > 0
  BY <1>1, <1>3 DEF CountOK
<1>5. block[t] # Null
  BY <1>1, <1>4 DEF CountOK
<1> QED
  BY <1>1, <1>4, <1>5 DEF CountOK, TypeOK

LEMMA HeldCounted ==
  ASSUME EInv, NEW t \in Thread, NEW g \in GuardId,
         \/ ptr[t][g] # Null
         \/ gd[t] = g /\ pc[t] = "load"
  PROVE  g \in Counted(t)
BY DEF EInv, Counted, CallOK

PCSet == {"idle", "entry", "initLoad", "initStore", "enter", "set", "global", "scan",
          "scanEpoch", "advance", "adopt", "delete", "local", "load", "retire",
          "reset", "clear", "abandon", "release"}

LEMMA PCType ==
  ASSUME TypeOK, NEW t \in Thread, NEW x \in PCSet, pc' = [pc EXCEPT ![t] = x]
  PROVE  pc' \in [Thread -> PCSet]
BY DEF TypeOK, PCSet

LEMMA NestedExcept ==
  ASSUME NEW P, NEW Q, NEW S, NEW f \in [P -> [Q -> S]], NEW p \in P, NEW q \in Q, NEW x \in S
  PROVE  [f EXCEPT ![p][q] = x] \in [P -> [Q -> S]]
OBVIOUS

\* The value of a variable of the threads after a step of t
LEMMA Updated ==
  ASSUME NEW S, NEW f \in [Thread -> S], NEW g, NEW t \in Thread,
         g = f \/ \E x \in S : g = [f EXCEPT ![t] = x]
  PROVE  g \in [Thread -> S]
OBVIOUS

LEMMA TypeClient ==
  ASSUME EInv, NEW t \in Thread, ClientStep(t)
  PROVE  TypeOK'
<1> USE DEF Goto, nodes, shared, counts, own, guards, call, Call, Return
<1>0. TypeOK /\ CountOK(t)
  BY DEF EInv
<1>1. ASSUME NEW g \in GuardId, NEW c \in Cell, NEW o \in {"acquire", "if_equal"}, Acquire(t, g, c, o)
      PROVE  TypeOK'
  <2>1. First(t) \in {"entry", "enter"}
    BY DEF First
  <2>2. pc' = [pc EXCEPT ![t] = "load"] \/ pc' = [pc EXCEPT ![t] = First(t)]
    BY <1>1 DEF Acquire
  <2>3. iter' \in [Thread -> Seq(Block)]
    <3>1. FirstIter(t) => iter' \in [Thread -> Seq(Block)]
      BY <1>0 DEF FirstIter, TypeOK
    <3> QED
      BY <1>0, <1>1, <3>1 DEF Acquire, TypeOK
  <2>4. /\ op' \in [Thread -> {"none", "acquire", "if_equal", "copy", "region", "reclaim", "exit"}]
        /\ gd' \in [Thread -> GuardId \union {Null}] /\ src' \in [Thread -> Cell \union {Null}]
        /\ expected' \in [Thread -> Node \union {Null}]
    <3>1. cell[c] \in Node \union {Null}
      BY <1>0 DEF TypeOK
    <3>2. Call(t, o, g, c, IF o = "if_equal" THEN cell[c] ELSE Null)
      BY <1>1 DEF Acquire
    <3> QED
      BY <1>0, <3>1, <3>2 DEF TypeOK
  <2>5. UNCHANGED <<nodes, shared, block, local_epoch_idx, retire_lists, counts, guards, epoch, pending>>
    BY <1>1 DEF Acquire
  <2>6. pc' \in [Thread -> PCSet]
    BY <1>0, <2>1, <2>2, PCType DEF PCSet
  <2> QED
    BY <1>0, <2>3, <2>4, <2>5, <2>6 DEF TypeOK, PCSet
<1>2. ASSUME NEW g \in GuardId, NEW c \in Cell, Unlink(t, g, c) PROVE TypeOK'
  BY <1>0, <1>2 DEF Unlink, TypeOK
<1>3. ASSUME NEW f \in GuardId, NEW g \in GuardId, Copy(t, f, g) PROVE TypeOK'
  BY <1>0, <1>3 DEF Copy, TypeOK
<1>4. ASSUME NEW g \in GuardId, Reset(t, g) PROVE TypeOK'
  <2>1. nested[t] - 1 \in Nat /\ (extends => regions[t] - 1 \in Nat)
    BY <1>4, GuardCounted, HeldCounted DEF Reset
  <2> QED
    BY <1>0, <1>4, <2>1 DEF Reset, SetGuard, Leave, TypeOK
<1>5. ASSUME NEW c \in Cell, NEW n \in Node, Insert(t, c, n) PROVE TypeOK'
  BY <1>0, <1>5 DEF Insert, TypeOK
<1>6. ASSUME RegionGuard(t) PROVE TypeOK'
  <2>1. First(t) \in {"entry", "enter"}
    BY DEF First
  <2> QED
    BY <1>0, <1>6, <2>1 DEF RegionGuard, FirstIter, TypeOK
<1>7. ASSUME EndRegion(t) PROVE TypeOK'
  <2>1. extends => regions[t] - 1 \in Nat
    BY <1>0, <1>7 DEF EndRegion, CountOK, Region, TypeOK
  <2> QED
    BY <1>0, <1>7, <2>1 DEF EndRegion, TypeOK
<1>8. ASSUME Exit(t) PROVE TypeOK'
  BY <1>0, <1>8 DEF Exit, TypeOK
<1> QED
  BY <1>1, <1>2, <1>3, <1>4, <1>5, <1>6, <1>7, <1>8 DEF ClientStep

LEMMA TypeEnter ==
  ASSUME EInv, NEW t \in Thread, EnterStep(t)
  PROVE  TypeOK'
<1> USE DEF Goto, nodes, shared, counts, own, guards, call, Call, Return
<1>0. /\ TypeOK /\ IterOK(t) /\ CallOK(t)
      /\ \A e \in Nat : e % number_epochs \in EpochIdx
      /\ pc[t] \notin {"idle", "entry"} => block[t] \in Block
  BY OwnBlock, Indexes DEF EInv
<1>1. ASSUME AdoptEntry(t) PROVE TypeOK'
  <2>1. Head(iter[t]) \in Block /\ Tail(iter[t]) \in Seq(Block) /\ << >> \in Seq(Block)
    BY <1>0, <1>1, HeadTail, EmptySeq DEF AdoptEntry, TypeOK
  <2>2. /\ pc' \in [Thread -> PCSet] /\ state' \in [Block -> {"none", "free", "active"}]
        /\ iter' \in [Thread -> Seq(Block)] /\ block' \in [Thread -> Block \union {Null}]
    <3>1. \/ /\ pc' = [pc EXCEPT ![t] = "initLoad"]
             /\ state' = [state EXCEPT ![Head(iter[t])] = "active"]
             /\ block' = [block EXCEPT ![t] = Head(iter[t])]
             /\ iter' = [iter EXCEPT ![t] = << >>]
          \/ iter' = [iter EXCEPT ![t] = Tail(iter[t])] /\ UNCHANGED <<pc, state, block>>
      BY <1>0, <1>1 DEF AdoptEntry, TypeOK
    <3>2. CASE iter' = [iter EXCEPT ![t] = Tail(iter[t])] /\ UNCHANGED <<pc, state, block>>
      BY <1>0, <2>1, <3>2 DEF TypeOK, PCSet
    <3>3. CASE /\ pc' = [pc EXCEPT ![t] = "initLoad"]
               /\ state' = [state EXCEPT ![Head(iter[t])] = "active"]
               /\ block' = [block EXCEPT ![t] = Head(iter[t])]
               /\ iter' = [iter EXCEPT ![t] = << >>]
      BY <1>0, <2>1, <3>3 DEF TypeOK, PCSet
    <3> QED
      BY <3>1, <3>2, <3>3
  <2>3. UNCHANGED <<nodes, global_epoch, blocks, is_in_critical_region, local_epoch, orphans,
                    local_epoch_idx, retire_lists, counts, guards, call, epoch, pending>>
    BY <1>1 DEF AdoptEntry
  <2> QED
    BY <1>0, <2>2, <2>3 DEF TypeOK, PCSet
<1>2. ASSUME NEW b \in Block, AddEntry(t, b) PROVE TypeOK'
  BY <1>0, <1>2, ConsFacts DEF AddEntry, TypeOK
<1>3. ASSUME InitLoad(t) PROVE TypeOK'
  BY <1>0, <1>3 DEF InitLoad, TypeOK
<1>4. ASSUME InitStore(t) PROVE TypeOK'
  <2>1. << >> \in Seq(Block)
    OBVIOUS
  <2> QED
    BY <1>0, <1>4, <2>1 DEF InitStore, ResetScan, TypeOK
<1>5. ASSUME Enter(t) PROVE TypeOK'
  <2>1. \E x \in {"set", "global", "load", "idle"} : pc' = [pc EXCEPT ![t] = x]
    BY <1>5 DEF Enter
  <2>2. pc' \in [Thread -> PCSet]
    BY <1>0, <2>1, PCType DEF PCSet
  <2>3. nested' \in [Thread -> Nat] /\ regions' \in [Thread -> Nat]
    BY <1>0, <1>5 DEF Enter, TypeOK
  <2>4. UNCHANGED <<guarded, call>> \/ (guarded' = [guarded EXCEPT ![t] = TRUE] /\ Return(t))
    BY <1>5 DEF Enter
  <2>5. /\ guarded' \in [Thread -> BOOLEAN]
        /\ op' \in [Thread -> {"none", "acquire", "if_equal", "copy", "region", "reclaim", "exit"}]
        /\ gd' \in [Thread -> GuardId \union {Null}] /\ src' \in [Thread -> Cell \union {Null}]
        /\ expected' \in [Thread -> Node \union {Null}]
    BY <1>0, <2>4 DEF TypeOK
  <2>6. UNCHANGED <<nodes, shared, block, local_epoch_idx, retire_lists, entries, iter, ptr, epoch, pending>>
    BY <1>5 DEF Enter
  <2> QED
    BY <1>0, <2>2, <2>3, <2>5, <2>6 DEF TypeOK, PCSet
<1>6. ASSUME SetFlag(t) PROVE TypeOK'
  BY <1>0, <1>6 DEF SetFlag, TypeOK
<1>7. ASSUME LoadGlobal(t) PROVE TypeOK'
  <2>1. /\ pc' \in [Thread -> PCSet] /\ entries' \in [Thread -> Nat]
        /\ iter' \in [Thread -> Seq(Block)] /\ epoch' \in [Thread -> Nat]
    <3>1. \E x \in {"local", "scan", "load"} : pc' = [pc EXCEPT ![t] = x]
      BY <1>7 DEF LoadGlobal
    <3>2. pc' \in [Thread -> PCSet]
      BY <1>0, <3>1, PCType DEF PCSet
    <3>3. entries' \in [Thread -> Nat]
      <4>1. entries[t] \in Nat
        BY <1>0 DEF TypeOK
      <4>2. \E x \in Nat : entries' = [entries EXCEPT ![t] = x]
        BY <1>7, <4>1 DEF LoadGlobal
      <4> QED
        BY <1>0, <4>2 DEF TypeOK
    <3>4. iter' \in [Thread -> Seq(Block)]
      <4>1. iter' = iter \/ iter' = [iter EXCEPT ![t] = blocks] \/ iter' = [iter EXCEPT ![t] = iter[t]]
        BY <1>7 DEF LoadGlobal
      <4>2. iter \in [Thread -> Seq(Block)] /\ blocks \in Seq(Block) /\ iter[t] \in Seq(Block)
        BY <1>0 DEF TypeOK
      <4> QED
        BY <4>1, <4>2, Updated
    <3>5. epoch' \in [Thread -> Nat]
      BY <1>0, <1>7 DEF LoadGlobal, TypeOK
    <3> QED
      BY <3>2, <3>3, <3>4, <3>5
  <2>2. UNCHANGED <<nodes, shared, block, local_epoch_idx, retire_lists, nested, regions, guards, call, pending>>
    BY <1>7 DEF LoadGlobal
  <2> QED
    BY <1>0, <2>1, <2>2 DEF TypeOK, PCSet
<1>8. ASSUME ScanFlag(t) PROVE TypeOK'
  <2>1. iter[t] # << >> /\ << >> \in Seq(Block)
    BY <1>0, <1>8, EmptySeq DEF ScanFlag, IterOK
  <2>2. \E x \in {"advance", "scan", "load", "scanEpoch"} : pc' = [pc EXCEPT ![t] = x]
    BY <1>8 DEF ScanFlag, NextThread
  <2>3. pc' \in [Thread -> PCSet]
    BY <1>0, <2>2, PCType DEF PCSet
  <2>4. iter' \in [Thread -> Seq(Block)]
    <3>1. Tail(iter[t]) \in Seq(Block)
      BY <1>0, <2>1, HeadTail DEF TypeOK
    <3>2. iter' = iter \/ iter' = [iter EXCEPT ![t] = Tail(iter[t])]
      BY <1>8 DEF ScanFlag, NextThread
    <3>3. iter \in [Thread -> Seq(Block)] /\ iter[t] \in Seq(Block)
      BY <1>0 DEF TypeOK
    <3> QED
      BY <2>1, <3>1, <3>2, <3>3, Updated
  <2>5. UNCHANGED <<nodes, shared, block, local_epoch_idx, retire_lists, counts, guards, call, epoch, pending>>
    BY <1>8 DEF ScanFlag
  <2> QED
    BY <1>0, <2>3, <2>4, <2>5 DEF TypeOK, PCSet
<1>9. ASSUME ScanEpoch(t) PROVE TypeOK'
  <2>1. iter[t] # << >> /\ << >> \in Seq(Block)
    BY <1>0, <1>9, EmptySeq DEF ScanEpoch, IterOK
  <2>2. \E x \in {"advance", "scan", "load", "scanEpoch"} : pc' = [pc EXCEPT ![t] = x]
    BY <1>9 DEF ScanEpoch, NextThread
  <2>3. pc' \in [Thread -> PCSet]
    BY <1>0, <2>2, PCType DEF PCSet
  <2>4. iter' \in [Thread -> Seq(Block)]
    <3>1. Tail(iter[t]) \in Seq(Block)
      BY <1>0, <2>1, HeadTail DEF TypeOK
    <3>2. iter' = iter \/ iter' = [iter EXCEPT ![t] = Tail(iter[t])]
          \/ iter' = [iter EXCEPT ![t] = << >>] \/ iter' = [iter EXCEPT ![t] = iter[t]]
      BY <1>9 DEF ScanEpoch, NextThread
    <3>3. iter \in [Thread -> Seq(Block)] /\ iter[t] \in Seq(Block)
      BY <1>0 DEF TypeOK
    <3> QED
      BY <2>1, <3>1, <3>2, <3>3, Updated
  <2>5. UNCHANGED <<nodes, shared, block, local_epoch_idx, retire_lists, counts, guards, call, epoch, pending>>
    BY <1>9 DEF ScanEpoch
  <2> QED
    BY <1>0, <2>3, <2>4, <2>5 DEF TypeOK, PCSet
<1>10. ASSUME Advance(t) PROVE TypeOK'
  <2>1. \E x \in {"adopt", "local"} : pc' = [pc EXCEPT ![t] = x]
    BY <1>10 DEF Advance
  <2>2. pc' \in [Thread -> PCSet]
    BY <1>0, <2>1, PCType DEF PCSet
  <2>3. global_epoch' \in Nat /\ epoch' \in [Thread -> Nat]
    BY <1>0, <1>10 DEF Advance, TypeOK
  <2>4. UNCHANGED <<nodes, blocks, state, is_in_critical_region, local_epoch, orphans, own, guards,
                    call, pending>>
    BY <1>10 DEF Advance
  <2> QED
    BY <1>0, <2>2, <2>3, <2>4 DEF TypeOK, PCSet
<1>11. ASSUME Adopt(t) PROVE TypeOK'
  BY <1>0, <1>11 DEF Adopt, AdoptWith, TypeOK
<1>12. ASSUME StoreLocal(t) PROVE TypeOK'
  BY <1>0, <1>12 DEF StoreLocal, StoreLocalWith, TypeOK
<1>13. ASSUME NEW n \in Node, DeleteNode(t, n) PROVE TypeOK'
  BY <1>0, <1>13 DEF DeleteNode, TypeOK
<1>14. ASSUME Deleted(t) PROVE TypeOK'
  <2>1. \E x \in {"load", "local"} : pc' = [pc EXCEPT ![t] = x]
    BY <1>14 DEF Deleted
  <2>2. pc' \in [Thread -> PCSet]
    BY <1>0, <2>1, PCType DEF PCSet
  <2>3. << >> \in Seq(Block) /\ epoch[t] % number_epochs \in EpochIdx
    BY <1>0, EmptySeq DEF TypeOK
  <2>4. iter' \in [Thread -> Seq(Block)] /\ local_epoch_idx' \in [Thread -> EpochIdx]
    <3>1. \/ UNCHANGED <<local_epoch_idx, iter>>
          \/ /\ local_epoch_idx' = [local_epoch_idx EXCEPT ![t] = epoch[t] % number_epochs]
             /\ iter' = [iter EXCEPT ![t] = blocks] \/ iter' = [iter EXCEPT ![t] = << >>]
      BY <1>14 DEF Deleted, ResetScan
    <3>2. /\ iter \in [Thread -> Seq(Block)] /\ blocks \in Seq(Block)
          /\ local_epoch_idx \in [Thread -> EpochIdx]
      BY <1>0 DEF TypeOK
    <3>3. iter' \in [Thread -> Seq(Block)]
      BY <2>3, <3>1, <3>2, Updated
    <3> QED
      BY <2>3, <3>1, <3>2, <3>3
  <2>5. UNCHANGED <<nodes, shared, block, retire_lists, counts, guards, call, epoch, pending>>
    BY <1>14 DEF Deleted
  <2> QED
    BY <1>0, <2>2, <2>4, <2>5 DEF TypeOK, PCSet
<1>15. ASSUME Load(t) PROVE TypeOK'
  <2>1. gd[t] \in GuardId /\ (op[t] # "copy" => src[t] \in Cell)
    <3>1. pc[t] = "load"
      BY <1>15 DEF Load
    <3>2. op[t] \in {"acquire", "if_equal", "copy"}
      BY <1>0, <3>1 DEF CallOK, AcquirePC
    <3> QED
      BY <1>0, <3>2 DEF CallOK
  <2>2. nested[t] - 1 \in Nat /\ (extends => regions[t] - 1 \in Nat)
    BY <1>15, <2>1, GuardCounted, HeldCounted DEF Load
  <2>3. (IF op[t] = "copy" THEN expected[t] ELSE cell[src[t]]) \in Node \union {Null}
    BY <1>0, <2>1 DEF TypeOK
  <2>4. \E n \in Node \union {Null} : SetGuard(t, gd[t], n)
    BY <1>15, <2>3 DEF Load
  <2>5. /\ ptr' \in [Thread -> [GuardId -> Node \union {Null}]]
        /\ pinned' \in SUBSET (Thread \X GuardId)
    BY <1>0, <2>1, <2>4 DEF SetGuard, TypeOK
  <2>6. nested' \in [Thread -> Nat] /\ regions' \in [Thread -> Nat]
    <3>1. \/ UNCHANGED <<nested, regions>>
          \/ /\ nested' = [nested EXCEPT ![t] = nested[t] - 1]
             /\ \E x \in Nat : regions' = [regions EXCEPT ![t] = x]
      <4>1. regions[t] \in Nat
        BY <1>0 DEF TypeOK
      <4> QED
        BY <1>15, <2>2, <4>1 DEF Load, Leave
    <3>2. nested \in [Thread -> Nat] /\ regions \in [Thread -> Nat]
      BY <1>0 DEF TypeOK
    <3> QED
      BY <2>2, <3>1, <3>2
  <2>7. \E x \in {"idle", "clear"} : pc' = [pc EXCEPT ![t] = x]
    BY <1>15 DEF Load, Leave
  <2>8. /\ UNCHANGED <<cell, status, policy, shared, block, local_epoch_idx, retire_lists, entries,
                       iter, guarded, pending>>
        /\ epoch' = [epoch EXCEPT ![t] = 0] /\ Return(t)
    BY <1>15 DEF Load
  <2>9. pc' \in [Thread -> PCSet]
    BY <1>0, <2>7, PCType DEF PCSet
  <2> QED
    BY <1>0, <2>5, <2>6, <2>8, <2>9 DEF TypeOK, PCSet
<1> QED
  BY <1>1, <1>2, <1>3, <1>4, <1>5, <1>6, <1>7, <1>8, <1>9, <1>10, <1>11, <1>12, <1>13, <1>14, <1>15
     DEF EnterStep

LEMMA TypeLeave ==
  ASSUME EInv, NEW t \in Thread, LeaveStep(t)
  PROVE  TypeOK'
<1> USE DEF Goto, nodes, shared, counts, own, guards, call, Call, Return
<1>0. /\ TypeOK /\ CallOK(t) /\ EmptyOK(t)
      /\ pc[t] \notin {"idle", "entry"} => block[t] \in Block
  BY OwnBlock DEF EInv
<1>1. ASSUME Retire(t) PROVE TypeOK'
  <2>1. gd[t] \in GuardId /\ ptr[t][gd[t]] \in Node
    BY <1>0, <1>1 DEF Retire, CallOK
  <2> QED
    BY <1>0, <1>1, <2>1 DEF Retire, TypeOK
<1>2. ASSUME ReclaimReset(t) PROVE TypeOK'
  <2>1. gd[t] \in GuardId /\ ptr[t][gd[t]] # Null
    BY <1>0, <1>2, EBNullAssumption DEF ReclaimReset, CallOK
  <2>2. nested[t] - 1 \in Nat /\ (extends => regions[t] - 1 \in Nat)
    BY <2>1, GuardCounted, HeldCounted
  <2> QED
    BY <1>0, <1>2, <2>1, <2>2 DEF ReclaimReset, SetGuard, Leave, TypeOK
<1>3. ASSUME ClearFlag(t) PROVE TypeOK'
  BY <1>0, <1>3 DEF ClearFlag, TypeOK
<1>4. ASSUME Abandon(t) PROVE TypeOK'
  <2>1. Min({j \in EpochIdx : retire_lists[t][j] # {}}) \in EpochIdx
    BY <1>0, <1>4, MinIndex DEF Abandon, EmptyOK, HasNodes
  <2>2. \E x \in {"abandon", "release", "idle"} : pc' = [pc EXCEPT ![t] = x]
    BY <1>4 DEF Abandon
  <2>3. pc' \in [Thread -> PCSet]
    BY <1>0, <2>2, PCType DEF PCSet
  <2>4. /\ orphans' \in [EpochIdx -> SUBSET Node]
        /\ retire_lists' \in [Thread -> [EpochIdx -> SUBSET Node]]
    <3>1. PICK i \in EpochIdx : /\ orphans' = [orphans EXCEPT ![i] = orphans[i] \union retire_lists[t][i]]
                                /\ retire_lists' = [retire_lists EXCEPT ![t][i] = {}]
      BY <1>4, <2>1 DEF Abandon
    <3>2. retire_lists[t][i] \in SUBSET Node /\ orphans[i] \in SUBSET Node
      BY <1>0 DEF TypeOK
    <3>3. orphans[i] \union retire_lists[t][i] \in SUBSET Node
      BY <3>2
    <3>4. orphans' \in [EpochIdx -> SUBSET Node]
      BY <1>0, <3>1, <3>3 DEF TypeOK
    <3>5. retire_lists' \in [Thread -> [EpochIdx -> SUBSET Node]]
      BY <1>0, <3>1, NestedExcept DEF TypeOK
    <3> QED
      BY <3>4, <3>5
  <2>5. UNCHANGED <<nodes, global_epoch, blocks, state, is_in_critical_region, local_epoch,
                    block, local_epoch_idx, counts, iter, guards, call, epoch, pending>>
    BY <1>4 DEF Abandon
  <2> QED
    BY <1>0, <2>3, <2>4, <2>5 DEF TypeOK, PCSet
<1>5. ASSUME Release(t) PROVE TypeOK'
  <2>1. << >> \in Seq(Block) /\ 0 \in EpochIdx
    BY Indexes
  <2> QED
    BY <1>0, <1>5, <2>1 DEF Release, TypeOK
<1> QED
  BY <1>1, <1>2, <1>3, <1>4, <1>5 DEF LeaveStep

-----------------------------------------------------------------------------
(* What a step of t leaves alone                                           *)

Untouched(u) ==
    /\ pc'[u] = pc[u] /\ op'[u] = op[u] /\ gd'[u] = gd[u] /\ src'[u] = src[u]
    /\ expected'[u] = expected[u] /\ epoch'[u] = epoch[u] /\ pending'[u] = pending[u] /\ block'[u] = block[u]
    /\ local_epoch_idx'[u] = local_epoch_idx[u] /\ retire_lists'[u] = retire_lists[u] /\ nested'[u] = nested[u] /\ regions'[u] = regions[u]
    /\ entries'[u] = entries[u] /\ iter'[u] = iter[u] /\ ptr'[u] = ptr[u] /\ guarded'[u] = guarded[u]

LEMMA ClientSame ==
  ASSUME TypeOK, NEW t \in Thread, ClientStep(t), NEW u \in Thread \ {t}
  PROVE  Untouched(u) /\ policy' = policy
<1> USE DEF Goto, nodes, shared, counts, own, guards, call, Call, Return, Untouched
<1>1. ASSUME NEW g \in GuardId, NEW c \in Cell, NEW o \in {"acquire", "if_equal"}, Acquire(t, g, c, o) PROVE Untouched(u) /\ policy' = policy
  BY <1>1 DEF Acquire, FirstIter, TypeOK
<1>2. ASSUME NEW g \in GuardId, NEW c \in Cell, Unlink(t, g, c) PROVE Untouched(u) /\ policy' = policy
  BY <1>2 DEF Unlink, TypeOK
<1>3. ASSUME NEW f \in GuardId, NEW g \in GuardId, Copy(t, f, g) PROVE Untouched(u) /\ policy' = policy
  BY <1>3 DEF Copy, TypeOK
<1>4. ASSUME NEW g \in GuardId, Reset(t, g) PROVE Untouched(u) /\ policy' = policy
  BY <1>4 DEF Reset, SetGuard, Leave, TypeOK
<1>5. ASSUME NEW c \in Cell, NEW n \in Node, Insert(t, c, n) PROVE Untouched(u) /\ policy' = policy
  BY <1>5 DEF Insert, TypeOK
<1>6. ASSUME RegionGuard(t) PROVE Untouched(u) /\ policy' = policy
  BY <1>6 DEF RegionGuard, FirstIter, TypeOK
<1>7. ASSUME EndRegion(t) PROVE Untouched(u) /\ policy' = policy
  BY <1>7 DEF EndRegion, TypeOK
<1>8. ASSUME Exit(t) PROVE Untouched(u) /\ policy' = policy
  BY <1>8 DEF Exit, TypeOK
<1> QED
  BY <1>1, <1>2, <1>3, <1>4, <1>5, <1>6, <1>7, <1>8
     DEF ClientStep

LEMMA EnterSame ==
  ASSUME TypeOK, NEW t \in Thread, EnterStep(t), NEW u \in Thread \ {t}
  PROVE  Untouched(u) /\ policy' = policy
<1> USE DEF Goto, nodes, shared, counts, own, guards, call, Call, Return, Untouched
<1>1. ASSUME AdoptEntry(t) PROVE Untouched(u) /\ policy' = policy
  BY <1>1 DEF AdoptEntry, TypeOK
<1>2. ASSUME NEW b \in Block, AddEntry(t, b) PROVE Untouched(u) /\ policy' = policy
  BY <1>2 DEF AddEntry, TypeOK
<1>3. ASSUME InitLoad(t) PROVE Untouched(u) /\ policy' = policy
  BY <1>3 DEF InitLoad, TypeOK
<1>4. ASSUME InitStore(t) PROVE Untouched(u) /\ policy' = policy
  BY <1>4 DEF InitStore, ResetScan, TypeOK
<1>5. ASSUME Enter(t) PROVE Untouched(u) /\ policy' = policy
  BY <1>5 DEF Enter, TypeOK
<1>6. ASSUME SetFlag(t) PROVE Untouched(u) /\ policy' = policy
  BY <1>6 DEF SetFlag, TypeOK
<1>7. ASSUME LoadGlobal(t) PROVE Untouched(u) /\ policy' = policy
  BY <1>7 DEF LoadGlobal, TypeOK
<1>8. ASSUME ScanFlag(t) PROVE Untouched(u) /\ policy' = policy
  BY <1>8 DEF ScanFlag, NextThread, TypeOK
<1>9. ASSUME ScanEpoch(t) PROVE Untouched(u) /\ policy' = policy
  BY <1>9 DEF ScanEpoch, NextThread, TypeOK
<1>10. ASSUME Advance(t) PROVE Untouched(u) /\ policy' = policy
  BY <1>10 DEF Advance, TypeOK
<1>11. ASSUME Adopt(t) PROVE Untouched(u) /\ policy' = policy
  BY <1>11 DEF Adopt, AdoptWith, TypeOK
<1>12. ASSUME StoreLocal(t) PROVE Untouched(u) /\ policy' = policy
  BY <1>12 DEF StoreLocal, StoreLocalWith, TypeOK
<1>13. ASSUME NEW n \in Node, DeleteNode(t, n) PROVE Untouched(u) /\ policy' = policy
  BY <1>13 DEF DeleteNode, TypeOK
<1>14. ASSUME Deleted(t) PROVE Untouched(u) /\ policy' = policy
  BY <1>14 DEF Deleted, ResetScan, TypeOK
<1>15. ASSUME Load(t) PROVE Untouched(u) /\ policy' = policy
  BY <1>15 DEF Load, SetGuard, Leave, TypeOK
<1> QED
  BY <1>1, <1>2, <1>3, <1>4, <1>5, <1>6, <1>7, <1>8, <1>9, <1>10, <1>11, <1>12, <1>13, <1>14, <1>15
     DEF EnterStep

LEMMA LeaveSame ==
  ASSUME TypeOK, NEW t \in Thread, LeaveStep(t), NEW u \in Thread \ {t}
  PROVE  Untouched(u) /\ policy' = policy
<1> USE DEF Goto, nodes, shared, counts, own, guards, call, Call, Return, Untouched
<1>1. ASSUME Retire(t) PROVE Untouched(u) /\ policy' = policy
  BY <1>1 DEF Retire, TypeOK
<1>2. ASSUME ReclaimReset(t) PROVE Untouched(u) /\ policy' = policy
  BY <1>2 DEF ReclaimReset, SetGuard, Leave, TypeOK
<1>3. ASSUME ClearFlag(t) PROVE Untouched(u) /\ policy' = policy
  BY <1>3 DEF ClearFlag, TypeOK
<1>4. ASSUME Abandon(t) PROVE Untouched(u) /\ policy' = policy
  BY <1>4 DEF Abandon, TypeOK
<1>5. ASSUME Release(t) PROVE Untouched(u) /\ policy' = policy
  BY <1>5 DEF Release, TypeOK
<1> QED
  BY <1>1, <1>2, <1>3, <1>4, <1>5
     DEF LeaveStep

LEMMA OthersSame ==
  ASSUME TypeOK, NEW t \in Thread, Step(t)
  PROVE  (\A u \in Thread \ {t} : Untouched(u)) /\ policy' = policy
<1>1. ASSUME NEW u \in Thread \ {t} PROVE Untouched(u) /\ policy' = policy
  BY ClientSame, EnterSame, LeaveSame DEF Step
<1>2. policy' = policy
  BY DEF Step, ClientStep, EnterStep, LeaveStep, Acquire, Unlink, Copy, Reset, Insert, RegionGuard,
         EndRegion, Exit, AdoptEntry, AddEntry, InitLoad, InitStore, Enter, SetFlag, LoadGlobal,
         ScanFlag, ScanEpoch, Advance, Adopt, AdoptWith, StoreLocal, StoreLocalWith, DeleteNode,
         Deleted, Load, Retire, ReclaimReset, ClearFlag, Abandon, Release, nodes
<1> QED
  BY <1>1, <1>2

-----------------------------------------------------------------------------
(* Control blocks                                                          *)

LEMMA BlocksKept ==
  ASSUME EInv, NEW t \in Thread, Step(t), UNCHANGED <<block, blocks, state>>,
         \/ iter'[t] \in {iter[t], blocks, << >>}
         \/ iter[t] # << >> /\ iter'[t] = Tail(iter[t]),
         pc'[t] = "entry" => block[t] = Null,
         pc'[t] \notin {"idle", "entry"} => block[t] # Null
  PROVE  \A u \in Thread : BlocksOK(u)'
<1>0. TypeOK /\ \A u \in Thread : BlocksOK(u)
  BY DEF EInv
<1>1. (\A k \in 1..Len(iter[t]) : InBlocks(iter[t][k]))'
  <2>1. iter[t] \in Seq(Block) /\ blocks \in Seq(Block)
    BY <1>0 DEF TypeOK
  <2>2. \A k \in 1..Len(iter'[t]) : \E m \in 1..Len(blocks) : blocks[m] = iter'[t][k]
    <3>1. CASE iter'[t] = iter[t]
      BY <1>0, <3>1 DEF BlocksOK, InBlocks
    <3>2. CASE iter'[t] = blocks
      BY <3>2
    <3>3. CASE iter'[t] = << >>
      BY <3>3
    <3>4. CASE iter[t] # << >> /\ iter'[t] = Tail(iter[t])
      <4>1. \A k \in 1..Len(Tail(iter[t])) : k + 1 \in 1..Len(iter[t]) /\ Tail(iter[t])[k] = iter[t][k + 1]
        BY <2>1, <3>4, HeadTail
      <4> QED
        BY <1>0, <3>4, <4>1 DEF BlocksOK, InBlocks
    <3> QED
      BY <3>1, <3>2, <3>3, <3>4
  <2> QED
    BY <2>2 DEF InBlocks
<1>2. BlocksOK(t)'
  BY <1>0, <1>1 DEF BlocksOK, InBlocks
<1>3. ASSUME NEW u \in Thread \ {t} PROVE BlocksOK(u)'
  BY <1>0, OthersSame DEF BlocksOK, InBlocks, Untouched
<1> QED
  BY <1>2, <1>3

LEMMA BlocksClient ==
  ASSUME EInv, NEW t \in Thread, ClientStep(t)
  PROVE  \A u \in Thread : BlocksOK(u)'
<1> USE DEF Goto, nodes, shared, counts, own, guards, call, Call, Return
<1>0. TypeOK /\ BlocksOK(t) /\ CountOK(t) /\ Step(t)
  BY DEF EInv, Step
<1>1. \A g \in GuardId : ptr[t][g] # Null => block[t] # Null
  BY GuardCounted, HeldCounted
<1>2. guarded[t] => block[t] # Null
  BY <1>0 DEF CountOK
<1>3. UNCHANGED <<block, blocks, state>>
  BY DEF ClientStep, Acquire, Unlink, Copy, Reset, Insert, RegionGuard, EndRegion, Exit
<1>4. iter'[t] \in {iter[t], blocks}
  BY <1>0 DEF ClientStep, Acquire, Unlink, Copy, Reset, Insert, RegionGuard, EndRegion, Exit, FirstIter, TypeOK
<1>5. /\ pc'[t] = "entry" => block[t] = Null
      /\ pc'[t] \notin {"idle", "entry"} => block[t] # Null
  <2>1. \/ pc'[t] = First(t)
        \/ pc'[t] = "idle"
        \/ \E g \in GuardId : ptr[t][g] # Null /\ pc'[t] # "entry"
        \/ guarded[t] /\ pc'[t] # "entry"
        \/ block[t] # Null /\ pc'[t] # "entry"
    <3>1. ASSUME NEW g \in GuardId, NEW c \in Cell, NEW o \in {"acquire", "if_equal"}, Acquire(t, g, c, o)
          PROVE  pc'[t] = First(t) \/ (ptr[t][g] # Null /\ pc'[t] # "entry")
      BY <1>0, <3>1 DEF Acquire, TypeOK
    <3>2. ASSUME NEW g \in GuardId, NEW c \in Cell, Unlink(t, g, c)
          PROVE  ptr[t][g] # Null /\ pc'[t] # "entry"
      BY <1>0, <3>2 DEF Unlink, TypeOK
    <3>3. ASSUME NEW f \in GuardId, NEW g \in GuardId, Copy(t, f, g)
          PROVE  ptr[t][f] # Null /\ pc'[t] # "entry"
      BY <1>0, <3>3 DEF Copy, TypeOK
    <3>4. ASSUME NEW g \in GuardId, Reset(t, g) PROVE ptr[t][g] # Null /\ pc'[t] # "entry"
      BY <1>0, <3>4 DEF Reset, Leave, TypeOK
    <3>5. ASSUME NEW c \in Cell, NEW n \in Node, Insert(t, c, n) PROVE pc'[t] = "idle"
      BY <1>0, <3>5 DEF Insert, TypeOK
    <3>6. ASSUME RegionGuard(t) PROVE pc'[t] = First(t)
      BY <1>0, <3>6 DEF RegionGuard, TypeOK
    <3>7. ASSUME EndRegion(t) PROVE guarded[t] /\ pc'[t] # "entry"
      BY <1>0, <3>7 DEF EndRegion, TypeOK
    <3>8. ASSUME Exit(t) PROVE block[t] # Null /\ pc'[t] # "entry"
      BY <1>0, <3>8 DEF Exit, TypeOK
    <3> QED
      BY <3>1, <3>2, <3>3, <3>4, <3>5, <3>6, <3>7, <3>8 DEF ClientStep
  <2> QED
    BY <1>1, <1>2, <2>1 DEF First
<1> QED
  BY <1>0, <1>3, <1>4, <1>5, BlocksKept

\* The steps that leave the control blocks with their owners.
BlockChange(t) == AdoptEntry(t) \/ (\E b \in Block : AddEntry(t, b)) \/ Release(t)

LEMMA BlockStays ==
  ASSUME TypeOK, NEW t \in Thread, Step(t), ~BlockChange(t)
  PROVE  UNCHANGED <<block, blocks, state>>
BY DEF Step, BlockChange, ClientStep, EnterStep, LeaveStep, Acquire, Unlink, Copy, Reset, Insert,
       RegionGuard, EndRegion, Exit, InitLoad, InitStore, Enter, SetFlag, LoadGlobal, ScanFlag,
       ScanEpoch, Advance, Adopt, AdoptWith, StoreLocal, StoreLocalWith, DeleteNode, Deleted, Load,
       Retire, ReclaimReset, ClearFlag, Abandon, shared, own

LEMMA BlocksOther ==
  ASSUME EInv, NEW t \in Thread, EnterStep(t) \/ LeaveStep(t), ~BlockChange(t)
  PROVE  \A u \in Thread : BlocksOK(u)'
<1> USE DEF Goto, nodes, shared, counts, own, guards, call, Call, Return
<1>0. TypeOK /\ BlocksOK(t) /\ IterOK(t) /\ Step(t)
  BY DEF EInv, Step
<1>1. UNCHANGED <<block, blocks, state>>
  BY <1>0, BlockStays
<1>2. pc[t] \notin {"idle", "entry"} /\ pc'[t] # "entry"
  <2>1. pc[t] \notin {"idle", "entry"}
    BY DEF EnterStep, LeaveStep, BlockChange, InitLoad, InitStore, Enter, SetFlag, LoadGlobal, ScanFlag,
         ScanEpoch, Advance, Adopt, AdoptWith, StoreLocal, StoreLocalWith, DeleteNode, Deleted, Load,
         Retire, ReclaimReset, ClearFlag, Abandon
  <2>2. pc' = pc \/ \E x \in PCSet \ {"entry"} : pc' = [pc EXCEPT ![t] = x]
    BY DEF EnterStep, LeaveStep, BlockChange, InitLoad, InitStore, Enter, SetFlag, LoadGlobal, ScanFlag,
         ScanEpoch, NextThread, Advance, Adopt, AdoptWith, StoreLocal, StoreLocalWith, DeleteNode, Deleted,
         Load, Leave, Retire, ReclaimReset, ClearFlag, Abandon, PCSet
  <2>3. pc'[t] # "entry"
    BY <1>0, <2>1, <2>2 DEF TypeOK
  <2> QED
    BY <2>1, <2>3
<1>3. block[t] # Null
  BY <1>0, <1>2 DEF BlocksOK
<1>4. \/ iter'[t] \in {iter[t], blocks, << >>}
      \/ iter[t] # << >> /\ iter'[t] = Tail(iter[t])
  <2>1. ASSUME InitStore(t) \/ Deleted(t) PROVE iter'[t] \in {iter[t], blocks, << >>}
    BY <1>0, <2>1 DEF InitStore, Deleted, ResetScan, TypeOK
  <2>2. ASSUME LoadGlobal(t) PROVE iter'[t] \in {iter[t], blocks}
    BY <1>0, <2>2 DEF LoadGlobal, TypeOK
  <2>3. ASSUME ScanFlag(t) \/ ScanEpoch(t)
        PROVE  iter'[t] \in {iter[t], << >>} \/ (iter[t] # << >> /\ iter'[t] = Tail(iter[t]))
    BY <1>0, <2>3 DEF ScanFlag, ScanEpoch, NextThread, IterOK, TypeOK
  <2>4. ASSUME ~(InitStore(t) \/ Deleted(t) \/ LoadGlobal(t) \/ ScanFlag(t) \/ ScanEpoch(t))
        PROVE  iter'[t] = iter[t]
    BY <1>0, <2>4 DEF EnterStep, LeaveStep, BlockChange, InitLoad, Enter, SetFlag, Advance, Adopt,
       AdoptWith, StoreLocal, StoreLocalWith, DeleteNode, Load, Retire, ReclaimReset, ClearFlag, Abandon
  <2> QED
    BY <2>1, <2>2, <2>3, <2>4
<1> QED
  BY <1>0, <1>1, <1>2, <1>3, <1>4, BlocksKept

LEMMA BlocksChange ==
  ASSUME EInv, NEW t \in Thread, BlockChange(t)
  PROVE  \A u \in Thread : BlocksOK(u)'
<1> USE DEF Goto, nodes, shared, counts, own, guards, call, Call, Return
<1>0. TypeOK /\ (\A u \in Thread : BlocksOK(u)) /\ Step(t)
  BY DEF EInv, Step, BlockChange, EnterStep, LeaveStep
<1>1. ASSUME AdoptEntry(t) PROVE \A u \in Thread : BlocksOK(u)'
  <2>1. iter[t] \in Seq(Block) /\ iter[t] # << >> /\ blocks' = blocks /\ block[t] = Null
    BY <1>0, <1>1 DEF AdoptEntry, BlocksOK, TypeOK
  <2>2. Head(iter[t]) \in Block /\ InBlocks(Head(iter[t])) /\ Head(iter[t]) # Null
    BY <1>0, <2>1, HeadTail, EBNullAssumption DEF BlocksOK
  <2>3. CASE state[Head(iter[t])] = "free"
    <3>1. /\ pc' = [pc EXCEPT ![t] = "initLoad"]
          /\ state' = [state EXCEPT ![Head(iter[t])] = "active"]
          /\ block' = [block EXCEPT ![t] = Head(iter[t])]
          /\ iter' = [iter EXCEPT ![t] = << >>]
      BY <1>1, <2>3 DEF AdoptEntry
    <3>2. \A u \in Thread : block[u] # Head(iter[t])
      BY <1>0, <2>2, <2>3 DEF BlocksOK
    <3>3. BlocksOK(t)'
      <4>1. block'[t] = Head(iter[t]) /\ pc'[t] = "initLoad" /\ iter'[t] = << >>
            /\ state'[Head(iter[t])] = "active"
        BY <1>0, <2>2, <3>1 DEF TypeOK
      <4>2. \A u \in Thread : block'[u] = Head(iter[t]) => u = t
        BY <1>0, <3>1, <3>2 DEF TypeOK
      <4>3. (\A k \in 1..Len(iter[t]) : InBlocks(iter[t][k]))'
        BY <4>1
      <4>4. InBlocks(block[t])'
        BY <2>1, <2>2, <4>1 DEF InBlocks
      <4> QED
        BY <2>2, <4>1, <4>2, <4>3, <4>4 DEF BlocksOK, InBlocks
    <3>4. ASSUME NEW u \in Thread \ {t} PROVE BlocksOK(u)'
      <4>1. Untouched(u) /\ BlocksOK(u)
        BY <1>0, OthersSame
      <4>2. block[u] # Null => state'[block[u]] = "active"
        BY <1>0, <3>1, <4>1 DEF BlocksOK, TypeOK
      <4>3. block'[t] # block[u]
        BY <1>0, <3>1, <3>2 DEF TypeOK
      <4>4. \A v \in Thread \ {t} : block'[v] = block[v]
        BY <1>0, <3>1 DEF TypeOK
      <4> QED
        BY <2>1, <4>1, <4>2, <4>3, <4>4 DEF BlocksOK, InBlocks, Untouched
    <3> QED
      BY <3>3, <3>4
  <2>4. CASE state[Head(iter[t])] # "free"
    <3>1. iter' = [iter EXCEPT ![t] = Tail(iter[t])] /\ UNCHANGED <<pc, state, block>>
      BY <1>1, <2>4 DEF AdoptEntry
    <3>2. iter'[t] = Tail(iter[t]) /\ pc[t] = "entry"
      BY <1>0, <1>1, <3>1 DEF AdoptEntry, TypeOK
    <3> QED
      BY <1>0, <2>1, <3>1, <3>2, BlocksKept
  <2> QED
    BY <2>3, <2>4
<1>2. ASSUME NEW b \in Block, AddEntry(t, b) PROVE \A u \in Thread : BlocksOK(u)'
  <2>1. /\ pc' = [pc EXCEPT ![t] = "initLoad"] /\ state' = [state EXCEPT ![b] = "active"]
        /\ block' = [block EXCEPT ![t] = b] /\ blocks' = <<b>> \o blocks /\ iter[t] = << >>
        /\ state[b] = "none" /\ iter' = iter
    BY <1>2 DEF AddEntry
  <2>2. \A u \in Thread : block[u] # b
    BY <1>0, <2>1, EBNullAssumption DEF BlocksOK
  <2>3. b # Null
    BY EBNullAssumption
  <2>4. /\ Len(blocks') = Len(blocks) + 1 /\ Len(blocks) \in Nat /\ blocks'[1] = b
        /\ \A k \in 1..Len(blocks) : blocks'[k + 1] = blocks[k]
    BY <1>0, <2>1, ConsFacts DEF TypeOK
  <2>5. \A x \in Block : InBlocks(x) => InBlocks(x)'
    <3>1. ASSUME NEW x \in Block, NEW k \in 1..Len(blocks), blocks[k] = x
          PROVE  \E m \in 1..Len(blocks') : blocks'[m] = x
      <4>1. k + 1 \in 1..Len(blocks') /\ blocks'[k + 1] = x
        BY <2>4, <3>1
      <4> QED
        BY <4>1
    <3> QED
      BY <3>1 DEF InBlocks
  <2>6. InBlocks(b)'
    <3>1. 1 \in 1..Len(blocks') /\ blocks'[1] = b
      BY <2>4
    <3> QED
      BY <3>1 DEF InBlocks
  <2>7. BlocksOK(t)'
    <3>1. block'[t] = b /\ pc'[t] = "initLoad" /\ iter'[t] = << >> /\ state'[b] = "active"
      BY <1>0, <2>1 DEF TypeOK
    <3>2. \A u \in Thread : block'[u] = b => u = t
      BY <1>0, <2>1, <2>2 DEF TypeOK
    <3>3. (\A k \in 1..Len(iter[t]) : InBlocks(iter[t][k]))'
      BY <3>1
    <3>4. InBlocks(block[t])'
      BY <2>6, <3>1 DEF InBlocks
    <3> QED
      BY <2>3, <3>1, <3>2, <3>3, <3>4 DEF BlocksOK, InBlocks
  <2>8. ASSUME NEW u \in Thread \ {t} PROVE BlocksOK(u)'
    <3>1. Untouched(u) /\ BlocksOK(u) /\ iter[u] \in Seq(Block) /\ block[u] \in Block \union {Null}
      BY <1>0, OthersSame DEF TypeOK
    <3>2. block[u] # Null => state'[block[u]] = "active"
      BY <1>0, <2>1, <3>1 DEF BlocksOK, TypeOK
    <3>3. block'[t] # block[u]
      BY <1>0, <2>1, <2>2 DEF TypeOK
    <3>4. \A v \in Thread \ {t} : block'[v] = block[v]
      BY <1>0, <2>1 DEF TypeOK
    <3>5. (\A k \in 1..Len(iter[u]) : InBlocks(iter[u][k]))'
      <4>1. ASSUME NEW k \in 1..Len(iter[u]) PROVE \E m \in 1..Len(blocks') : blocks'[m] = iter[u][k]
        <5>1. iter[u][k] \in Block /\ InBlocks(iter[u][k])
          BY <3>1 DEF BlocksOK
        <5> QED
          BY <2>5, <5>1 DEF InBlocks
      <4> QED
        BY <3>1, <4>1 DEF InBlocks, Untouched
    <3>6. block[u] # Null => InBlocks(block[u])'
      <4>1. block[u] # Null => \E m \in 1..Len(blocks') : blocks'[m] = block[u]
        BY <2>5, <3>1 DEF BlocksOK, InBlocks
      <4> QED
        BY <3>1, <4>1 DEF InBlocks, Untouched
    <3> QED
      BY <3>1, <3>2, <3>3, <3>4, <3>5, <3>6 DEF BlocksOK, Untouched
  <2> QED
    BY <2>7, <2>8
<1>3. ASSUME Release(t) PROVE \A u \in Thread : BlocksOK(u)'
  <2>1. /\ pc' = [pc EXCEPT ![t] = "idle"] /\ state' = [state EXCEPT ![block[t]] = "free"]
        /\ block' = [block EXCEPT ![t] = Null] /\ iter' = [iter EXCEPT ![t] = << >>]
        /\ blocks' = blocks /\ pc[t] = "release"
    BY <1>3 DEF Release
  <2>2. block[t] # Null
    BY <1>0, <2>1 DEF BlocksOK
  <2>3. BlocksOK(t)'
    <3>1. block'[t] = Null /\ pc'[t] = "idle" /\ iter'[t] = << >>
      BY <1>0, <2>1 DEF TypeOK
    <3>2. (\A k \in 1..Len(iter[t]) : InBlocks(iter[t][k]))'
      BY <3>1
    <3> QED
      BY <3>1, <3>2 DEF BlocksOK
  <2>4. ASSUME NEW u \in Thread \ {t} PROVE BlocksOK(u)'
    <3>1. Untouched(u) /\ BlocksOK(u) /\ BlocksOK(t)
      BY <1>0, OthersSame
    <3>2. block[u] # Null => state'[block[u]] = "active"
      BY <1>0, <2>1, <2>2, <3>1 DEF BlocksOK, TypeOK
    <3>3. \A v \in Thread \ {t} : block'[v] = block[v]
      BY <1>0, <2>1 DEF TypeOK
    <3>4. block'[t] = Null
      BY <1>0, <2>1 DEF TypeOK
    <3> QED
      BY <2>1, <3>1, <3>2, <3>3, <3>4 DEF BlocksOK, InBlocks, Untouched
  <2> QED
    BY <2>3, <2>4
<1> QED
  BY <1>1, <1>2, <1>3 DEF BlockChange

LEMMA BlocksNext ==
  ASSUME EInv, NEW t \in Thread, Step(t)
  PROVE  \A u \in Thread : BlocksOK(u)'
BY BlocksClient, BlocksOther, BlocksChange DEF Step

-----------------------------------------------------------------------------
(* Scans, and what an operation works on                                   *)

LEMMA PolicyFacts ==
  ASSUME TypeOK
  PROVE  /\ policy.region \in {"none", "eager", "lazy"} /\ policy.scan \in {"all", "one"}
         /\ policy.frequency \in Nat /\ policy.abandon \in {"never", "always"}
BY PoliciesAssumption DEF TypeOK

\* The values of flags and epochs of other threads' blocks.
LEMMA BlocksElsewhere ==
  ASSUME TypeOK, NEW t \in Thread, Step(t), NEW b \in Block, b # block[t]
  PROVE  is_in_critical_region'[b] = is_in_critical_region[b] /\ local_epoch'[b] = local_epoch[b]
<1>1. \/ UNCHANGED <<is_in_critical_region, local_epoch>>
      \/ InitStore(t) \/ SetFlag(t) \/ StoreLocal(t) \/ ClearFlag(t)
  BY DEF Step, ClientStep, EnterStep, LeaveStep, Acquire, Unlink, Copy, Reset, Insert,
       RegionGuard, EndRegion, Exit, AdoptEntry, AddEntry, InitLoad, Enter, LoadGlobal, ScanFlag,
       ScanEpoch, Advance, Adopt, AdoptWith, DeleteNode, Deleted, Load,
       Retire, ReclaimReset, Abandon, Release, shared, own
<1>2. ASSUME InitStore(t) PROVE is_in_critical_region'[b] = is_in_critical_region[b] /\ local_epoch'[b] = local_epoch[b]
  BY <1>2 DEF InitStore, TypeOK
<1>3. ASSUME SetFlag(t) PROVE is_in_critical_region'[b] = is_in_critical_region[b] /\ local_epoch'[b] = local_epoch[b]
  BY <1>3 DEF SetFlag, TypeOK
<1>4. ASSUME StoreLocal(t) PROVE is_in_critical_region'[b] = is_in_critical_region[b] /\ local_epoch'[b] = local_epoch[b]
  BY <1>4 DEF StoreLocal, StoreLocalWith, TypeOK
<1>5. ASSUME ClearFlag(t) PROVE is_in_critical_region'[b] = is_in_critical_region[b] /\ local_epoch'[b] = local_epoch[b]
  BY <1>5 DEF ClearFlag, TypeOK
<1> QED
  BY <1>1, <1>2, <1>3, <1>4, <1>5

LEMMA BlocksNonEmpty ==
  ASSUME EInv, NEW t \in Thread, block[t] # Null
  PROVE  blocks # << >>
<1>1. \E k \in 1..Len(blocks) : blocks[k] = block[t]
  BY DEF EInv, BlocksOK, InBlocks
<1>2. blocks \in Seq(Block)
  BY DEF EInv, TypeOK
<1> QED
  BY <1>1, <1>2

LEMMA IterOwn ==
  ASSUME EInv, NEW t \in Thread, Step(t)
  PROVE  IterOK(t)'
<1> USE DEF Goto, nodes, shared, counts, own, guards, call, Call, Return
<1>0. TypeOK /\ BlocksOK(t) /\ IterOK(t) /\ policy' = policy /\ policy.scan \in {"all", "one"}
      /\ (block[t] # Null => blocks # << >>)
  BY OthersSame, PolicyFacts, BlocksNonEmpty DEF EInv
<1>1. ASSUME ClientStep(t) PROVE IterOK(t)'
  <2>1. pc[t] = "idle"
    BY <1>1 DEF ClientStep, Acquire, Unlink, Copy, Reset, Leave, Insert, RegionGuard, EndRegion, Exit
  <2>2. \E x \in {"load", "idle", "enter", "entry", "retire", "clear", "abandon", "release"} :
           pc' = [pc EXCEPT ![t] = x] \/ pc' = pc
    BY <1>1 DEF ClientStep, Acquire, Unlink, Copy, Reset, Leave, Insert, RegionGuard, EndRegion, Exit, First
  <2>3. block' = block /\ (block[t] # Null => iter'[t] = iter[t])
    BY <1>0, <1>1 DEF ClientStep, Acquire, Unlink, Copy, Reset, Insert, RegionGuard, EndRegion, Exit, FirstIter, TypeOK
  <2>4. pc'[t] \in {"load", "idle", "enter", "entry", "retire", "clear", "abandon", "release"}
    BY <1>0, <2>1, <2>2 DEF TypeOK
  <2> QED
    BY <1>0, <2>1, <2>3, <2>4 DEF IterOK, Running, InitPC
<1>2. ASSUME AdoptEntry(t) PROVE IterOK(t)'
  BY <1>0, <1>2 DEF AdoptEntry, IterOK, Running, InitPC, BlocksOK, TypeOK
<1>3. ASSUME NEW b \in Block, AddEntry(t, b) PROVE IterOK(t)'
  BY <1>0, <1>3 DEF AddEntry, IterOK, Running, InitPC, TypeOK
<1>4. ASSUME InitLoad(t) PROVE IterOK(t)'
  BY <1>0, <1>4 DEF InitLoad, IterOK, Running, InitPC, TypeOK
<1>5. ASSUME InitStore(t) PROVE IterOK(t)'
  BY <1>0, <1>5 DEF InitStore, ResetScan, IterOK, BlocksOK, Running, InitPC, TypeOK
<1>6. ASSUME Enter(t) PROVE IterOK(t)'
  <2>1. \E x \in {"set", "global", "load", "idle"} : pc' = [pc EXCEPT ![t] = x]
    BY <1>6 DEF Enter
  <2> QED
    BY <1>0, <1>6, <2>1 DEF Enter, IterOK, Running, InitPC, TypeOK
<1>7. ASSUME SetFlag(t) PROVE IterOK(t)'
  BY <1>0, <1>7 DEF SetFlag, IterOK, Running, InitPC, TypeOK
<1>8. ASSUME LoadGlobal(t) PROVE IterOK(t)'
  BY <1>0, <1>8 DEF LoadGlobal, IterOK, BlocksOK, Running, InitPC, TypeOK
<1>9. ASSUME ScanFlag(t) PROVE IterOK(t)'
  BY <1>0, <1>9 DEF ScanFlag, NextThread, IterOK, Running, InitPC, TypeOK
<1>10. ASSUME ScanEpoch(t) PROVE IterOK(t)'
  BY <1>0, <1>10 DEF ScanEpoch, NextThread, IterOK, Running, InitPC, TypeOK
<1>11. ASSUME Advance(t) PROVE IterOK(t)'
  BY <1>0, <1>11 DEF Advance, IterOK, TypeOK
<1>12. ASSUME Adopt(t) \/ StoreLocal(t) PROVE IterOK(t)'
  BY <1>0, <1>12 DEF Adopt, AdoptWith, StoreLocal, StoreLocalWith, IterOK, TypeOK
<1>13. ASSUME NEW n \in Node, DeleteNode(t, n) PROVE IterOK(t)'
  BY <1>0, <1>13 DEF DeleteNode, IterOK, Running
<1>14. ASSUME Deleted(t) PROVE IterOK(t)'
  BY <1>0, <1>14 DEF Deleted, ResetScan, IterOK, BlocksOK, TypeOK
<1>15. ASSUME Load(t) \/ ReclaimReset(t) PROVE IterOK(t)'
  <2>1. \E x \in {"idle", "clear"} : pc' = [pc EXCEPT ![t] = x]
    BY <1>15 DEF Load, ReclaimReset, Leave
  <2>2. pc[t] \in {"load", "reset"} /\ UNCHANGED <<block, iter>>
    BY <1>15 DEF Load, ReclaimReset
  <2> QED
    BY <1>0, <2>1, <2>2 DEF IterOK, Running, InitPC, TypeOK
<1>16. ASSUME Retire(t) PROVE IterOK(t)'
  BY <1>0, <1>16 DEF Retire, IterOK, Running, InitPC, TypeOK
<1>17. ASSUME ClearFlag(t) PROVE IterOK(t)'
  BY <1>0, <1>17 DEF ClearFlag, IterOK, Running, InitPC, TypeOK
<1>18. ASSUME Abandon(t) PROVE IterOK(t)'
  <2>1. \E x \in {"abandon", "release", "idle"} : pc' = [pc EXCEPT ![t] = x]
    BY <1>18 DEF Abandon
  <2>2. pc[t] = "abandon" /\ UNCHANGED <<block, iter>>
    BY <1>18 DEF Abandon
  <2> QED
    BY <1>0, <2>1, <2>2 DEF IterOK, Running, InitPC, TypeOK
<1>19. ASSUME Release(t) PROVE IterOK(t)'
  BY <1>0, <1>19 DEF Release, IterOK, Running, TypeOK
<1> QED
  BY <1>1, <1>2, <1>3, <1>4, <1>5, <1>6, <1>7, <1>8, <1>9, <1>10, <1>11, <1>12, <1>13, <1>14, <1>15,
     <1>16, <1>17, <1>18, <1>19 DEF Step, EnterStep, LeaveStep

LEMMA IterNext ==
  ASSUME EInv, NEW t \in Thread, Step(t)
  PROVE  \A u \in Thread : IterOK(u)'
<1>1. ASSUME NEW u \in Thread \ {t} PROVE IterOK(u)'
  BY OthersSame DEF EInv, IterOK, Running, Untouched
<1> QED
  BY <1>1, IterOwn

LEMMA CallOwn ==
  ASSUME EInv, NEW t \in Thread, Step(t)
  PROVE  CallOK(t)'
<1> USE DEF Goto, nodes, shared, counts, own, guards, call, Call, Return
<1>0. TypeOK /\ CallOK(t) /\ CountOK(t) /\ Null \notin Node /\ IterOK(t) /\ EmptyOK(t)
  BY EBNullAssumption DEF EInv
<1> USE DEF AcquirePC, UpdatePC
<1>1. ASSUME NEW g \in GuardId, NEW c \in Cell, NEW o \in {"acquire", "if_equal"}, Acquire(t, g, c, o)
      PROVE  CallOK(t)'
  <2>1. /\ op'[t] = o /\ gd'[t] = g /\ src'[t] = c /\ UNCHANGED <<ptr, guarded>>
        /\ \/ pc'[t] = "load"
           \/ ptr[t][g] = Null /\ pc'[t] \in {"entry", "enter"}
        /\ pc'[t] = "entry" => block[t] = Null
    BY <1>0, <1>1 DEF Acquire, First, TypeOK
  <2>2. block[t] = Null => \A h \in GuardId : ptr[t][h] = Null
    BY GuardCounted, HeldCounted
  <2> QED
    BY <2>1, <2>2 DEF CallOK
<1>2. ASSUME NEW g \in GuardId, NEW c \in Cell, Unlink(t, g, c) PROVE CallOK(t)'
  BY <1>0, <1>2 DEF Unlink, CallOK, TypeOK
<1>3. ASSUME NEW f \in GuardId, NEW g \in GuardId, Copy(t, f, g) PROVE CallOK(t)'
  <2>1. /\ op'[t] = "copy" /\ gd'[t] = g /\ expected'[t] = ptr[t][f] /\ pc'[t] = "enter"
        /\ ptr[t][f] \in Node /\ ptr[t][g] = Null /\ UNCHANGED <<ptr, guarded>>
    BY <1>0, <1>3 DEF Copy, TypeOK
  <2> QED
    BY <2>1 DEF CallOK
<1>4. ASSUME NEW g \in GuardId, Reset(t, g) PROVE CallOK(t)'
  <2>1. pc'[t] \in {"idle", "clear"} /\ op'[t] = op[t] /\ op[t] = "none"
    BY <1>0, <1>4 DEF Reset, Leave, CallOK, TypeOK
  <2> QED
    BY <2>1 DEF CallOK
<1>5. ASSUME NEW c \in Cell, NEW n \in Node, Insert(t, c, n) PROVE CallOK(t)'
  BY <1>0, <1>5 DEF Insert, CallOK
<1>6. ASSUME RegionGuard(t) PROVE CallOK(t)'
  <2>1. /\ op'[t] = "region" /\ ~guarded'[t] /\ UNCHANGED ptr /\ pc'[t] \in {"entry", "enter"}
        /\ pc'[t] = "entry" => block[t] = Null
    BY <1>0, <1>6 DEF RegionGuard, First, TypeOK
  <2>2. block[t] = Null => \A h \in GuardId : ptr[t][h] = Null
    BY GuardCounted, HeldCounted
  <2> QED
    BY <2>1, <2>2 DEF CallOK
<1>7. ASSUME EndRegion(t) PROVE CallOK(t)'
  <2>1. pc'[t] \in {"idle", "clear"} /\ op'[t] = op[t] /\ op[t] = "none"
    BY <1>0, <1>7 DEF EndRegion, CallOK, TypeOK
  <2> QED
    BY <2>1 DEF CallOK
<1>8. ASSUME Exit(t) PROVE CallOK(t)'
  BY <1>0, <1>8 DEF Exit, CallOK, TypeOK
<1>9. ASSUME ClientStep(t) PROVE CallOK(t)'
  BY <1>1, <1>2, <1>3, <1>4, <1>5, <1>6, <1>7, <1>8, <1>9 DEF ClientStep
<1>10. ASSUME UNCHANGED <<call, guarded, ptr>>, pc[t] \in AcquirePC, pc'[t] \in AcquirePC,
              op[t] = "region" => pc'[t] \in {"entry", "initLoad", "initStore", "enter", "set"},
              op[t] = "copy" => pc'[t] \in {"enter", "load"},
              \/ pc'[t] = "load"
              \/ pc[t] \in {"entry", "initLoad", "initStore", "set", "global"} \union UpdatePC
              \/ \A g \in GuardId : ptr[t][g] = Null
       PROVE  CallOK(t)'
  <2>1. pc'[t] \in {"entry", "initLoad", "initStore", "set", "global"} \union UpdatePC =>
          \A g \in GuardId : ptr[t][g] = Null
    BY <1>0, <1>10 DEF CallOK
  <2>2. pc'[t] = "enter" /\ op[t] # "region" => ptr[t][gd[t]] = Null
    BY <1>0, <1>10 DEF CallOK
  <2>3. op[t] \in {"acquire", "if_equal", "copy", "region"}
    BY <1>0, <1>10 DEF CallOK
  <2>4. UNCHANGED <<op, gd, src, expected, guarded, ptr>>
    BY <1>10
  <2> QED
    BY <1>0, <1>10, <2>1, <2>2, <2>3, <2>4 DEF CallOK
<1>11. ASSUME AdoptEntry(t) PROVE CallOK(t)'
  <2>1. UNCHANGED <<call, guarded, ptr>> /\ pc[t] = "entry" /\ pc'[t] \in {"entry", "initLoad"}
    BY <1>0, <1>11 DEF AdoptEntry, TypeOK
  <2>2. op[t] # "copy"
    BY <1>0, <2>1 DEF CallOK
  <2> QED
    BY <1>10, <2>1, <2>2
<1>12. ASSUME NEW b \in Block, AddEntry(t, b) PROVE CallOK(t)'
  <2>1. UNCHANGED <<call, guarded, ptr>> /\ pc[t] = "entry" /\ pc'[t] = "initLoad"
    BY <1>0, <1>12 DEF AddEntry, TypeOK
  <2>2. op[t] # "copy"
    BY <1>0, <2>1 DEF CallOK
  <2> QED
    BY <1>10, <2>1, <2>2
<1>13. ASSUME InitLoad(t) \/ InitStore(t) PROVE CallOK(t)'
  <2>1. /\ UNCHANGED <<call, guarded, ptr>> /\ pc[t] \in {"initLoad", "initStore"}
        /\ pc'[t] \in {"initStore", "enter"}
    BY <1>0, <1>13 DEF InitLoad, InitStore, TypeOK
  <2>2. op[t] # "copy"
    BY <1>0, <2>1 DEF CallOK
  <2> QED
    BY <1>10, <2>1, <2>2
<1>14. ASSUME Enter(t) PROVE CallOK(t)'
  <2>1. CASE pc' = [pc EXCEPT ![t] = "idle"] /\ guarded' = [guarded EXCEPT ![t] = TRUE] /\ Return(t) /\ UNCHANGED ptr
    BY <1>0, <2>1 DEF CallOK, TypeOK
  <2>2. CASE /\ UNCHANGED <<call, guarded, ptr>> /\ pc[t] = "enter" /\ pc'[t] \in {"set", "global", "load"}
             /\ pc'[t] # "set" => op[t] # "region"
             /\ pc'[t] # "load" => nested[t] = 0
    <3>1. pc'[t] # "load" => \A g \in GuardId : ptr[t][g] = Null
      <4>1. \A g \in GuardId : ptr[t][g] # Null => nested[t] > 0
        BY GuardCounted, HeldCounted
      <4> QED
        BY <2>2, <4>1
    <3>2. op[t] = "copy" => pc'[t] = "load"
      BY <1>0, <3>1 DEF CallOK
    <3> QED
      BY <1>10, <2>2, <3>1, <3>2
  <2>3. extends /\ regions[t] = 0 => nested[t] = 0
    BY <1>0 DEF CountOK, TypeOK
  <2>4. policy.region = "eager" => extends
    BY DEF extends
  <2> QED
    BY <1>0, <1>14, <2>1, <2>2, <2>3, <2>4 DEF Enter, TypeOK
<1>15. ASSUME SetFlag(t) PROVE CallOK(t)'
  <2>1. CASE pc' = [pc EXCEPT ![t] = "idle"] /\ guarded' = [guarded EXCEPT ![t] = TRUE] /\ Return(t) /\ UNCHANGED ptr
    BY <1>0, <2>1 DEF CallOK, TypeOK
  <2>2. CASE /\ UNCHANGED <<call, guarded, ptr>> /\ pc[t] = "set" /\ pc'[t] = "global" /\ op[t] # "region"
    <3>1. op[t] # "copy"
      BY <1>0, <2>2 DEF CallOK
    <3> QED
      BY <1>10, <2>2, <3>1
  <2> QED
    BY <1>0, <1>15, <2>1, <2>2 DEF SetFlag, TypeOK
<1>16. ASSUME LoadGlobal(t) \/ ScanFlag(t) \/ ScanEpoch(t) \/ Advance(t) \/ Adopt(t) \/ StoreLocal(t)
              \/ (\E n \in Node : DeleteNode(t, n)) \/ Deleted(t)
       PROVE  CallOK(t)'
  <2>1. UNCHANGED <<call, guarded, ptr>> /\ pc[t] \in {"global"} \union UpdatePC
    BY <1>16 DEF LoadGlobal, ScanFlag, ScanEpoch, Advance, Adopt, AdoptWith, StoreLocal, StoreLocalWith, DeleteNode, Deleted
  <2>2. pc'[t] \in {"load"} \union UpdatePC
    <3>1. pc' = pc \/ \E x \in {"load"} \union UpdatePC : pc' = [pc EXCEPT ![t] = x]
      BY <1>16 DEF LoadGlobal, ScanFlag, ScanEpoch, NextThread, Advance, Adopt, AdoptWith, StoreLocal,
         StoreLocalWith, DeleteNode, Deleted
    <3>2. pc[t] = "global" => pc' # pc
      <4>1. \A x \in {"load"} \union UpdatePC : x # "global"
        OBVIOUS
      <4>2. pc[t] = "global" => LoadGlobal(t)
        BY <1>16 DEF ScanFlag, ScanEpoch, Advance, Adopt, AdoptWith, StoreLocal, StoreLocalWith, DeleteNode, Deleted
      <4>3. LoadGlobal(t) => \E x \in {"load"} \union UpdatePC : pc' = [pc EXCEPT ![t] = x]
        BY DEF LoadGlobal
      <4> QED
        BY <1>0, <4>1, <4>2, <4>3 DEF TypeOK
    <3> QED
      BY <1>0, <2>1, <3>1, <3>2 DEF TypeOK
  <2>3. op[t] # "copy" /\ op[t] # "region"
    BY <1>0, <2>1 DEF CallOK
  <2> QED
    BY <1>10, <2>1, <2>2, <2>3
<1>17. ASSUME Load(t) \/ ReclaimReset(t) PROVE CallOK(t)'
  <2>1. \E x \in {"idle", "clear"} : pc' = [pc EXCEPT ![t] = x]
    BY <1>17 DEF Load, ReclaimReset, Leave
  <2>2. pc'[t] \in {"idle", "clear"} /\ op'[t] = "none"
    BY <1>0, <1>17, <2>1 DEF Load, ReclaimReset, TypeOK
  <2> QED
    BY <2>2 DEF CallOK
<1>18. ASSUME Retire(t) PROVE CallOK(t)'
  BY <1>0, <1>18 DEF Retire, CallOK, TypeOK
<1>19. ASSUME ClearFlag(t) PROVE CallOK(t)'
  BY <1>0, <1>19 DEF ClearFlag, CallOK, TypeOK
<1>20. ASSUME Abandon(t) PROVE CallOK(t)'
  <2>1. UNCHANGED <<call, guarded, ptr>> /\ op[t] \in {"none", "exit"}
    BY <1>0, <1>20 DEF Abandon, CallOK
  <2>2. pc'[t] = "abandon" \/ (pc'[t] = "release" /\ op[t] = "exit") \/ (pc'[t] = "idle" /\ op[t] = "none")
    <3>1. \/ pc' = [pc EXCEPT ![t] = "abandon"]
          \/ pc' = [pc EXCEPT ![t] = "release"] /\ op[t] = "exit"
          \/ pc' = [pc EXCEPT ![t] = "idle"] /\ op[t] # "exit"
      BY <1>20 DEF Abandon
    <3> QED
      BY <1>0, <2>1, <3>1 DEF TypeOK
  <2> QED
    BY <1>0, <2>1, <2>2 DEF CallOK
<1>21. ASSUME Release(t) PROVE CallOK(t)'
  BY <1>0, <1>21 DEF Release, CallOK, TypeOK
<1> QED
  BY <1>9, <1>11, <1>12, <1>13, <1>14, <1>15, <1>16, <1>17, <1>18, <1>19, <1>20, <1>21
     DEF Step, EnterStep, LeaveStep

LEMMA CallNext ==
  ASSUME EInv, NEW t \in Thread, Step(t)
  PROVE  \A u \in Thread : CallOK(u)'
<1>1. ASSUME NEW u \in Thread \ {t} PROVE CallOK(u)'
  BY OthersSame DEF EInv, CallOK, Untouched
<1> QED
  BY <1>1, CallOwn

-----------------------------------------------------------------------------
(* The counters of a thread                                                *)

NestedOK(t) == IsFiniteSet(Counted(t)) /\ nested[t] = Cardinality(Counted(t))
RegionsOK(t) == regions[t] = IF extends THEN nested[t] + (IF Region(t) THEN 1 ELSE 0) ELSE 0
OutsideOK(t) == block[t] = Null => nested[t] = 0 /\ ~guarded[t]

LEMMA CountParts ==
  ASSUME NEW t \in Thread
  PROVE  /\ CountOK(t) <=> NestedOK(t) /\ RegionsOK(t) /\ OutsideOK(t)
         /\ CountOK(t)' <=> NestedOK(t)' /\ RegionsOK(t)' /\ OutsideOK(t)'
BY DEF CountOK, NestedOK, RegionsOK, OutsideOK

CountedPC == {"set", "global", "load"} \union UpdatePC

\* A step that neither makes a guard nor gives one up
LEMMA CountKept ==
  ASSUME EInv, NEW t \in Thread, policy' = policy,
         UNCHANGED <<ptr, nested, regions, guarded>>,
         \/ UNCHANGED <<gd, op>> /\ (pc'[t] \in CountedPC <=> pc[t] \in CountedPC)
         \/ pc[t] \notin CountedPC /\ pc'[t] \notin CountedPC
         \/ pc[t] \notin CountedPC /\ ptr[t][gd'[t]] # Null
         \/ op[t] = "region" /\ pc'[t] \notin CountedPC
         \/ op'[t] = "region" /\ pc[t] \notin CountedPC,
         Region(t)' = Region(t),
         block'[t] = Null => block[t] = Null \/ (nested[t] = 0 /\ ~guarded[t])
  PROVE  CountOK(t)'
<1>1. CountOK(t) /\ TypeOK
  BY DEF EInv
<1>2. Counted(t)' = Counted(t)
  BY DEF Counted, CountedPC
<1>3. NestedOK(t)'
  BY <1>1, <1>2, CountParts DEF NestedOK
<1>4. RegionsOK(t)'
  BY <1>1, CountParts DEF RegionsOK, extends
<1>5. OutsideOK(t)'
  BY <1>1, CountParts DEF OutsideOK
<1> QED
  BY <1>3, <1>4, <1>5, CountParts

LEMMA LeaveCounts ==
  ASSUME EInv, NEW t \in Thread, NEW g \in Counted(t), NEW x \in {"load", "idle", "reset"}, Leave(t, x),
         policy' = policy, UNCHANGED <<block, guarded>>,
         Counted(t)' = Counted(t) \ {g}
  PROVE  CountOK(t)'
<1>1. CountOK(t) /\ TypeOK
  BY DEF EInv
<1>2. /\ IsFiniteSet(Counted(t)')
      /\ Cardinality(Counted(t)') = Cardinality(Counted(t)) - 1
  BY <1>1, FS_RemoveElement DEF CountOK
<1>3. nested'[t] = nested[t] - 1 /\ regions'[t] = IF extends THEN regions[t] - 1 ELSE regions[t]
  BY <1>1 DEF Leave, TypeOK
<1>4. NestedOK(t)'
  BY <1>1, <1>2, <1>3, CountParts DEF NestedOK
<1>5. Region(t)' = Region(t)
  BY <1>1 DEF Leave, Goto, Region, TypeOK
<1>6. RegionsOK(t)'
  BY <1>1, <1>3, <1>5, GuardCounted, CountParts DEF RegionsOK, extends
<1>7. OutsideOK(t)'
  BY <1>1, <1>3, GuardCounted, CountParts DEF OutsideOK
<1> QED
  BY <1>4, <1>6, <1>7, CountParts

LEMMA EnterCounts ==
  ASSUME EInv, NEW t \in Thread, Enter(t), policy' = policy
  PROVE  CountOK(t)'
<1> USE DEF Goto, nodes, shared, counts, own, guards, call, Call, Return
<1>0. CountOK(t) /\ TypeOK /\ CallOK(t) /\ pc[t] = "enter" /\ block[t] # Null
  BY DEF EInv, Enter, BlocksOK
<1>1. block'[t] = block[t] /\ ptr' = ptr
  BY DEF Enter
<1>2. CASE op[t] = "region"
  <2>1. /\ nested'[t] = nested[t] /\ regions'[t] = IF extends THEN regions[t] + 1 ELSE regions[t]
        /\ ~guarded[t]
    BY <1>0, <1>2 DEF Enter, CallOK, TypeOK
  <2>2. \/ extends /\ pc'[t] = "set" /\ op' = op /\ guarded' = guarded
        \/ pc'[t] = "idle" /\ guarded'[t] = TRUE
    BY <1>0, <1>2 DEF Enter, extends, TypeOK
  <2>3. Counted(t)' = Counted(t)
    BY <1>0, <1>1, <1>2, <2>2 DEF Counted, UpdatePC
  <2>4. NestedOK(t)'
    BY <1>0, <2>1, <2>3, CountParts DEF NestedOK
  <2>5. ~Region(t) /\ Region(t)'
    BY <1>0, <1>2, <2>1, <2>2 DEF Region
  <2>6. RegionsOK(t)'
    BY <1>0, <2>1, <2>5, CountParts DEF RegionsOK, extends, TypeOK
  <2> QED
    BY <1>0, <1>1, <2>4, <2>6, CountParts DEF OutsideOK
<1>3. CASE op[t] # "region"
  <2>1. nested'[t] = nested[t] + 1 /\ regions'[t] = IF extends THEN regions[t] + 1 ELSE regions[t]
    BY <1>0, <1>3 DEF Enter, TypeOK
  <2>2. pc'[t] \in {"set", "global", "load"} /\ UNCHANGED <<guarded, call>>
    BY <1>0, <1>3 DEF Enter, TypeOK
  <2>3. gd[t] \in GuardId /\ ptr[t][gd[t]] = Null
    BY <1>0, <1>3 DEF CallOK, AcquirePC
  <2>4. gd[t] \notin Counted(t) /\ Counted(t)' = Counted(t) \union {gd[t]}
    BY <1>0, <1>1, <1>3, <2>2, <2>3 DEF Counted, UpdatePC
  <2>5. /\ IsFiniteSet(Counted(t)')
        /\ Cardinality(Counted(t)') = Cardinality(Counted(t)) + 1
    <3>1. IsFiniteSet(Counted(t))
      BY <1>0 DEF CountOK
    <3>2. /\ IsFiniteSet(Counted(t) \union {gd[t]})
          /\ Cardinality(Counted(t) \union {gd[t]}) = Cardinality(Counted(t)) + 1
      BY <2>4, <3>1, FS_AddElement
    <3> QED
      BY <2>4, <3>2
  <2>6. NestedOK(t)'
    BY <1>0, <2>1, <2>5, CountParts DEF NestedOK
  <2>7. Region(t)' = Region(t)
    BY <1>0, <1>3, <2>2 DEF Region
  <2>8. RegionsOK(t)'
    BY <1>0, <2>1, <2>7, CountParts DEF RegionsOK, extends, TypeOK
  <2> QED
    BY <1>0, <1>1, <2>6, <2>8, CountParts DEF OutsideOK
<1> QED
  BY <1>2, <1>3

LEMMA CountOwn ==
  ASSUME EInv, NEW t \in Thread, Step(t)
  PROVE  CountOK(t)'
<1> USE DEF Goto, nodes, shared, counts, own, guards, call, Call, Return
<1>0. /\ TypeOK /\ CallOK(t) /\ CountOK(t) /\ Null \notin Node /\ policy' = policy
  BY OthersSame, EBNullAssumption DEF EInv
<1> USE DEF CountedPC, UpdatePC
<1>1. ASSUME NEW g \in GuardId, NEW c \in Cell, NEW o \in {"acquire", "if_equal"}, Acquire(t, g, c, o)
      PROVE  CountOK(t)'
  <2>1. /\ UNCHANGED <<ptr, nested, regions, guarded, block>> /\ pc[t] = "idle" /\ gd'[t] = g
        /\ (pc'[t] = "load" /\ ptr[t][g] # Null) \/ pc'[t] \in {"entry", "enter"}
    BY <1>0, <1>1 DEF Acquire, First, TypeOK
  <2>2. Region(t)' = Region(t)
    BY <2>1 DEF Region
  <2> QED
    BY <1>0, <2>1, <2>2, CountKept
<1>2. ASSUME (\E g \in GuardId, c \in Cell : Unlink(t, g, c)) \/ (\E f, g \in GuardId : Copy(t, f, g))
             \/ RegionGuard(t) \/ Exit(t)
      PROVE  CountOK(t)'
  <2>1. UNCHANGED <<ptr, nested, regions, guarded, block>> /\ pc[t] = "idle"
    BY <1>2 DEF Unlink, Copy, RegionGuard, Exit
  <2>2. \E x \in {"retire", "enter", "entry", "abandon", "release"} : pc' = [pc EXCEPT ![t] = x]
    BY <1>2 DEF Unlink, Copy, RegionGuard, Exit, First
  <2>3. pc'[t] \in {"retire", "enter", "entry", "abandon", "release"}
    BY <1>0, <2>2 DEF TypeOK
  <2>4. Region(t)' = Region(t)
    BY <2>1, <2>3 DEF Region
  <2> QED
    BY <1>0, <2>1, <2>3, <2>4, CountKept
<1>3. ASSUME NEW g \in GuardId, Reset(t, g) PROVE CountOK(t)'
  <2>1. g \in Counted(t)
    BY <1>3, HeldCounted DEF Reset
  <2>2. pc[t] = "idle" /\ pc'[t] \in {"idle", "clear"} /\ ptr'[t][g] = Null
        /\ \A h \in GuardId \ {g} : ptr'[t][h] = ptr[t][h]
    BY <1>0, <1>3 DEF Reset, SetGuard, Leave, TypeOK
  <2>3. Counted(t)' = Counted(t) \ {g}
    BY <2>2 DEF Counted
  <2> QED
    BY <1>0, <1>3, <2>1, <2>3, LeaveCounts DEF Reset
<1>4. ASSUME NEW c \in Cell, NEW n \in Node, Insert(t, c, n) PROVE CountOK(t)'
  <2>1. UNCHANGED <<ptr, nested, regions, guarded, block, gd, op, pc>>
    BY <1>4 DEF Insert
  <2>2. Region(t)' = Region(t)
    BY <2>1 DEF Region
  <2> QED
    BY <1>0, <2>1, <2>2, CountKept
<1>5. ASSUME EndRegion(t) PROVE CountOK(t)'
  <2>1. /\ UNCHANGED <<ptr, nested, block, gd, op>> /\ pc[t] = "idle" /\ pc'[t] \in {"idle", "clear"}
        /\ guarded[t] /\ guarded'[t] = FALSE /\ regions'[t] = IF extends THEN regions[t] - 1 ELSE regions[t]
    BY <1>0, <1>5 DEF EndRegion, TypeOK
  <2>2. Counted(t)' = Counted(t)
    BY <2>1 DEF Counted
  <2>3. NestedOK(t)'
    BY <1>0, <2>1, <2>2, CountParts DEF NestedOK
  <2>4. Region(t) /\ ~Region(t)'
    BY <2>1 DEF Region
  <2>5. RegionsOK(t)'
    BY <1>0, <2>1, <2>4, CountParts DEF RegionsOK, extends, TypeOK
  <2>6. OutsideOK(t)'
    BY <1>0, <2>1, CountParts DEF OutsideOK
  <2> QED
    BY <2>3, <2>5, <2>6, CountParts
<1>6. ASSUME AdoptEntry(t) \/ (\E b \in Block : AddEntry(t, b)) \/ InitLoad(t) \/ InitStore(t)
      PROVE  CountOK(t)'
  <2>1. /\ UNCHANGED <<ptr, nested, regions, guarded, op, gd>> /\ pc[t] \in {"entry", "initLoad", "initStore"}
        /\ pc'[t] \in {"entry", "initLoad", "initStore", "enter"}
    <3>1. UNCHANGED <<ptr, nested, regions, guarded, op, gd>> /\ pc[t] \in {"entry", "initLoad", "initStore"}
      BY <1>6 DEF AdoptEntry, AddEntry, InitLoad, InitStore
    <3>2. pc' = pc \/ \E x \in {"initLoad", "initStore", "enter"} : pc' = [pc EXCEPT ![t] = x]
      BY <1>6 DEF AdoptEntry, AddEntry, InitLoad, InitStore
    <3> QED
      BY <1>0, <3>1, <3>2 DEF TypeOK
  <2>2. Region(t)' = Region(t)
    BY <2>1 DEF Region
  <2>3. pc[t] \in {"initLoad", "initStore"} => block[t] # Null /\ block' = block
    BY <1>6 DEF EInv, BlocksOK, AdoptEntry, AddEntry, InitLoad, InitStore
  <2>4. pc[t] = "entry" => block[t] = Null
    BY DEF EInv, BlocksOK
  <2> QED
    BY <1>0, <2>1, <2>2, <2>3, <2>4, CountKept
<1>7. ASSUME SetFlag(t) PROVE CountOK(t)'
  <2>1. UNCHANGED <<ptr, nested, regions, block>> /\ pc[t] = "set"
    BY <1>7 DEF SetFlag
  <2>2. CASE op[t] # "region"
    <3>1. UNCHANGED <<guarded, gd, op>> /\ pc'[t] = "global"
      BY <1>0, <1>7, <2>2 DEF SetFlag, TypeOK
    <3>2. Region(t)' = Region(t)
      BY <2>1, <2>2, <3>1 DEF Region
    <3> QED
      BY <1>0, <2>1, <3>1, <3>2, CountKept
  <2>3. CASE op[t] = "region"
    <3>1. guarded'[t] = TRUE /\ pc'[t] = "idle"
      BY <1>0, <1>7, <2>3 DEF SetFlag, TypeOK
    <3>2. Region(t) /\ Region(t)'
      BY <2>1, <2>3, <3>1 DEF Region
    <3>3. Counted(t)' = Counted(t)
      BY <2>1, <2>3, <3>1 DEF Counted
    <3>4. NestedOK(t)'
      BY <1>0, <2>1, <3>3, CountParts DEF NestedOK
    <3>5. RegionsOK(t)'
      BY <1>0, <2>1, <3>2, CountParts DEF RegionsOK, extends
    <3>6. OutsideOK(t)'
      BY <2>1 DEF EInv, BlocksOK, OutsideOK
    <3> QED
      BY <3>4, <3>5, <3>6, CountParts
  <2> QED
    BY <2>2, <2>3
<1>8. ASSUME LoadGlobal(t) \/ ScanFlag(t) \/ ScanEpoch(t) \/ Advance(t) \/ Adopt(t) \/ StoreLocal(t)
              \/ (\E n \in Node : DeleteNode(t, n)) \/ Deleted(t)
       PROVE  CountOK(t)'
  <2>1. /\ UNCHANGED <<ptr, nested, regions, guarded, op, gd, block>> /\ pc[t] \in CountedPC \ {"set"}
    BY <1>8 DEF LoadGlobal, ScanFlag, ScanEpoch, Advance, Adopt, AdoptWith, StoreLocal, StoreLocalWith, DeleteNode, Deleted
  <2>2. pc' = pc \/ \E x \in CountedPC \ {"set"} : pc' = [pc EXCEPT ![t] = x]
    BY <1>8 DEF LoadGlobal, ScanFlag, ScanEpoch, NextThread, Advance, Adopt, AdoptWith, StoreLocal,
         StoreLocalWith, DeleteNode, Deleted
  <2>3. pc'[t] \in CountedPC \ {"set"}
    BY <1>0, <2>1, <2>2 DEF TypeOK
  <2>4. Region(t)' = Region(t)
    BY <2>1, <2>3 DEF Region
  <2> QED
    BY <1>0, <2>1, <2>3, <2>4, CountKept
<1>9. ASSUME Load(t) PROVE CountOK(t)'
  <2>1. pc[t] = "load" /\ op[t] # "region" /\ gd[t] \in GuardId
    BY <1>0, <1>9 DEF Load, CallOK, AcquirePC
  <2>2. gd[t] \in Counted(t)
    BY <2>1, HeldCounted
  <2>3. PICK m \in Node \union {Null} :
           /\ SetGuard(t, gd[t], m)
           /\ \/ m # Null /\ pc' = [pc EXCEPT ![t] = "idle"] /\ UNCHANGED <<nested, regions>>
              \/ m = Null /\ Leave(t, "load")
    <3>1. op[t] # "copy" => src[t] \in Cell
      BY <1>0, <2>1 DEF CallOK, AcquirePC
    <3>2. (IF op[t] = "copy" THEN expected[t] ELSE cell[src[t]]) \in Node \union {Null}
      BY <1>0, <3>1 DEF TypeOK
    <3> QED
      BY <1>9, <3>2 DEF Load
  <2>4. ptr'[t][gd[t]] = m /\ \A h \in GuardId \ {gd[t]} : ptr'[t][h] = ptr[t][h]
    BY <1>0, <2>1, <2>3 DEF SetGuard, TypeOK
  <2>5. UNCHANGED <<guarded, block>>
    BY <1>9 DEF Load
  <2>6. CASE m # Null
    <3>1. pc'[t] = "idle" /\ UNCHANGED <<nested, regions>>
      BY <1>0, <2>3, <2>6 DEF TypeOK
    <3>2. Counted(t)' = Counted(t)
      BY <2>1, <2>4, <2>6, <3>1 DEF Counted
    <3>3. Region(t)' = Region(t)
      BY <2>1, <2>5, <3>1 DEF Region
    <3>4. NestedOK(t)'
      BY <1>0, <3>1, <3>2, CountParts DEF NestedOK
    <3>5. RegionsOK(t)'
      BY <1>0, <3>1, <3>3, CountParts DEF RegionsOK, extends
    <3>6. OutsideOK(t)'
      BY <1>0, <2>5, <3>1, CountParts DEF OutsideOK
    <3> QED
      BY <3>4, <3>5, <3>6, CountParts
  <2>7. CASE m = Null
    <3>1. pc'[t] \in {"idle", "clear"}
      BY <1>0, <2>3, <2>7 DEF Leave, TypeOK
    <3>2. Counted(t)' = Counted(t) \ {gd[t]}
      BY <2>1, <2>4, <2>7, <3>1 DEF Counted
    <3> QED
      BY <1>0, <2>2, <2>3, <2>5, <2>7, <3>2, LeaveCounts
  <2> QED
    BY <2>6, <2>7
<1>10. ASSUME Retire(t) \/ ClearFlag(t) \/ Abandon(t) PROVE CountOK(t)'
  <2>1. UNCHANGED <<ptr, nested, regions, guarded, block, op, gd>> /\ pc[t] \in {"retire", "clear", "abandon"}
    BY <1>10 DEF Retire, ClearFlag, Abandon
  <2>2. \E x \in {"reset", "abandon", "idle", "release"} : pc' = [pc EXCEPT ![t] = x]
    BY <1>10 DEF Retire, ClearFlag, Abandon
  <2>3. pc'[t] \in {"reset", "abandon", "idle", "release"}
    BY <1>0, <2>2 DEF TypeOK
  <2>4. Region(t)' = Region(t)
    BY <2>1, <2>3 DEF Region
  <2> QED
    BY <1>0, <2>1, <2>3, <2>4, CountKept
<1>11. ASSUME ReclaimReset(t) PROVE CountOK(t)'
  <2>1. gd[t] \in GuardId /\ ptr[t][gd[t]] # Null /\ pc[t] = "reset"
    BY <1>0, <1>11 DEF ReclaimReset, CallOK
  <2>2. gd[t] \in Counted(t)
    BY <2>1, HeldCounted
  <2>3. pc'[t] \in {"idle", "clear"} /\ ptr'[t][gd[t]] = Null
        /\ \A h \in GuardId \ {gd[t]} : ptr'[t][h] = ptr[t][h]
    BY <1>0, <1>11, <2>1 DEF ReclaimReset, SetGuard, Leave, TypeOK
  <2>4. Counted(t)' = Counted(t) \ {gd[t]}
    BY <2>1, <2>3 DEF Counted
  <2> QED
    BY <1>0, <1>11, <2>2, <2>4, LeaveCounts DEF ReclaimReset
<1>12. ASSUME Release(t) PROVE CountOK(t)'
  <2>1. UNCHANGED <<ptr, nested, regions, guarded>> /\ pc[t] = "release" /\ pc'[t] = "idle"
    BY <1>0, <1>12 DEF Release, TypeOK
  <2>2. ~guarded[t] /\ \A g \in GuardId : ptr[t][g] = Null
    BY <1>0, <2>1 DEF CallOK
  <2>3. Counted(t) = {}
    BY <2>1, <2>2 DEF Counted
  <2>4. nested[t] = 0
    BY <1>0, <2>3, FS_EmptySet DEF CountOK
  <2>5. Region(t)' = Region(t)
    BY <2>1 DEF Region
  <2> QED
    BY <1>0, <2>1, <2>2, <2>4, <2>5, CountKept
<1> QED
  BY <1>1, <1>2, <1>3, <1>4, <1>5, <1>6, <1>7, <1>8, <1>9, <1>10, <1>11, <1>12, EnterCounts, <1>0
     DEF Step, ClientStep, EnterStep, LeaveStep

LEMMA CountNext ==
  ASSUME EInv, NEW t \in Thread, Step(t)
  PROVE  \A u \in Thread : CountOK(u)'
<1>1. ASSUME NEW u \in Thread \ {t} PROVE CountOK(u)'
  <2>1. Untouched(u) /\ policy' = policy /\ CountOK(u)
    BY OthersSame DEF EInv
  <2>2. Counted(u)' = Counted(u) /\ Region(u)' = Region(u)
    BY <2>1 DEF Counted, Region, Untouched
  <2> QED
    BY <2>1, <2>2 DEF CountOK, extends, Untouched
<1> QED
  BY <1>1, CountOwn


-----------------------------------------------------------------------------
(* The flags of the control blocks                                         *)

LEMMA NoBlock ==
  ASSUME EInv, NEW t \in Thread, block[t] = Null
  PROVE  nested[t] = 0 /\ ~guarded[t] /\ ~InRegion(t) /\ regions[t] = 0
<1>1. CountOK(t) /\ BlocksOK(t) /\ TypeOK
  BY DEF EInv
<1>2. ~Region(t)
  BY <1>1 DEF CountOK, BlocksOK, Region
<1> QED
  BY <1>1, <1>2 DEF CountOK, InRegion

LEMMA FlagOthers ==
  ASSUME EInv, NEW t \in Thread, Step(t), NEW u \in Thread \ {t}
  PROVE  FlagOK(u)' /\ (block[u] # Null => flag(u)' = flag(u) /\ local(u)' = local(u))
<1>1. /\ TypeOK /\ FlagOK(u) /\ BlocksOK(u) /\ Untouched(u) /\ policy' = policy
  BY OthersSame DEF EInv
<1>2. CASE block[u] # Null
  <2>1. block[u] \in Block /\ block[u] # block[t] /\ block'[u] = block[u]
    BY <1>1, <1>2 DEF BlocksOK, TypeOK, Untouched
  <2>2. flag(u)' = flag(u) /\ local(u)' = local(u)
    BY <1>1, <2>1, BlocksElsewhere DEF flag, local
  <2>3. InRegion(u)' = InRegion(u)
    BY <1>1 DEF InRegion, extends, Untouched
  <2> QED
    BY <1>1, <2>1, <2>2, <2>3 DEF FlagOK, Untouched
<1>3. CASE block[u] = Null
  <2>1. nested[u] = 0 /\ ~InRegion(u) /\ regions[u] = 0 /\ pc[u] # "set"
    BY <1>1, <1>3, NoBlock DEF BlocksOK
  <2>2. ~InRegion(u)'
    BY <1>1, <2>1 DEF InRegion, extends, Untouched
  <2>3. /\ nested'[u] = 0 /\ regions'[u] = 0 /\ pc'[u] # "set" /\ block'[u] = Null
    BY <1>1, <1>3, <2>1 DEF Untouched
  <2> QED
    BY <1>3, <2>2, <2>3 DEF FlagOK
<1> QED
  BY <1>2, <1>3

LEMMA FlagKept ==
  ASSUME EInv, NEW t \in Thread, Step(t), UNCHANGED <<nested, regions, block, is_in_critical_region>>,
         pc[t] # "set", pc'[t] # "set", pc'[t] = "clear" <=> pc[t] = "clear"
  PROVE  FlagOK(t)'
<1>1. FlagOK(t) /\ policy' = policy
  BY OthersSame DEF EInv
<1>2. InRegion(t)' = InRegion(t) /\ flag(t)' = flag(t)
  BY <1>1 DEF InRegion, extends, flag
<1> QED
  BY <1>1, <1>2 DEF FlagOK

\* The last guard or region of a thread goes.
LEMMA FlagLeave ==
  ASSUME EInv, NEW t \in Thread, Step(t), NEW g \in Counted(t),
         NEW x \in {"load", "idle", "reset"}, Leave(t, x),
         UNCHANGED <<block, is_in_critical_region>>
  PROVE  FlagOK(t)'
<1>1. FlagOK(t) /\ TypeOK /\ CountOK(t)' /\ policy' = policy /\ pc[t] = x
  BY OthersSame, CountOwn DEF EInv, Leave, Goto
<1>2. nested'[t] = nested[t] - 1 /\ regions'[t] = IF extends THEN regions[t] - 1 ELSE regions[t]
  BY <1>1 DEF Leave, TypeOK
<1>3. nested[t] \in Nat /\ nested[t] > 0 /\ regions[t] \in Nat /\ (extends => regions[t] >= nested[t])
  BY <1>1, GuardCounted DEF TypeOK
<1>4. flag(t) /\ flag(t)' = flag(t)
  BY <1>1, <1>3 DEF FlagOK, flag
<1>5. InRegion(t)' <=> pc'[t] # "clear"
  BY <1>1, <1>2, <1>3 DEF Leave, Goto, InRegion, extends, TypeOK
<1>6. pc'[t] \in {"clear", "idle"}
  BY <1>1 DEF Leave, Goto, TypeOK
<1> QED
  BY <1>4, <1>5, <1>6 DEF FlagOK

LEMMA FlagEnter ==
  ASSUME EInv, NEW t \in Thread, Enter(t)
  PROVE  FlagOK(t)'
<1>0. /\ TypeOK /\ CallOK(t) /\ CountOK(t) /\ FlagOK(t) /\ policy' = policy
      /\ pc[t] = "enter" /\ block[t] # Null /\ block' = block /\ is_in_critical_region' = is_in_critical_region
      /\ flag(t)' = flag(t) /\ policy.region \in {"none", "eager", "lazy"}
  BY PolicyFacts DEF EInv, BlocksOK, Enter, nodes, shared, flag
<1>1. nested[t] \in Nat /\ regions[t] \in Nat /\ flag(t) \in BOOLEAN
  BY <1>0 DEF TypeOK, flag
<1>2. /\ nested'[t] = IF op[t] = "region" THEN nested[t] ELSE nested[t] + 1
      /\ regions'[t] = IF extends THEN regions[t] + 1 ELSE regions[t]
  BY <1>0 DEF Enter, TypeOK
<1>3. extends => regions[t] >= nested[t]
  BY <1>0, <1>1 DEF CountOK
<1>4. pc'[t] # "clear"
  <2>1. \E x \in {"set", "global", "load", "idle"} : pc' = [pc EXCEPT ![t] = x]
    BY DEF Enter, Goto
  <2> QED
    BY <1>0, <2>1 DEF TypeOK
<1>5. extends' = extends
  BY <1>0 DEF extends
<1>6. pc'[t] = "set" <=>
         \/ policy.region = "eager" /\ regions[t] = 0
         \/ policy.region = "none" /\ op[t] # "region" /\ nested[t] = 0
         \/ policy.region = "lazy" /\ op[t] # "region" /\ nested[t] = 0 /\ ~flag(t)
  BY <1>0 DEF Enter, Goto, extends, flag, TypeOK
<1>7. CASE policy.region = "none"
  <2>1. ~extends
    BY <1>7 DEF extends
  <2>2. InRegion(t) <=> nested[t] > 0
    BY <2>1 DEF InRegion
  <2>3. InRegion(t)' <=> nested'[t] > 0
    BY <1>5, <2>1 DEF InRegion
  <2>4. flag(t) <=> nested[t] > 0
    BY <1>0, <2>2 DEF FlagOK
  <2> QED
    BY <1>0, <1>1, <1>2, <1>4, <1>6, <1>7, <2>3, <2>4 DEF FlagOK
<1>8. CASE policy.region # "none"
  <2>1. extends
    BY <1>8 DEF extends
  <2>2. InRegion(t) <=> regions[t] > 0
    BY <2>1 DEF InRegion
  <2>3. InRegion(t)'
    BY <1>1, <1>2, <1>5, <2>1 DEF InRegion
  <2>4. flag(t) => regions[t] > 0
    BY <1>0, <2>2 DEF FlagOK
  <2>5. nested[t] > 0 => flag(t)
    BY <1>0 DEF FlagOK
  <2>6. policy.region = "eager" /\ regions[t] > 0 => flag(t)
    BY <1>0 DEF FlagOK
  <2> QED
    BY <1>0, <1>1, <1>2, <1>3, <1>4, <1>6, <1>8, <2>1, <2>3, <2>4, <2>5, <2>6 DEF FlagOK
<1> QED
  BY <1>7, <1>8

LEMMA FlagOwn ==
  ASSUME EInv, NEW t \in Thread, Step(t)
  PROVE  FlagOK(t)'
<1> USE DEF Goto, nodes, shared, counts, own, guards, call, Call, Return
<1>0. /\ TypeOK /\ BlocksOK(t) /\ CallOK(t) /\ CountOK(t) /\ FlagOK(t) /\ UnownedOK
      /\ (\A u \in Thread : BlocksOK(u)) /\ policy' = policy
  BY OthersSame DEF EInv
<1>1. ASSUME \/ \E g \in GuardId, c \in Cell :
                   (\E o \in {"acquire", "if_equal"} : Acquire(t, g, c, o)) \/ Unlink(t, g, c)
             \/ \E f, g \in GuardId : Copy(t, f, g)
             \/ \E c \in Cell, n \in Node : Insert(t, c, n)
             \/ RegionGuard(t) \/ Exit(t)
      PROVE  FlagOK(t)'
  <2>1. UNCHANGED <<nested, regions, block, is_in_critical_region>> /\ pc[t] = "idle"
    BY <1>1 DEF Acquire, Unlink, Copy, Insert, RegionGuard, Exit
  <2>2. pc' = pc \/ \E x \in {"load", "entry", "enter", "retire", "abandon", "release"} : pc' = [pc EXCEPT ![t] = x]
    BY <1>1 DEF Acquire, Unlink, Copy, Insert, RegionGuard, Exit, First
  <2>3. pc'[t] \notin {"set", "clear"}
    BY <1>0, <2>1, <2>2 DEF TypeOK
  <2> QED
    BY <2>1, <2>3, FlagKept
<1>2. ASSUME NEW g \in GuardId, Reset(t, g) PROVE FlagOK(t)'
  BY <1>2, HeldCounted, FlagLeave DEF Reset
<1>3. ASSUME EndRegion(t) PROVE FlagOK(t)'
  <2>1. /\ pc[t] = "idle" /\ pc'[t] = (IF extends /\ regions[t] = 1 THEN "clear" ELSE "idle")
        /\ guarded[t] /\ regions'[t] = IF extends THEN regions[t] - 1 ELSE regions[t]
        /\ nested' = nested /\ flag(t)' = flag(t)
    BY <1>0, <1>3 DEF EndRegion, TypeOK, flag
  <2>2. nested[t] \in Nat /\ regions[t] \in Nat
    BY <1>0 DEF TypeOK
  <2>3. extends => regions[t] = nested[t] + 1
    BY <1>0, <2>1 DEF CountOK, Region
  <2>4. InRegion(t)' <=> IF extends THEN regions[t] > 1 ELSE nested[t] > 0
    BY <1>0, <2>1, <2>2, <2>3 DEF InRegion, extends
  <2>5. InRegion(t) <=> IF extends THEN regions[t] > 0 ELSE nested[t] > 0
    BY DEF InRegion
  <2>6. policy.region = "eager" => extends
    BY DEF extends
  <2>7. flag(t) \in BOOLEAN /\ block'[t] = block[t]
    BY <1>0, <1>3, GuardCounted DEF flag, CountOK, TypeOK, EndRegion
  <2> QED
    BY <1>0, <2>1, <2>2, <2>3, <2>4, <2>5, <2>6, <2>7 DEF FlagOK
<1>4. ASSUME AdoptEntry(t) \/ (\E b \in Block : AddEntry(t, b)) PROVE FlagOK(t)'
  <2>1. UNCHANGED <<nested, regions, is_in_critical_region>> /\ pc[t] = "entry"
    BY <1>4 DEF AdoptEntry, AddEntry
  <2>2. nested[t] = 0 /\ regions[t] = 0 /\ ~InRegion(t) /\ block[t] = Null
    BY <1>0, <2>1, NoBlock DEF BlocksOK
  <2>3. ~InRegion(t)'
    BY <1>0, <2>1, <2>2 DEF InRegion, extends
  <2>4. pc' = pc \/ pc' = [pc EXCEPT ![t] = "initLoad"]
    BY <1>4 DEF AdoptEntry, AddEntry
  <2>5. pc'[t] \in {"entry", "initLoad"}
    BY <1>0, <2>1, <2>4 DEF TypeOK
  <2>6. block' = block \/ \E b \in Block : block' = [block EXCEPT ![t] = b] /\ state[b] # "active"
    <3>1. ASSUME AdoptEntry(t)
          PROVE  block' = block \/ \E b \in Block : block' = [block EXCEPT ![t] = b] /\ state[b] # "active"
      <4>1. Head(iter[t]) \in Block
        BY <1>0, <3>1, HeadTail DEF AdoptEntry, TypeOK
      <4> QED
        BY <3>1, <4>1 DEF AdoptEntry
    <3> QED
      BY <1>4, <3>1 DEF AddEntry
  <2>7. block'[t] # Null => ~flag(t)'
    <3>1. CASE block' = block
      BY <2>2, <3>1
    <3>2. ASSUME NEW b \in Block, block' = [block EXCEPT ![t] = b], state[b] # "active" PROVE ~flag(t)'
      <4>1. ~is_in_critical_region[b]
        BY <1>0, <3>2, EBNullAssumption DEF UnownedOK, BlocksOK
      <4>2. block'[t] = b
        BY <1>0, <3>2 DEF TypeOK
      <4> QED
        BY <2>1, <4>1, <4>2 DEF flag
    <3> QED
      BY <2>6, <3>1, <3>2
  <2> QED
    BY <2>1, <2>2, <2>3, <2>5, <2>7 DEF FlagOK
<1>5. ASSUME SetFlag(t) PROVE FlagOK(t)'
  <2>1. UNCHANGED <<nested, regions, block>> /\ pc[t] = "set" /\ block[t] \in Block
    BY <1>5, OwnBlock DEF SetFlag
  <2>2. flag(t)'
    BY <1>0, <1>5, <2>1 DEF SetFlag, flag, TypeOK
  <2>3. pc'[t] \in {"global", "idle"}
    BY <1>0, <1>5 DEF SetFlag, TypeOK
  <2>4. InRegion(t) /\ InRegion(t)' = InRegion(t)
    BY <1>0, <2>1 DEF FlagOK, InRegion, extends
  <2> QED
    BY <2>2, <2>3, <2>4 DEF FlagOK
<1>6. ASSUME InitLoad(t) \/ InitStore(t) \/ LoadGlobal(t) \/ ScanFlag(t) \/ ScanEpoch(t) \/ Advance(t) \/ Adopt(t)
             \/ StoreLocal(t) \/ (\E n \in Node : DeleteNode(t, n)) \/ Deleted(t) \/ Retire(t) \/ Abandon(t)
      PROVE  FlagOK(t)'
  <2>1. /\ UNCHANGED <<nested, regions, block, is_in_critical_region>>
        /\ pc[t] \in {"initLoad", "initStore", "global", "retire", "abandon"} \union UpdatePC
    BY <1>6 DEF InitLoad, InitStore, LoadGlobal, ScanFlag, ScanEpoch, Advance, Adopt, AdoptWith, StoreLocal,
         StoreLocalWith, DeleteNode, Deleted, Retire, Abandon, UpdatePC
  <2>2. pc' = pc \/ \E x \in PCSet \ {"set", "clear"} : pc' = [pc EXCEPT ![t] = x]
    BY <1>6 DEF InitLoad, InitStore, LoadGlobal, ScanFlag, ScanEpoch, NextThread, Advance, Adopt, AdoptWith,
         StoreLocal, StoreLocalWith, DeleteNode, Deleted, Retire, Abandon, PCSet
  <2>3. pc[t] \notin {"set", "clear"} /\ pc'[t] \notin {"set", "clear"}
    BY <1>0, <2>1, <2>2 DEF TypeOK, UpdatePC
  <2> QED
    BY <2>1, <2>3, FlagKept
<1>7. ASSUME Load(t) PROVE FlagOK(t)'
  <2>1. pc[t] = "load" /\ gd[t] \in GuardId /\ UNCHANGED <<block, is_in_critical_region>>
    BY <1>0, <1>7 DEF Load, CallOK, AcquirePC
  <2>2. \/ pc' = [pc EXCEPT ![t] = "idle"] /\ UNCHANGED <<nested, regions>>
        \/ Leave(t, "load")
    BY <1>7 DEF Load
  <2>3. CASE Leave(t, "load")
    BY <2>1, <2>3, HeldCounted, FlagLeave
  <2>4. CASE pc' = [pc EXCEPT ![t] = "idle"] /\ UNCHANGED <<nested, regions>>
    <3>1. pc'[t] = "idle"
      BY <1>0, <2>4 DEF TypeOK
    <3> QED
      BY <2>1, <2>4, <3>1, FlagKept
  <2> QED
    BY <2>2, <2>3, <2>4
<1>8. ASSUME ReclaimReset(t) PROVE FlagOK(t)'
  <2>1. gd[t] \in GuardId /\ ptr[t][gd[t]] # Null /\ pc[t] = "reset"
    BY <1>0, <1>8, EBNullAssumption DEF ReclaimReset, CallOK
  <2> QED
    BY <1>8, <2>1, HeldCounted, FlagLeave DEF ReclaimReset
<1>9. ASSUME ClearFlag(t) PROVE FlagOK(t)'
  <2>1. UNCHANGED <<nested, regions, block>> /\ pc[t] = "clear" /\ block[t] \in Block
    BY <1>9, OwnBlock DEF ClearFlag
  <2>2. ~flag(t)'
    BY <1>0, <1>9, <2>1 DEF ClearFlag, flag, TypeOK
  <2>3. pc'[t] \in {"abandon", "idle"}
    BY <1>0, <1>9 DEF ClearFlag, TypeOK
  <2>4. ~InRegion(t)
    BY <1>0, <2>1 DEF FlagOK
  <2>5. nested[t] \in Nat /\ regions[t] \in Nat /\ (extends => regions[t] >= nested[t])
    BY <1>0 DEF CountOK, TypeOK
  <2>6. nested[t] = 0 /\ (policy.region = "eager" => regions[t] = 0)
    BY <2>4, <2>5 DEF InRegion, extends
  <2> QED
    BY <1>0, <2>1, <2>2, <2>3, <2>6 DEF FlagOK
<1>10. ASSUME Release(t) PROVE FlagOK(t)'
  <2>1. /\ UNCHANGED <<nested, regions, is_in_critical_region>> /\ pc[t] = "release"
        /\ pc'[t] = "idle" /\ block'[t] = Null
    BY <1>0, <1>10 DEF Release, TypeOK
  <2>2. ~guarded[t] /\ Counted(t) = {}
    BY <1>0, <2>1 DEF CallOK, Counted, UpdatePC
  <2>3. nested[t] = 0 /\ (extends => regions[t] = 0)
    BY <1>0, <2>1, <2>2, FS_EmptySet DEF CountOK, Region
  <2>4. policy.region = "eager" => extends
    BY DEF extends
  <2> QED
    BY <1>0, <2>1, <2>3, <2>4 DEF FlagOK
<1> QED
  BY <1>1, <1>2, <1>3, <1>4, <1>5, <1>6, <1>7, <1>8, <1>9, <1>10, FlagEnter
     DEF Step, ClientStep, EnterStep, LeaveStep

LEMMA FlagNext ==
  ASSUME EInv, NEW t \in Thread, Step(t)
  PROVE  \A u \in Thread : FlagOK(u)'
BY FlagOwn, FlagOthers

\* Only the owner of a block sets its flag, and clears it before it ends.
LEMMA UnownedNext ==
  ASSUME EInv, NEW t \in Thread, Step(t)
  PROVE  UnownedOK'
<1>0. TypeOK /\ UnownedOK /\ (\A u \in Thread : BlocksOK(u)) /\ FlagOK(t) /\ CallOK(t) /\ CountOK(t)
  BY DEF EInv
<1> SUFFICES ASSUME NEW b \in Block, is_in_critical_region'[b] PROVE \E u \in Thread : block'[u] = b
  BY DEF UnownedOK
<1>1. CASE b = block[t]
  <2>1. block'[t] = b
    <3>1. CASE Release(t)
      <4>1. pc[t] = "release" /\ is_in_critical_region' = is_in_critical_region
        BY <3>1 DEF Release, Goto
      <4>2. ~guarded[t] /\ Counted(t) = {}
        BY <1>0, <4>1 DEF CallOK, Counted, UpdatePC
      <4>3. ~InRegion(t)
        BY <1>0, <4>1, <4>2, FS_EmptySet DEF CountOK, Region, InRegion
      <4>4. block[t] # Null
        BY <1>1, EBNullAssumption
      <4> QED
        BY <1>0, <1>1, <4>1, <4>3, <4>4 DEF FlagOK, flag
    <3>2. CASE ~Release(t)
      <4>1. ~BlockChange(t)
        <5>1. block[t] # Null
          BY <1>1, EBNullAssumption
        <5> QED
          BY <1>0, <3>2, <5>1 DEF BlockChange, BlocksOK, AdoptEntry, AddEntry, Goto
      <4> QED
        BY <1>0, <1>1, <4>1, BlockStays
    <3> QED
      BY <3>1, <3>2
  <2> QED
    BY <2>1
<1>2. CASE b # block[t]
  <2>1. is_in_critical_region[b]
    BY <1>0, <1>2, BlocksElsewhere
  <2>2. PICK u \in Thread : block[u] = b
    BY <1>0, <2>1 DEF UnownedOK
  <2>3. Untouched(u)
    BY <1>0, <1>2, <2>2, OthersSame
  <2> QED
    BY <2>2, <2>3 DEF Untouched
<1> QED
  BY <1>1, <1>2

-----------------------------------------------------------------------------
(* The epochs                                                              *)

LEMMA Updating ==
  ASSUME EInv, NEW t \in Thread, pc[t] \in {"global", "load"} \union UpdatePC
  PROVE  /\ nested[t] > 0 /\ block[t] \in Block /\ block[t] # Null /\ Running(t)
         /\ pc[t] # "global" => Registered(t)
<1>1. op[t] # "region" /\ gd[t] \in GuardId
  BY DEF EInv, CallOK, AcquirePC, UpdatePC
<1>2. gd[t] \in Counted(t)
  BY <1>1 DEF Counted
<1> QED
  BY <1>2, GuardCounted DEF Running, InitPC, Registered, UpdatePC

LEMMA RegisteredFacts ==
  ASSUME EInv, NEW t \in Thread, Registered(t)
  PROVE  /\ block[t] \in Block /\ block[t] # Null /\ Running(t)
         /\ pc[t] # "set" /\ flag(t) /\ local(t) \in Nat /\ epoch[t] \in Nat /\ global_epoch \in Nat
<1>1. TypeOK /\ CountOK(t) /\ CallOK(t) /\ FlagOK(t) /\ nested[t] > 0
  BY DEF EInv, Registered
<1>2. block[t] # Null /\ block[t] \in Block
  BY <1>1 DEF CountOK, TypeOK
<1>3. pc[t] \notin InitPC
  <2>1. SUFFICES ASSUME pc[t] \in InitPC PROVE FALSE
    OBVIOUS
  <2>2. Counted(t) = {}
    BY <1>1, <2>1 DEF CallOK, Counted, InitPC, UpdatePC
  <2> QED
    BY <1>1, <2>2, FS_EmptySet DEF CountOK
<1> QED
  BY <1>1, <1>2, <1>3 DEF Registered, Running, FlagOK, local, TypeOK

\* Whoever moves the global epoch on has passed all threads in a region: they
\* are in the epoch that ends.
LEMMA AdvanceFacts ==
  ASSUME EInv, NEW t \in Thread, Advance(t), global_epoch = epoch[t]
  PROVE  /\ local(t) = global_epoch /\ global_epoch' = global_epoch + 1
         /\ \A u \in Thread : Registered(u) => Bound(u) = global_epoch
<1>1. pc[t] = "advance" /\ EpochOK(t) /\ ScanOK(t) /\ IterOK(t) /\ TypeOK
  BY DEF Advance, EInv
<1>2. local(t) = global_epoch /\ iter[t] = << >>
  BY <1>1 DEF EpochOK, IterOK
<1>3. Scanning(t)
  BY <1>1, Updating DEF Scanning, UpdatePC
<1>4. \A b : Passed(t, b)
  BY <1>2 DEF Passed
<1> QED
  BY <1>1, <1>2, <1>3, <1>4 DEF ScanOK, Advance

LEMMA EpochMoves ==
  ASSUME EInv, NEW t \in Thread, Step(t)
  PROVE  \/ global_epoch' = global_epoch
         \/ Advance(t) /\ global_epoch = epoch[t] /\ global_epoch' = global_epoch + 1
<1>1. Advance(t) \/ global_epoch' = global_epoch
  BY DEF Step, ClientStep, EnterStep, LeaveStep, Acquire, Unlink, Copy, Reset, Insert,
       RegionGuard, EndRegion, Exit, AdoptEntry, AddEntry, InitLoad, InitStore, Enter, SetFlag, LoadGlobal,
       ScanFlag, ScanEpoch, Adopt, AdoptWith, StoreLocal, StoreLocalWith, DeleteNode, Deleted, Load,
       Retire, ReclaimReset, ClearFlag, Abandon, Release, shared
<1> QED
  BY <1>1 DEF Advance

LEMMA EpochOthers ==
  ASSUME EInv, NEW t \in Thread, Step(t), NEW u \in Thread \ {t}
  PROVE  /\ EpochOK(u)'
         /\ Registered(u)' <=> Registered(u)
         /\ Registered(u) => Bound(u)' = Bound(u) /\ block'[u] = block[u]
<1>1. TypeOK /\ EpochOK(u) /\ Untouched(u) /\ CallOK(u) /\ BlocksOK(u)
  BY OthersSame DEF EInv
<1>2. block[u] # Null => local(u)' = local(u) /\ local(u) \in Nat
  BY <1>1, FlagOthers DEF local, TypeOK
<1>3. (Registered(u)' <=> Registered(u)) /\ (Running(u)' <=> Running(u))
  BY <1>1 DEF Registered, Running, Untouched
<1>4. Registered(u) => Bound(u)' = Bound(u) /\ Bound(u) \in Nat
  BY <1>1, <1>2, RegisteredFacts DEF Bound, Untouched
<1>5. /\ pc[u] = "initStore" => block[u] # Null
      /\ pc[u] \in UpdatePC => block[u] # Null /\ Registered(u) /\ (pc[u] # "local" => Bound(u) = local(u))
  BY <1>1, Updating DEF BlocksOK, UpdatePC, Bound
<1>6. epoch[u] \in Nat /\ global_epoch \in Nat
  BY <1>1 DEF TypeOK
<1>7. CASE global_epoch' = global_epoch
  BY <1>1, <1>2, <1>3, <1>4, <1>5, <1>7, RegisteredFacts DEF EpochOK, UpdatePC, Untouched, Running
<1>8. CASE Advance(t) /\ global_epoch = epoch[t] /\ global_epoch' = global_epoch + 1
  <2>1. Registered(u) => Bound(u) = global_epoch
    BY <1>8, AdvanceFacts
  <2>2. (pc[u] = "initStore" => epoch[u] <= global_epoch)'
    BY <1>1, <1>6, <1>8 DEF EpochOK, Untouched
  <2>3. (Running(u) => local(u) <= global_epoch)'
    BY <1>1, <1>2, <1>3, <1>6, <1>8 DEF EpochOK, Running
  <2>4. (Registered(u) => Bound(u) <= global_epoch /\ global_epoch <= Bound(u) + 1)'
    BY <1>3, <1>4, <1>6, <1>8, <2>1
  <2>5. /\ (pc[u] \in {"scan", "scanEpoch", "advance"} => epoch[u] = local(u))'
        /\ (pc[u] = "local" => epoch[u] > local(u))'
    BY <1>1, <1>2, <1>5 DEF EpochOK, Untouched, UpdatePC
  <2>6. (pc[u] \in {"adopt", "delete"} =>
          \/ epoch[u] = local(u) + 1 /\ global_epoch = epoch[u]
          \/ pc[u] = "delete" /\ epoch[u] = local(u))'
    <3>1. SUFFICES ASSUME pc[u] \in {"adopt", "delete"} PROVE pc[u] = "delete" /\ epoch[u] = local(u)
      BY <1>1, <1>2, <1>5, <3>1 DEF Untouched, UpdatePC
    <3>2. local(u) = global_epoch /\ local(u) \in Nat
      BY <1>2, <1>5, <2>1, <3>1 DEF UpdatePC
    <3> QED
      BY <1>1, <1>6, <3>1, <3>2 DEF EpochOK
  <2> QED
    BY <1>3, <1>4, <1>1, <2>2, <2>3, <2>4, <2>5, <2>6 DEF EpochOK, Untouched
<1> QED
  BY <1>7, <1>8, EpochMoves

\* A step outside the update of the epochs
LEMMA EpochKept ==
  ASSUME EInv, NEW t \in Thread, Step(t), UNCHANGED <<block, local_epoch, global_epoch>>,
         pc[t] # "local", pc'[t] \notin {"initStore"} \union UpdatePC,
         block'[t] # Null /\ pc'[t] \notin InitPC => Running(t),
         nested'[t] > 0 /\ pc'[t] \notin {"set", "global"} => Registered(t)
  PROVE  /\ EpochOK(t)'
         /\ Registered(t)' => Registered(t) /\ Bound(t)' = Bound(t)
<1>1. EpochOK(t)
  BY DEF EInv
<1>2. local(t)' = local(t) /\ (Registered(t)' => Registered(t)) /\ (Running(t)' => Running(t))
  BY DEF local, Registered, Running
<1>3. Registered(t)' => Bound(t)' = Bound(t) /\ Bound(t) = local(t)
  BY <1>2 DEF Bound, UpdatePC
<1> QED
  BY <1>1, <1>2, <1>3 DEF EpochOK, UpdatePC

\* A thread that comes into a region, or whose bound changes, is in the current epoch.
Follows(t) == Registered(t)' => \/ Registered(t) /\ Bound(t)' = Bound(t) /\ block'[t] = block[t]
                                \/ Bound(t)' = global_epoch'

LEMMA EpochOutside ==
  ASSUME EInv, NEW t \in Thread,
         ClientStep(t) \/ LeaveStep(t) \/ Enter(t) \/ SetFlag(t) \/ Load(t)
  PROVE  EpochOK(t)' /\ Follows(t)
<1> USE DEF Goto, nodes, shared, counts, own, guards, call, Call, Return
<1>0. /\ TypeOK /\ BlocksOK(t) /\ CallOK(t) /\ CountOK(t) /\ FlagOK(t) /\ Step(t) /\ Null \notin Node
  BY EBNullAssumption DEF EInv, Step, EnterStep
<1>1. UNCHANGED <<local_epoch, global_epoch>>
  BY DEF ClientStep, LeaveStep, Acquire, Unlink, Copy, Reset, Insert, RegionGuard, EndRegion, Exit,
         Enter, SetFlag, Load, Retire, ReclaimReset, ClearFlag, Abandon, Release
<1>2. ASSUME Release(t) PROVE EpochOK(t)' /\ Follows(t)
  <2>1. pc'[t] = "idle" /\ block'[t] = Null /\ nested' = nested /\ pc[t] = "release"
    BY <1>0, <1>2 DEF Release, TypeOK
  <2>2. Counted(t) = {}
    BY <1>0, <2>1 DEF CallOK, Counted, UpdatePC
  <2>3. nested[t] = 0
    BY <1>0, <2>2, FS_EmptySet DEF CountOK
  <2> QED
    BY <2>1, <2>3 DEF EpochOK, Follows, Registered, Running
<1>3. CASE ~Release(t)
  <2>1. UNCHANGED block
    BY <1>3 DEF ClientStep, LeaveStep, Acquire, Unlink, Copy, Reset, Insert, RegionGuard, EndRegion, Exit,
         Enter, SetFlag, Load, Retire, ReclaimReset, ClearFlag, Abandon
  <2>2. pc[t] \in {"idle", "enter", "set", "load", "retire", "reset", "clear", "abandon"}
    BY <1>3 DEF ClientStep, LeaveStep, Acquire, Unlink, Copy, Reset, Leave, Insert, RegionGuard, EndRegion, Exit,
         Enter, SetFlag, Load, Retire, ReclaimReset, ClearFlag, Abandon
  <2>3. pc' = pc \/ \E x \in PCSet \ ({"initLoad", "initStore"} \union UpdatePC) : pc' = [pc EXCEPT ![t] = x]
    BY <1>3 DEF ClientStep, LeaveStep, Acquire, Unlink, Copy, Reset, Leave, Insert, RegionGuard, EndRegion, Exit,
         Enter, SetFlag, Load, Retire, ReclaimReset, ClearFlag, Abandon, PCSet, UpdatePC, First
  <2>4. pc'[t] \notin {"initLoad", "initStore"} \union UpdatePC
    BY <1>0, <2>2, <2>3 DEF TypeOK, UpdatePC
  <2>5. nested'[t] > 0 /\ pc'[t] \notin {"set", "global"} => Registered(t)
    <3>1. CASE Enter(t)
      <4>1. nested'[t] = (IF op[t] = "region" THEN nested[t] ELSE nested[t] + 1) /\ nested[t] \in Nat
        BY <1>0, <3>1 DEF Enter, TypeOK
      <4>2. op[t] # "region" /\ nested[t] = 0 => pc'[t] \in {"set", "global"}
        BY <1>0, <3>1 DEF Enter, TypeOK
      <4>3. pc[t] = "enter"
        BY <3>1 DEF Enter
      <4> QED
        BY <4>1, <4>2, <4>3 DEF Registered
    <3>2. CASE SetFlag(t)
      <4>1. nested' = nested /\ pc[t] = "set"
        BY <3>2 DEF SetFlag
      <4>2. op[t] # "region" => pc'[t] = "global"
        BY <1>0, <3>2 DEF SetFlag, TypeOK
      <4>3. op[t] = "region" => Counted(t) = {}
        BY <1>0, <4>1 DEF CallOK, Counted
      <4>4. op[t] = "region" => nested[t] = 0
        BY <1>0, <4>3, FS_EmptySet DEF CountOK
      <4> QED
        BY <4>1, <4>2, <4>4
    <3>3. CASE ~Enter(t) /\ ~SetFlag(t)
      <4>1. nested' = nested \/ nested' = [nested EXCEPT ![t] = nested[t] - 1]
        BY <3>3, <1>3 DEF ClientStep, LeaveStep, Acquire, Unlink, Copy, Reset, Leave, Insert, RegionGuard,
           EndRegion, Exit, Load, Retire, ReclaimReset, ClearFlag, Abandon
      <4>2. nested[t] \in Nat /\ (nested'[t] = nested[t] \/ nested'[t] = nested[t] - 1)
        BY <1>0, <4>1 DEF TypeOK
      <4>3. pc[t] # "set"
        BY <3>3, <1>3 DEF ClientStep, LeaveStep, Acquire, Unlink, Copy, Reset, Leave, Insert, RegionGuard,
           EndRegion, Exit, Load, Retire, ReclaimReset, ClearFlag, Abandon
      <4> QED
        BY <2>2, <4>2, <4>3 DEF Registered
    <3> QED
      BY <3>1, <3>2, <3>3
  <2>6. pc[t] \notin InitPC /\ pc[t] # "local" /\ block'[t] = block[t]
    BY <2>1, <2>2 DEF InitPC
  <2>7. EpochOK(t)' /\ (Registered(t)' => Registered(t) /\ Bound(t)' = Bound(t))
    BY <1>0, <1>1, <2>1, <2>4, <2>5, <2>6, EpochKept DEF Running, InitPC
  <2> QED
    BY <2>6, <2>7 DEF Follows
<1> QED
  BY <1>2, <1>3

LEMMA EpochInside ==
  ASSUME EInv, NEW t \in Thread,
         \/ LoadGlobal(t) \/ ScanFlag(t) \/ ScanEpoch(t) \/ Advance(t) \/ Adopt(t) \/ StoreLocal(t)
         \/ (\E n \in Node : DeleteNode(t, n)) \/ Deleted(t)
  PROVE  EpochOK(t)' /\ Follows(t)
<1> USE DEF Goto, nodes, shared, counts, own, guards, call, Call, Return
<1>0. /\ TypeOK /\ EpochOK(t) /\ pc[t] \in {"global"} \union UpdatePC
      /\ UNCHANGED <<block, nested>>
  BY DEF EInv, LoadGlobal, ScanFlag, ScanEpoch, Advance, Adopt, AdoptWith, StoreLocal, StoreLocalWith,
         DeleteNode, Deleted, UpdatePC
<1>1. /\ nested[t] > 0 /\ block[t] \in Block /\ block[t] # Null /\ Running(t)
      /\ local(t) \in Nat /\ epoch[t] \in Nat /\ global_epoch \in Nat
      /\ pc[t] # "global" => Registered(t)
  <2>1. local(t) = local_epoch[block[t]]
    BY DEF local
  <2> QED
    BY <1>0, <2>1, Updating DEF UpdatePC, TypeOK
<1>2. /\ local(t) <= global_epoch
      /\ pc[t] \in UpdatePC \ {"local"} => global_epoch <= local(t) + 1
      /\ pc[t] = "local" => epoch[t] <= global_epoch /\ global_epoch <= epoch[t] + 1
  BY <1>0, <1>1 DEF EpochOK, Bound, UpdatePC
<1>3. ASSUME LoadGlobal(t) PROVE EpochOK(t)' /\ Follows(t)
  <2>1. epoch'[t] = global_epoch /\ global_epoch' = global_epoch /\ local(t)' = local(t)
    BY <1>0, <1>3 DEF LoadGlobal, TypeOK, local
  <2>2. \/ pc'[t] = "local" /\ local(t) # global_epoch
        \/ pc'[t] \in {"scan", "load"} /\ local(t) = global_epoch
    BY <1>0, <1>3 DEF LoadGlobal, TypeOK, local
  <2>3. Bound(t)' = global_epoch
    BY <2>1, <2>2 DEF Bound
  <2> QED
    BY <1>1, <1>2, <2>1, <2>2, <2>3 DEF EpochOK, Follows
<1>4. ASSUME ScanFlag(t) \/ ScanEpoch(t) PROVE EpochOK(t)' /\ Follows(t)
  <2>1. epoch' = epoch /\ global_epoch' = global_epoch /\ local(t)' = local(t) /\ pc[t] \in {"scan", "scanEpoch"}
    BY <1>4 DEF ScanFlag, ScanEpoch, local
  <2>2. \E x \in {"advance", "scan", "scanEpoch", "load"} : pc' = [pc EXCEPT ![t] = x]
    BY <1>4 DEF ScanFlag, ScanEpoch, NextThread
  <2>3. pc'[t] \in {"advance", "scan", "scanEpoch", "load"}
    BY <1>0, <2>2 DEF TypeOK
  <2>4. epoch[t] = local(t) /\ Bound(t) = local(t) /\ Bound(t)' = local(t)
    BY <1>0, <2>1, <2>3 DEF EpochOK, Bound
  <2> QED
    BY <1>0, <1>1, <1>2, <2>1, <2>3, <2>4 DEF EpochOK, Follows, UpdatePC
<1>5. ASSUME Advance(t) PROVE EpochOK(t)' /\ Follows(t)
  <2>1. pc[t] = "advance" /\ epoch[t] = local(t) /\ epoch'[t] = epoch[t] + 1 /\ local(t)' = local(t)
    BY <1>0, <1>5 DEF Advance, EpochOK, local, TypeOK
  <2>2. CASE global_epoch = epoch[t]
    <3>1. pc'[t] = "adopt" /\ global_epoch' = global_epoch + 1
      BY <1>0, <1>5, <2>2 DEF Advance, TypeOK
    <3>2. Bound(t)' = local(t) /\ Bound(t) = local(t)
      BY <2>1, <3>1 DEF Bound
    <3>3. EpochOK(t)'
      BY <1>1, <1>2, <2>1, <2>2, <3>1, <3>2 DEF EpochOK
    <3> QED
      BY <1>0, <1>1, <2>1, <3>2, <3>3 DEF Follows
  <2>3. CASE global_epoch # epoch[t]
    <3>1. pc'[t] = "local" /\ global_epoch' = global_epoch
      BY <1>0, <1>5, <2>3 DEF Advance, TypeOK
    <3>2. global_epoch = local(t) + 1
      BY <1>1, <1>2, <2>1, <2>3 DEF UpdatePC
    <3>3. Bound(t)' = global_epoch
      BY <2>1, <3>1, <3>2 DEF Bound
    <3> QED
      BY <1>1, <2>1, <3>1, <3>2, <3>3 DEF EpochOK, Follows
  <2> QED
    BY <2>2, <2>3
<1>6. ASSUME Adopt(t) PROVE EpochOK(t)' /\ Follows(t)
  <2>1. /\ pc[t] = "adopt" /\ pc'[t] = "delete" /\ epoch' = epoch /\ global_epoch' = global_epoch
        /\ local(t)' = local(t)
    BY <1>0, <1>6 DEF Adopt, AdoptWith, TypeOK, local
  <2>2. Bound(t) = local(t) /\ Bound(t)' = local(t)
    BY <2>1 DEF Bound
  <2> QED
    BY <1>0, <1>1, <1>2, <2>1, <2>2 DEF EpochOK, Follows, UpdatePC
<1>7. ASSUME StoreLocal(t) PROVE EpochOK(t)' /\ Follows(t)
  <2>1. /\ pc[t] = "local" /\ pc'[t] = "delete" /\ epoch' = epoch /\ global_epoch' = global_epoch
        /\ local(t)' = epoch[t]
    BY <1>0, <1>1, <1>7 DEF StoreLocal, StoreLocalWith, TypeOK, local
  <2>2. Bound(t) = epoch[t] /\ Bound(t)' = epoch[t]
    BY <2>1 DEF Bound
  <2> QED
    BY <1>0, <1>1, <1>2, <2>1, <2>2 DEF EpochOK, Follows, UpdatePC
<1>8. ASSUME NEW n \in Node, DeleteNode(t, n) PROVE EpochOK(t)' /\ Follows(t)
  <2>1. /\ pc[t] = "delete" /\ pc' = pc /\ epoch' = epoch /\ global_epoch' = global_epoch
        /\ local(t)' = local(t)
    BY <1>8 DEF DeleteNode, local
  <2>2. Bound(t) = local(t) /\ Bound(t)' = local(t)
    BY <2>1 DEF Bound
  <2> QED
    BY <1>0, <1>1, <1>2, <2>1, <2>2 DEF EpochOK, Follows, UpdatePC
<1>9. ASSUME Deleted(t) PROVE EpochOK(t)' /\ Follows(t)
  <2>1. /\ pc[t] = "delete" /\ epoch' = epoch /\ global_epoch' = global_epoch /\ local(t)' = local(t)
        /\ \/ pc'[t] = "local" /\ local(t) # epoch[t]
           \/ pc'[t] = "load" /\ local(t) = epoch[t]
    BY <1>0, <1>9 DEF Deleted, TypeOK, local
  <2>2. Bound(t) = local(t)
    BY <2>1 DEF Bound
  <2>3. CASE pc'[t] = "local" /\ local(t) # epoch[t]
    <3>1. epoch[t] = local(t) + 1 /\ global_epoch = epoch[t] /\ Bound(t)' = epoch[t]
      BY <1>0, <2>1, <2>3 DEF EpochOK, Bound
    <3> QED
      BY <1>1, <2>1, <2>3, <3>1 DEF EpochOK, Follows
  <2>4. CASE pc'[t] = "load" /\ local(t) = epoch[t]
    <3>1. Bound(t)' = local(t)
      BY <2>1, <2>4 DEF Bound
    <3> QED
      BY <1>0, <1>1, <1>2, <2>1, <2>2, <2>4, <3>1 DEF EpochOK, Follows, UpdatePC
  <2> QED
    BY <2>1, <2>3, <2>4
<1> QED
  BY <1>3, <1>4, <1>5, <1>6, <1>7, <1>8, <1>9

LEMMA EpochFirst ==
  ASSUME EInv, NEW t \in Thread,
         AdoptEntry(t) \/ (\E b \in Block : AddEntry(t, b)) \/ InitLoad(t) \/ InitStore(t)
  PROVE  EpochOK(t)' /\ Follows(t)
<1> USE DEF Goto, nodes, shared, counts, own, guards, call, Call, Return
<1>0. TypeOK /\ CallOK(t) /\ CountOK(t) /\ EpochOK(t) /\ BlocksOK(t)
  BY DEF EInv
<1>1. pc[t] \in {"entry", "initLoad", "initStore"} /\ UNCHANGED <<nested, global_epoch>>
  BY DEF AdoptEntry, AddEntry, InitLoad, InitStore
<1>2. Counted(t) = {}
  BY <1>0, <1>1 DEF CallOK, Counted, UpdatePC
<1>3. nested[t] = 0 /\ nested'[t] = 0
  BY <1>0, <1>1, <1>2, FS_EmptySet DEF CountOK
<1>4. ~Registered(t)'
  BY <1>3 DEF Registered
<1>5. ASSUME AdoptEntry(t) \/ (\E b \in Block : AddEntry(t, b)) PROVE EpochOK(t)'
  <2>1. pc[t] = "entry" /\ (pc' = [pc EXCEPT ![t] = "initLoad"] \/ UNCHANGED <<pc, block>>)
    BY <1>5 DEF AdoptEntry, AddEntry
  <2>2. pc'[t] = "initLoad" \/ (pc'[t] = "entry" /\ block'[t] = Null)
    BY <1>0, <2>1 DEF TypeOK, BlocksOK
  <2> QED
    BY <1>4, <2>2 DEF EpochOK, Running, InitPC
<1>6. ASSUME InitLoad(t) PROVE EpochOK(t)'
  <2>1. pc'[t] = "initStore" /\ epoch'[t] = global_epoch /\ global_epoch \in Nat /\ global_epoch' = global_epoch
    BY <1>0, <1>6 DEF InitLoad, TypeOK
  <2> QED
    BY <1>4, <2>1 DEF EpochOK, Running, InitPC
<1>7. ASSUME InitStore(t) PROVE EpochOK(t)'
  <2>1. block[t] \in Block
    BY <1>7, OwnBlock DEF InitStore
  <2>2. pc'[t] = "enter" /\ local(t)' = epoch[t] /\ epoch[t] <= global_epoch /\ global_epoch' = global_epoch
    BY <1>0, <1>7, <2>1 DEF InitStore, EpochOK, TypeOK, local
  <2> QED
    BY <1>4, <2>2 DEF EpochOK, Running, InitPC
<1> QED
  BY <1>4, <1>5, <1>6, <1>7 DEF Follows

LEMMA EpochOwn ==
  ASSUME EInv, NEW t \in Thread, Step(t)
  PROVE  EpochOK(t)' /\ Follows(t)
<1>1. \/ ClientStep(t) \/ LeaveStep(t) \/ Enter(t) \/ SetFlag(t) \/ Load(t)
      \/ LoadGlobal(t) \/ ScanFlag(t) \/ ScanEpoch(t) \/ Advance(t) \/ Adopt(t) \/ StoreLocal(t)
      \/ (\E n \in Node : DeleteNode(t, n)) \/ Deleted(t)
      \/ AdoptEntry(t) \/ (\E b \in Block : AddEntry(t, b)) \/ InitLoad(t) \/ InitStore(t)
  BY DEF Step, EnterStep
<1> QED
  BY <1>1, EpochOutside, EpochInside, EpochFirst

LEMMA EpochNext ==
  ASSUME EInv, NEW t \in Thread, Step(t)
  PROVE  \A u \in Thread : EpochOK(u)'
BY EpochOwn, EpochOthers

-----------------------------------------------------------------------------
(* Scans pass only threads that are in the current epoch                   *)

LEMMA ScanOthers ==
  ASSUME EInv, NEW t \in Thread, Step(t), NEW u \in Thread \ {t}
  PROVE  ScanOK(u)'
<1>1. TypeOK /\ ScanOK(u) /\ EpochOK(u) /\ Untouched(u) /\ policy' = policy
  BY OthersSame DEF EInv
<1>2. SUFFICES ASSUME Scanning(u)', local(u)' = global_epoch', NEW v \in Thread,
                      Registered(v)', Passed(u, block[v])'
               PROVE  Bound(v)' = global_epoch'
  BY DEF ScanOK, Passed
<1>3. Scanning(u) /\ Running(u) /\ local(u)' = local(u)
  BY <1>1, <1>2, FlagOthers DEF Scanning, Running, Untouched
<1>4. local(u) <= global_epoch /\ global_epoch \in Nat
  BY <1>1, <1>3 DEF EpochOK, TypeOK
<1>5. global_epoch' = global_epoch
  BY <1>2, <1>3, <1>4, EpochMoves
<1>6. \/ Registered(v) /\ Bound(v)' = Bound(v) /\ block'[v] = block[v]
      \/ Bound(v)' = global_epoch'
  <2>1. CASE v = t
    BY <1>2, <2>1, EpochOwn DEF Follows
  <2>2. CASE v # t
    BY <1>2, <2>2, EpochOthers
  <2> QED
    BY <2>1, <2>2
<1>7. iter'[u] = iter[u]
  BY <1>1 DEF Untouched
<1> QED
  BY <1>1, <1>2, <1>3, <1>5, <1>6, <1>7 DEF ScanOK, Passed

\* A scan begins with all blocks, stays where it is, or goes on by one.
Begins(t) == iter'[t] = blocks /\ blocks' = blocks
Stays(t) == Scanning(t) /\ local(t)' = local(t) /\ iter'[t] = iter[t]
Continues(t) == /\ Scanning(t) /\ local(t)' = local(t) /\ iter[t] # << >> /\ iter'[t] = Tail(iter[t])
                /\ \/ ~is_in_critical_region[Head(iter[t])]
                   \/ local_epoch[Head(iter[t])] = local(t)

LEMMA ScanStep ==
  ASSUME EInv, NEW t \in Thread, Step(t), Scanning(t)'
  PROVE  Begins(t) \/ Stays(t) \/ Continues(t)
<1> USE DEF Goto, nodes, shared, counts, own, guards, call, Call, Return
<1>0. /\ TypeOK /\ IterOK(t) /\ EpochOK(t) /\ BlocksOK(t) /\ policy' = policy /\ policy.scan \in {"all", "one"}
      /\ pc'[t] \notin InitPC /\ block'[t] # Null
      /\ pc'[t] \notin {"scan", "scanEpoch", "advance"} =>
            policy.scan = "one" /\ pc'[t] \notin {"adopt", "delete", "local"}
  BY OthersSame, PolicyFacts DEF EInv, Scanning, Running
<1>1. ASSUME ClientStep(t) PROVE Stays(t)
  <2>1. UNCHANGED <<block, local_epoch>> /\ pc[t] = "idle"
    BY <1>1 DEF ClientStep, Acquire, Unlink, Copy, Reset, Leave, Insert, RegionGuard, EndRegion, Exit
  <2>2. iter'[t] = iter[t]
    BY <1>0, <1>1, <2>1 DEF ClientStep, Acquire, Unlink, Copy, Reset, Insert, RegionGuard, EndRegion, Exit, FirstIter, TypeOK
  <2>3. pc' = pc \/ \E x \in {"load", "idle", "enter", "entry", "retire", "clear", "abandon", "release"} :
           pc' = [pc EXCEPT ![t] = x]
    BY <1>1 DEF ClientStep, Acquire, Unlink, Copy, Reset, Leave, Insert, RegionGuard, EndRegion, Exit, First
  <2>4. pc'[t] \in {"load", "idle", "enter", "entry", "retire", "clear", "abandon", "release"}
    BY <1>0, <2>1, <2>3 DEF TypeOK
  <2> QED
    BY <1>0, <2>1, <2>2, <2>4 DEF Stays, Scanning, Running, InitPC, local
<1>2. ASSUME AdoptEntry(t) \/ (\E b \in Block : AddEntry(t, b)) \/ InitLoad(t) \/ Release(t) PROVE FALSE
  <2>1. \/ pc[t] = "entry" /\ UNCHANGED block
        \/ pc' = [pc EXCEPT ![t] = "initLoad"] \/ pc' = [pc EXCEPT ![t] = "initStore"]
        \/ block' = [block EXCEPT ![t] = Null]
    BY <1>2 DEF AdoptEntry, AddEntry, InitLoad, Release
  <2> QED
    BY <1>0, <2>1 DEF BlocksOK, InitPC, TypeOK
<1>3. ASSUME InitStore(t) PROVE Begins(t)
  <2>1. pc'[t] = "enter" /\ policy.scan = "one" /\ blocks' = blocks
    BY <1>0, <1>3 DEF InitStore, TypeOK
  <2> QED
    BY <1>0, <1>3, <2>1 DEF InitStore, ResetScan, Begins, TypeOK
<1>4. ASSUME Enter(t) \/ SetFlag(t) \/ Load(t) \/ Retire(t) \/ ReclaimReset(t) \/ ClearFlag(t) \/ Abandon(t)
      PROVE  Stays(t)
  <2>1. /\ UNCHANGED <<block, local_epoch, iter>>
        /\ pc[t] \in {"enter", "set", "load", "retire", "reset", "clear", "abandon"}
    BY <1>4 DEF Enter, SetFlag, Load, Retire, ReclaimReset, ClearFlag, Abandon
  <2>2. \E x \in {"set", "global", "load", "idle", "reset", "clear", "abandon", "release"} :
           pc' = [pc EXCEPT ![t] = x]
    BY <1>4 DEF Enter, SetFlag, Load, Retire, ReclaimReset, Leave, ClearFlag, Abandon
  <2>3. pc'[t] \in {"set", "global", "load", "idle", "reset", "clear", "abandon", "release"}
    BY <1>0, <2>2 DEF TypeOK
  <2> QED
    BY <1>0, <2>1, <2>3 DEF Stays, Scanning, Running, InitPC, local
<1>5. ASSUME LoadGlobal(t) PROVE Begins(t) \/ Stays(t)
  <2>1. /\ pc[t] = "global" /\ UNCHANGED <<block, blocks, local_epoch>> /\ pc'[t] \in {"local", "scan", "load"}
        /\ policy.scan = "all" /\ pc'[t] = "scan" => iter'[t] = blocks
        /\ policy.scan = "one" \/ pc'[t] # "scan" => iter'[t] = iter[t]
    BY <1>0, <1>5 DEF LoadGlobal, TypeOK
  <2>2. CASE policy.scan = "all"
    BY <1>0, <2>1, <2>2 DEF Begins
  <2>3. CASE policy.scan = "one"
    BY <1>0, <2>1, <2>3 DEF Stays, Scanning, Running, InitPC, local
  <2> QED
    BY <1>0, <2>2, <2>3
<1>6. ASSUME ScanFlag(t) PROVE Stays(t) \/ Continues(t)
  <2>1. pc[t] = "scan" /\ iter[t] # << >> /\ UNCHANGED <<block, local_epoch>> /\ Scanning(t)
    BY <1>0, <1>6 DEF ScanFlag, IterOK, Scanning, Running, InitPC
  <2>2. \/ ~is_in_critical_region[Head(iter[t])] /\ iter'[t] = Tail(iter[t])
        \/ iter'[t] = iter[t]
    BY <1>0, <1>6 DEF ScanFlag, NextThread, TypeOK
  <2> QED
    BY <2>1, <2>2 DEF Stays, Continues, local
<1>7. ASSUME ScanEpoch(t) PROVE Stays(t) \/ Continues(t)
  <2>1. pc[t] = "scanEpoch" /\ iter[t] # << >> /\ UNCHANGED <<block, local_epoch>> /\ Scanning(t)
        /\ epoch[t] = local(t)
    BY <1>0, <1>7 DEF ScanEpoch, IterOK, EpochOK, Scanning, Running, InitPC
  <2>2. \/ local_epoch[Head(iter[t])] = epoch[t] /\ iter'[t] = Tail(iter[t])
        \/ pc'[t] = "load" /\ (policy.scan = "one" => iter'[t] = iter[t])
    BY <1>0, <1>7 DEF ScanEpoch, NextThread, TypeOK
  <2> QED
    BY <1>0, <2>1, <2>2 DEF Stays, Continues, local
<1>8. ASSUME Advance(t) \/ Adopt(t) \/ StoreLocal(t) \/ (\E n \in Node : DeleteNode(t, n)) PROVE FALSE
  <2>1. \/ \E x \in {"adopt", "local", "delete"} : pc' = [pc EXCEPT ![t] = x]
        \/ pc' = pc /\ pc[t] = "delete"
    BY <1>8 DEF Advance, Adopt, AdoptWith, StoreLocal, StoreLocalWith, DeleteNode
  <2>2. pc'[t] \in {"adopt", "local", "delete"}
    BY <1>0, <2>1 DEF TypeOK
  <2> QED
    BY <1>0, <2>2
<1>9. ASSUME Deleted(t) PROVE Begins(t)
  <2>1. pc'[t] \in {"local", "load"} /\ blocks' = blocks
    BY <1>0, <1>9 DEF Deleted, TypeOK
  <2>2. pc'[t] = "load" /\ policy.scan = "one"
    BY <1>0, <2>1
  <2>3. ResetScan(t)
    <3>1. \/ pc' = [pc EXCEPT ![t] = "local"]
          \/ ResetScan(t)
      BY <1>9 DEF Deleted
    <3> QED
      BY <1>0, <2>2, <3>1 DEF TypeOK
  <2> QED
    BY <1>0, <2>1, <2>2, <2>3 DEF ResetScan, Begins, TypeOK
<1> QED
  BY <1>1, <1>2, <1>3, <1>4, <1>5, <1>6, <1>7, <1>8, <1>9 DEF Step, EnterStep, LeaveStep

LEMMA ScanOwn ==
  ASSUME EInv, NEW t \in Thread, Step(t)
  PROVE  ScanOK(t)'
<1>0. TypeOK /\ ScanOK(t) /\ (\A v \in Thread : BlocksOK(v) /\ EpochOK(v)) /\ policy' = policy
  BY OthersSame DEF EInv
<1>1. SUFFICES ASSUME Scanning(t)', local(t)' = global_epoch', NEW v \in Thread,
                      Registered(v)', Passed(t, block[v])'
               PROVE  Bound(v)' = global_epoch'
  BY DEF ScanOK, Passed
<1>2. CASE v = t
  BY <1>1, <1>2 DEF Scanning, Bound
<1>3. CASE v # t
  <2>1. Registered(v) /\ Bound(v)' = Bound(v) /\ block'[v] = block[v]
    BY <1>1, <1>3, EpochOthers
  <2>2. global_epoch' = global_epoch
    <3>1. SUFFICES ASSUME Advance(t), global_epoch = epoch[t] PROVE FALSE
      BY EpochMoves
    <3>2. pc'[t] = "adopt"
      BY <1>0, <3>1 DEF Advance, Goto, TypeOK
    <3> QED
      BY <1>1, <3>2 DEF Scanning
  <2>3. /\ block[v] \in Block /\ InBlocks(block[v]) /\ flag(v)
        /\ local(v) \in Nat /\ epoch[v] \in Nat /\ global_epoch \in Nat
        /\ Bound(v) <= global_epoch
    BY <1>0, <2>1, RegisteredFacts DEF BlocksOK, EpochOK
  <2>4. \A k \in 1..Len(iter'[t]) : iter'[t][k] # block[v]
    BY <1>1, <2>1 DEF Passed
  <2>5. CASE Begins(t)
    BY <2>3, <2>4, <2>5 DEF Begins, InBlocks
  <2>6. CASE Stays(t)
    <3>1. Scanning(t) /\ local(t) = global_epoch /\ Passed(t, block[v])
      BY <1>1, <2>2, <2>4, <2>6 DEF Stays, Passed
    <3> QED
      BY <1>0, <2>1, <2>2, <3>1 DEF ScanOK
  <2>7. CASE Continues(t)
    <3>1. Scanning(t) /\ local(t) = global_epoch /\ iter'[t] = Tail(iter[t])
      BY <1>1, <2>2, <2>7 DEF Continues
    <3>2. CASE block[v] = Head(iter[t])
      <4>1. local(v) = global_epoch
        BY <2>3, <2>7, <3>1, <3>2 DEF Continues, flag, local
      <4>2. pc[v] # "local"
        <5>1. pc[v] = "local" => epoch[v] > local(v) /\ Bound(v) = epoch[v]
          BY <1>0 DEF EpochOK, Bound
        <5> QED
          BY <2>3, <4>1, <5>1
      <4> QED
        BY <2>1, <2>2, <4>1, <4>2 DEF Bound
    <3>3. CASE block[v] # Head(iter[t])
      <4>1. iter[t] \in Seq(Block) /\ iter[t] # << >>
        BY <1>0, <2>7 DEF TypeOK, Continues
      <4>2. \A k \in 1..Len(iter[t]) : iter[t][k] # block[v]
        <5>1. ASSUME NEW k \in 1..Len(iter[t]), k # 1
              PROVE  k - 1 \in 1..(Len(iter[t]) - 1) /\ Tail(iter[t])[k - 1] = iter[t][k]
          <6>1. k - 1 \in 1..(Len(iter[t]) - 1)
            BY <4>1, <5>1
          <6>2. Tail(iter[t])[k - 1] = iter[t][(k - 1) + 1]
            BY <4>1, <6>1, HeadTail
          <6> QED
            BY <6>1, <6>2
        <5>2. Len(iter'[t]) = Len(iter[t]) - 1 /\ iter[t][1] = Head(iter[t])
          BY <3>1, <4>1, HeadTail
        <5> QED
          BY <2>4, <3>1, <3>3, <5>1, <5>2
      <4>3. Passed(t, block[v])
        BY <4>2 DEF Passed
      <4> QED
        BY <1>0, <2>1, <2>2, <3>1, <4>3 DEF ScanOK
    <3> QED
      BY <3>2, <3>3
  <2> QED
    BY <1>1, <2>5, <2>6, <2>7, ScanStep
<1> QED
  BY <1>2, <1>3

LEMMA ScanNext ==
  ASSUME EInv, NEW t \in Thread, Step(t)
  PROVE  \A u \in Thread : ScanOK(u)'
BY ScanOwn, ScanOthers

-----------------------------------------------------------------------------
(* Nodes in cells, and nodes that have been unlinked                       *)

NodeStep(t) == \/ \E c \in Cell, n \in Node : Insert(t, c, n)
               \/ \E g \in GuardId, c \in Cell : Unlink(t, g, c)
               \/ Retire(t) \/ \E n \in Node : DeleteNode(t, n)

LEMMA NoNodeStep ==
  ASSUME NEW t \in Thread, Step(t), ~NodeStep(t)
  PROVE  UNCHANGED <<cell, status>>
BY DEF Step, NodeStep, ClientStep, EnterStep, LeaveStep, Acquire, Copy, Reset, RegionGuard, EndRegion, Exit,
       AdoptEntry, AddEntry, InitLoad, InitStore, Enter, SetFlag, LoadGlobal, ScanFlag, ScanEpoch, Advance,
       Adopt, AdoptWith, StoreLocal, StoreLocalWith, Deleted, Load, ReclaimReset, ClearFlag, Abandon, Release,
       nodes

LEMMA NoNewClaim ==
  ASSUME TypeOK, NEW t \in Thread, Step(t), pc'[t] = "retire"
  PROVE  \E g \in GuardId, c \in Cell : Unlink(t, g, c)
<1> USE DEF Goto
<1>1. ASSUME ClientStep(t) PROVE \E g \in GuardId, c \in Cell : Unlink(t, g, c)
  <2>1. \/ \E g \in GuardId, c \in Cell : Unlink(t, g, c)
        \/ pc[t] = "idle" /\ pc' = pc
        \/ \E x \in PCSet \ {"retire"} : pc' = [pc EXCEPT ![t] = x]
    BY <1>1 DEF ClientStep, Acquire, Copy, Reset, Leave, Insert, RegionGuard, EndRegion, Exit, First, PCSet
  <2> QED
    BY <2>1 DEF TypeOK
<1>2. ASSUME EnterStep(t) \/ LeaveStep(t) PROVE FALSE
  <2>1. \/ pc[t] \in {"entry", "delete"} /\ pc' = pc
        \/ \E x \in PCSet \ {"retire"} : pc' = [pc EXCEPT ![t] = x]
    BY <1>2 DEF EnterStep, LeaveStep, AdoptEntry, AddEntry, InitLoad, InitStore, Enter, SetFlag, LoadGlobal,
         ScanFlag, ScanEpoch, NextThread, Advance, Adopt, AdoptWith, StoreLocal, StoreLocalWith, DeleteNode,
         Deleted, Load, Leave, Retire, ReclaimReset, ClearFlag, Abandon, Release, PCSet
  <2> QED
    BY <2>1 DEF TypeOK
<1> QED
  BY <1>1, <1>2 DEF Step

LEMMA CellNext ==
  ASSUME EInv, NEW t \in Thread, Step(t)
  PROVE  CellOK' /\ \A u \in Thread : ClaimOK(u)'
<1> USE DEF Goto, call, Call
<1>0. /\ TypeOK /\ CellOK /\ KeptOK /\ \A u \in Thread : ClaimOK(u)
      /\ CallOK(t) /\ Null \notin Node
  BY EBNullAssumption DEF EInv
<1>1. \A n : \A u \in Thread \ {t} : Claims(u, n)' <=> Claims(u, n)
  BY <1>0, OthersSame DEF Untouched, Claims
<1>2. CASE ~NodeStep(t)
  <2>1. UNCHANGED <<cell, status>>
    BY <1>2, NoNodeStep
  <2>2. \A n : ~Claims(t, n)'
    BY <1>0, <1>2, NoNewClaim DEF NodeStep, Claims
  <2> QED
    BY <1>0, <1>1, <2>1, <2>2 DEF CellOK, ClaimOK
<1>3. ASSUME NEW c \in Cell, NEW n \in Node, Insert(t, c, n) PROVE CellOK' /\ \A u \in Thread : ClaimOK(u)'
  <2>1. /\ \A d \in Cell : cell'[d] = IF d = c THEN n ELSE cell[d]
        /\ \A m \in Node : status'[m] = IF m = n THEN "live" ELSE status[m]
        /\ status[n] = "free" /\ pc[t] = "idle" /\ pc' = pc
    BY <1>0, <1>3 DEF Insert, TypeOK
  <2>2. \A d \in Cell : cell[d] # n /\ (cell[d] # Null => cell[d] \in Node)
    BY <1>0, <2>1 DEF CellOK, TypeOK
  <2>3. CellOK'
    BY <1>0, <2>1, <2>2 DEF CellOK
  <2>4. \A m : \A u \in Thread : Claims(u, m)' => Claims(u, m)
    BY <1>1, <2>1 DEF Claims
  <2>5. \A u \in Thread : ~Claims(u, n)
    BY <1>0, <2>1 DEF ClaimOK
  <2>6. \A u \in Thread : ClaimOK(u)'
    BY <1>0, <2>1, <2>4, <2>5 DEF ClaimOK
  <2> QED
    BY <2>3, <2>6
<1>4. ASSUME NEW g \in GuardId, NEW c \in Cell, Unlink(t, g, c) PROVE CellOK' /\ \A u \in Thread : ClaimOK(u)'
  <2>1. /\ \A d \in Cell : cell'[d] = IF d = c THEN Null ELSE cell[d]
        /\ status' = status /\ cell[c] \in Node
        /\ pc'[t] = "retire" /\ gd'[t] = g /\ ptr'[t][g] = cell[c]
    BY <1>0, <1>4 DEF Unlink, TypeOK, guards
  <2>2. CellOK'
    BY <1>0, <2>1 DEF CellOK
  <2>3. \A u \in Thread : ~Claims(u, cell[c])
    BY <1>0, <2>1 DEF ClaimOK
  <2>4. \A n : Claims(t, n)' <=> n = cell[c]
    BY <2>1 DEF Claims
  <2>5. ClaimOK(t)'
    <3>1. ASSUME NEW n, n = cell[c]
          PROVE  /\ status'[n] = "live" /\ (\A d \in Cell : cell'[d] # n)
                 /\ \A u \in Thread : Claims(u, n)' => u = t
      <4>1. status'[n] = "live" /\ \A d \in Cell : cell'[d] # n
        BY <1>0, <2>1, <3>1 DEF CellOK
      <4>2. \A u \in Thread : Claims(u, n)' => u = t
        BY <1>1, <2>3, <3>1
      <4> QED
        BY <4>1, <4>2
    <3> QED
      BY <2>4, <3>1 DEF ClaimOK
  <2>6. ASSUME NEW u \in Thread \ {t} PROVE ClaimOK(u)'
    <3>1. ASSUME NEW n \in Node, Claims(u, n)'
          PROVE  /\ status'[n] = "live" /\ (\A d \in Cell : cell'[d] # n)
                 /\ \A v \in Thread : Claims(v, n)' => v = u
      <4>1. Claims(u, n)
        BY <1>1, <3>1
      <4>2. n # cell[c] /\ status[n] = "live" /\ (\A d \in Cell : cell[d] # n) /\ \A v \in Thread : Claims(v, n) => v = u
        BY <1>0, <2>3, <4>1 DEF ClaimOK
      <4> QED
        BY <1>0, <1>1, <2>1, <2>4, <4>2
    <3> QED
      BY <3>1 DEF ClaimOK
  <2> QED
    BY <2>2, <2>5, <2>6
<1>5. ASSUME Retire(t) PROVE CellOK' /\ \A u \in Thread : ClaimOK(u)'
  <2> DEFINE n == ptr[t][gd[t]]
  <2>1. n \in Node /\ Claims(t, n) /\ cell' = cell /\ pc'[t] = "reset"
        /\ \A m \in Node : status'[m] = IF m = n THEN "retired" ELSE status[m]
    BY <1>0, <1>5 DEF Retire, CallOK, Claims, TypeOK
  <2>2. (\A d \in Cell : cell[d] # n) /\ \A u \in Thread \ {t} : ~Claims(u, n)
    BY <1>0, <2>1 DEF ClaimOK
  <2>3. \A m : \A u \in Thread : Claims(u, m)' => u # t /\ Claims(u, m)
    BY <1>1, <2>1 DEF Claims
  <2> HIDE DEF n
  <2>4. CellOK'
    BY <1>0, <2>1, <2>2 DEF CellOK, TypeOK
  <2>5. \A u \in Thread : ClaimOK(u)'
    BY <1>0, <2>1, <2>2, <2>3 DEF ClaimOK
  <2> QED
    BY <2>4, <2>5
<1>6. ASSUME NEW n \in Node, DeleteNode(t, n) PROVE CellOK' /\ \A u \in Thread : ClaimOK(u)'
  <2>1. status[n] = "retired"
    BY <1>0, <1>6 DEF DeleteNode, KeptOK
  <2>2. /\ cell' = cell /\ pc[t] = "delete" /\ pc' = pc
        /\ \A m \in Node : status'[m] = IF m = n THEN "free" ELSE status[m]
    BY <1>0, <1>6 DEF DeleteNode, TypeOK
  <2>3. \A m : \A u \in Thread : Claims(u, m)' => Claims(u, m)
    BY <1>1, <2>2 DEF Claims
  <2>4. CellOK'
    BY <1>0, <2>1, <2>2 DEF CellOK, TypeOK
  <2>5. \A u \in Thread : ClaimOK(u)'
    BY <1>0, <2>1, <2>2, <2>3 DEF ClaimOK
  <2> QED
    BY <2>4, <2>5
<1> QED
  BY <1>2, <1>3, <1>4, <1>5, <1>6 DEF NodeStep

-----------------------------------------------------------------------------
(* Where retired nodes are                                                 *)

\* The steps that move a retired node.
MoveStep(t) == \/ Retire(t) \/ Adopt(t) \/ StoreLocal(t) \/ Abandon(t)
               \/ \E n \in Node : DeleteNode(t, n)

LEMMA NoMoveStep ==
  ASSUME NEW t \in Thread, Step(t), ~MoveStep(t)
  PROVE  UNCHANGED <<retire_lists, pending, orphans>>
BY DEF Step, MoveStep, ClientStep, EnterStep, LeaveStep, Acquire, Unlink, Insert, Copy, Reset, RegionGuard,
       EndRegion, Exit, AdoptEntry, AddEntry, InitLoad, InitStore, Enter, SetFlag, LoadGlobal, ScanFlag,
       ScanEpoch, Advance, Deleted, Load, ReclaimReset, ClearFlag, Release, shared, own

\* What each of them does with the lists.
LEMMA RetireMoves ==
  ASSUME EInv, NEW t \in Thread, Retire(t)
  PROVE  /\ ptr[t][gd[t]] \in Node /\ status[ptr[t][gd[t]]] = "live"
         /\ \A n \in Node : status'[n] = IF n = ptr[t][gd[t]] THEN "retired" ELSE status[n]
         /\ \A n \in Node, u \in Thread, i \in EpochIdx :
               n \in retire_lists'[u][i] <=>
                  \/ n \in retire_lists[u][i]
                  \/ n = ptr[t][gd[t]] /\ u = t /\ i = local_epoch_idx[t]
         /\ local_epoch_idx[t] \in EpochIdx /\ UNCHANGED <<pending, orphans>>
<1>0. TypeOK /\ CallOK(t) /\ ClaimOK(t) /\ pc[t] = "retire"
  BY DEF EInv, Retire, Goto
<1>1. ptr[t][gd[t]] \in Node /\ status[ptr[t][gd[t]]] = "live"
  BY <1>0 DEF CallOK, ClaimOK, Claims
<1>2. PICK m \in Node : m = ptr[t][gd[t]]
  BY <1>1
<1>3. PICK k \in EpochIdx : k = local_epoch_idx[t]
  BY <1>0 DEF TypeOK
<1>4. /\ retire_lists' = [retire_lists EXCEPT ![t][k] = retire_lists[t][k] \union {m}]
      /\ status' = [status EXCEPT ![m] = "retired"] /\ UNCHANGED <<pending, orphans>>
  BY <1>2, <1>3 DEF Retire, shared
<1>5. \A u \in Thread, i \in EpochIdx :
         retire_lists'[u][i] = IF u = t /\ i = k THEN retire_lists[t][k] \union {m} ELSE retire_lists[u][i]
  BY <1>0, <1>4 DEF TypeOK
<1> QED
  BY <1>0, <1>1, <1>2, <1>3, <1>4, <1>5 DEF TypeOK

LEMMA AdoptMoves ==
  ASSUME EInv, NEW t \in Thread, Adopt(t)
  PROVE  \E k \in EpochIdx :
            /\ k = epoch[t] % number_epochs
            /\ pending[t] = {} /\ pending'[t] = orphans[k] /\ UNCHANGED <<status, retire_lists>>
            /\ \A i \in EpochIdx : orphans'[i] = IF i = k THEN {} ELSE orphans[i]
<1>0. TypeOK /\ EmptyOK(t) /\ pc[t] = "adopt"
  BY DEF EInv, Adopt, AdoptWith, Goto
<1>1. PICK k \in EpochIdx : k = epoch[t] % number_epochs
  BY <1>0, Indexes DEF TypeOK
<1>2. /\ pending' = [pending EXCEPT ![t] = orphans[k]] /\ orphans' = [orphans EXCEPT ![k] = {}]
      /\ UNCHANGED <<status, retire_lists>>
  BY <1>1 DEF Adopt, AdoptWith, nodes, own
<1> QED
  BY <1>0, <1>1, <1>2 DEF EmptyOK, TypeOK

LEMMA StoreMoves ==
  ASSUME EInv, NEW t \in Thread, StoreLocal(t)
  PROVE  \E S \in SUBSET EpochIdx :
            /\ S = {i \in EpochIdx : \E e \in (local(t) + 1)..epoch[t] : i = e % number_epochs}
            /\ pending[t] = {} /\ pending'[t] = UNION {retire_lists[t][i] : i \in S}
            /\ \A u \in Thread, i \in EpochIdx :
                  retire_lists'[u][i] = IF u = t /\ i \in S THEN {} ELSE retire_lists[u][i]
            /\ UNCHANGED <<status, orphans>>
<1>0. TypeOK /\ EmptyOK(t) /\ pc[t] = "local"
  BY DEF EInv, StoreLocal, StoreLocalWith, Goto
<1>1. PICK S \in SUBSET EpochIdx :
         S = {i \in EpochIdx : \E e \in (local(t) + 1)..epoch[t] : i = e % number_epochs}
  OBVIOUS
<1>2. /\ pending' = [pending EXCEPT ![t] = UNION {retire_lists[t][i] : i \in S}]
      /\ retire_lists' = [retire_lists EXCEPT ![t] = [i \in EpochIdx |-> IF i \in S THEN {} ELSE retire_lists[t][i]]]
      /\ UNCHANGED <<status, orphans>>
  BY <1>0, <1>1 DEF StoreLocal, StoreLocalWith, local, nodes, TypeOK
<1>3. \A u \in Thread, i \in EpochIdx :
         retire_lists'[u][i] = IF u = t /\ i \in S THEN {} ELSE retire_lists[u][i]
  BY <1>0, <1>2 DEF TypeOK
<1>4. pending[t] = {} /\ pending'[t] = UNION {retire_lists[t][i] : i \in S}
  <2>1. pending \in [Thread -> SUBSET Node] /\ pending[t] = {}
    BY <1>0 DEF EmptyOK, TypeOK
  <2> QED
    BY <1>2, <2>1
<1> QED
  <2>1. UNCHANGED <<status, orphans>>
    BY <1>2
  <2> WITNESS S \in SUBSET EpochIdx
  <2> QED
    BY <1>1, <1>3, <1>4, <2>1

LEMMA AbandonMoves ==
  ASSUME EInv, NEW t \in Thread, Abandon(t)
  PROVE  \E k \in EpochIdx :
            /\ \A u \in Thread, i \in EpochIdx :
                  retire_lists'[u][i] = IF u = t /\ i = k THEN {} ELSE retire_lists[u][i]
            /\ \A i \in EpochIdx : orphans'[i] = IF i = k THEN orphans[k] \union retire_lists[t][k] ELSE orphans[i]
            /\ UNCHANGED <<status, pending>>
            /\ pc'[t] = "abandon" => \E i \in EpochIdx : retire_lists'[t][i] # {}
            /\ pc'[t] # "abandon" => pc'[t] \in {"release", "idle"} /\ \A i \in EpochIdx : retire_lists'[t][i] = {}
<1>0. TypeOK /\ EmptyOK(t) /\ pc[t] = "abandon"
  BY DEF EInv, Abandon, Goto
<1>1. PICK k \in EpochIdx : k = Min({j \in EpochIdx : retire_lists[t][j] # {}})
  BY <1>0, MinIndex DEF EmptyOK, HasNodes
<1>2. /\ retire_lists' = [retire_lists EXCEPT ![t][k] = {}]
      /\ orphans' = [orphans EXCEPT ![k] = orphans[k] \union retire_lists[t][k]]
      /\ UNCHANGED <<status, pending>>
  BY <1>1 DEF Abandon, nodes
<1>3. \A u \in Thread, i \in EpochIdx :
         retire_lists'[u][i] = IF u = t /\ i = k THEN {} ELSE retire_lists[u][i]
  BY <1>0, <1>2 DEF TypeOK
<1>4. \A i \in EpochIdx : orphans'[i] = IF i = k THEN orphans[k] \union retire_lists[t][k] ELSE orphans[i]
  BY <1>0, <1>2 DEF TypeOK
<1>5. \/ pc' = [pc EXCEPT ![t] = "abandon"] /\ ~(\A j \in EpochIdx \ {k} : retire_lists[t][j] = {})
      \/ /\ \E x \in {"release", "idle"} : pc' = [pc EXCEPT ![t] = x]
         /\ \A j \in EpochIdx \ {k} : retire_lists[t][j] = {}
  BY <1>1 DEF Abandon, Goto
<1>6. \/ pc'[t] = "abandon" /\ \E j \in EpochIdx \ {k} : retire_lists[t][j] # {}
      \/ pc'[t] \in {"release", "idle"} /\ \A j \in EpochIdx \ {k} : retire_lists[t][j] = {}
  BY <1>0, <1>5 DEF TypeOK
<1> QED
  BY <1>2, <1>3, <1>4, <1>6

LEMMA DeleteMoves ==
  ASSUME EInv, NEW t \in Thread, NEW m \in Node, DeleteNode(t, m)
  PROVE  /\ m \in pending[t] /\ status[m] = "retired" /\ pending'[t] = pending[t] \ {m}
         /\ \A n \in Node : status'[n] = IF n = m THEN "free" ELSE status[n]
         /\ UNCHANGED <<retire_lists, orphans>>
<1>1. TypeOK /\ KeptOK /\ m \in pending[t]
  BY DEF EInv, DeleteNode
<1>2. status[m] = "retired"
  BY <1>1 DEF KeptOK
<1> QED
  BY <1>1, <1>2 DEF DeleteNode, shared, own, TypeOK

LEMMA EmptyOwn ==
  ASSUME EInv, NEW t \in Thread, Step(t)
  PROVE  EmptyOK(t)'
<1> USE DEF Goto, nodes, shared, counts, own, guards, call, Call, Return
<1>0. TypeOK /\ EmptyOK(t) /\ BlocksOK(t)
  BY DEF EInv
<1>1. ASSUME Retire(t) \/ Adopt(t) \/ StoreLocal(t) \/ (\E n \in Node : DeleteNode(t, n)) PROVE EmptyOK(t)'
  <2>1. block' = block /\ pc[t] \in {"retire", "adopt", "local", "delete"}
    BY <1>1 DEF Retire, Adopt, AdoptWith, StoreLocal, StoreLocalWith, DeleteNode
  <2>2. block[t] # Null
    BY <1>0, <2>1 DEF BlocksOK
  <2>3. \/ pc'[t] = "delete"
        \/ pc'[t] = "reset" /\ pending'[t] = {}
    BY <1>0, <1>1 DEF Retire, Adopt, AdoptWith, StoreLocal, StoreLocalWith, DeleteNode, EmptyOK, TypeOK
  <2> QED
    BY <2>1, <2>2, <2>3 DEF EmptyOK
<1>2. ASSUME Abandon(t) PROVE EmptyOK(t)'
  <2>1. block' = block /\ pc[t] = "abandon" /\ block[t] # Null /\ pending[t] = {}
    BY <1>0, <1>2 DEF Abandon, BlocksOK, EmptyOK
  <2> QED
    BY <1>2, <2>1, AbandonMoves DEF EmptyOK, HasNodes
<1>3. ASSUME ~MoveStep(t) PROVE EmptyOK(t)'
  <2>1. UNCHANGED <<retire_lists, pending>>
    BY <1>3, NoMoveStep
  <2>2. HasNodes(t)' = HasNodes(t)
    BY <2>1 DEF HasNodes
  <2>3. pc[t] = "delete" /\ pc'[t] # "delete" => pending[t] = {}
    <3>1. pc[t] = "delete" => Deleted(t)
      BY <1>0, <1>3 DEF Step, MoveStep, ClientStep, EnterStep, LeaveStep, Acquire, Unlink, Insert, Copy, Reset, Leave,
         RegionGuard, EndRegion, Exit, AdoptEntry, AddEntry, InitLoad, InitStore, Enter, SetFlag, LoadGlobal,
         ScanFlag, ScanEpoch, Advance, Load, ReclaimReset, ClearFlag, Release
    <3> QED
      BY <3>1 DEF Deleted
  <2>4. (pc[t] # "delete" => pending[t] = {})
    BY <1>0 DEF EmptyOK
  <2>5. pc'[t] \in {"entry", "initLoad", "initStore", "release"} \/ block'[t] = Null =>
           \A i \in EpochIdx : retire_lists[t][i] = {}
    <3>1. CASE ClientStep(t)
      <4>1. block' = block /\ pc[t] = "idle"
        BY <3>1 DEF ClientStep, Acquire, Unlink, Copy, Reset, Leave, Insert, RegionGuard, EndRegion, Exit
      <4>2. \/ pc'[t] \notin {"entry", "initLoad", "initStore", "release"}
            \/ pc'[t] = "entry" /\ block[t] = Null
            \/ pc'[t] = "release" /\ ~HasNodes(t)
        <5>1. \/ pc' = pc
              \/ pc' = [pc EXCEPT ![t] = First(t)]
              \/ \E x \in {"load", "idle", "enter", "retire", "clear", "abandon"} : pc' = [pc EXCEPT ![t] = x]
              \/ pc' = [pc EXCEPT ![t] = "release"] /\ ~HasNodes(t)
          BY <3>1 DEF ClientStep, Acquire, Unlink, Copy, Reset, Leave, Insert, RegionGuard, EndRegion, Exit
        <5> QED
          BY <1>0, <4>1, <5>1 DEF TypeOK, First
      <4> QED
        BY <1>0, <4>1, <4>2 DEF EmptyOK, HasNodes
    <3>2. CASE EnterStep(t) \/ LeaveStep(t)
      <4>1. CASE pc[t] \in {"entry", "initLoad", "initStore", "release"}
        BY <1>0, <4>1 DEF EmptyOK
      <4>2. CASE pc[t] \notin {"entry", "initLoad", "initStore", "release"}
        <5>1. ~BlockChange(t) /\ ~InitLoad(t) /\ ~InitStore(t)
          BY <4>2 DEF BlockChange, AdoptEntry, AddEntry, Release, InitLoad, InitStore
        <5>2. block' = block
          BY <1>0, <3>2, <5>1, BlockStays DEF Step
        <5>3. pc' = pc \/ \E x \in PCSet \ {"entry", "initLoad", "initStore", "release"} : pc' = [pc EXCEPT ![t] = x]
          BY <1>3, <3>2, <5>1 DEF MoveStep, BlockChange, EnterStep, LeaveStep, Enter, SetFlag, LoadGlobal,
             ScanFlag, ScanEpoch, NextThread, Advance, Deleted, Load, Leave, ReclaimReset, ClearFlag, PCSet
        <5>4. pc'[t] \notin {"entry", "initLoad", "initStore", "release"}
          BY <1>0, <4>2, <5>3 DEF TypeOK
        <5> QED
          BY <1>0, <5>2, <5>4 DEF EmptyOK
      <4> QED
        BY <4>1, <4>2
    <3> QED
      BY <3>1, <3>2 DEF Step
  <2>6. pc'[t] = "abandon" => HasNodes(t)
    <3>1. CASE Exit(t) \/ ClearFlag(t)
      BY <1>0, <3>1 DEF Exit, ClearFlag, TypeOK
    <3>2. CASE ~Exit(t) /\ ~ClearFlag(t)
      <4>1. pc' = pc \/ \E x \in PCSet \ {"abandon"} : pc' = [pc EXCEPT ![t] = x]
        BY <1>3, <3>2 DEF Step, MoveStep, ClientStep, EnterStep, LeaveStep, Acquire, Unlink, Insert, Copy, Reset,
           Leave, RegionGuard, EndRegion, First, AdoptEntry, AddEntry, InitLoad, InitStore, Enter, SetFlag,
           LoadGlobal, ScanFlag, ScanEpoch, NextThread, Advance, Deleted, Load, ReclaimReset, Release, PCSet
      <4> QED
        BY <1>0, <4>1 DEF TypeOK, EmptyOK
    <3> QED
      BY <3>1, <3>2
  <2>7. pc'[t] # "delete" => pending'[t] = {}
    BY <2>1, <2>3, <2>4
  <2> QED
    BY <2>1, <2>2, <2>5, <2>6, <2>7 DEF EmptyOK
<1> QED
  BY <1>1, <1>2, <1>3 DEF MoveStep

LEMMA EmptyNext ==
  ASSUME EInv, NEW t \in Thread, Step(t)
  PROVE  \A u \in Thread : EmptyOK(u)'
<1>1. ASSUME NEW u \in Thread \ {t} PROVE EmptyOK(u)'
  BY OthersSame DEF EInv, EmptyOK, HasNodes, Untouched
<1> QED
  BY <1>1, EmptyOwn

\* A step that leaves the lists and orphans, and the retired nodes, as they are
LEMMA KeptSame ==
  ASSUME EInv, NEW t \in Thread, UNCHANGED <<retire_lists, pending, orphans>>,
         \A n \in Node : status'[n] = "retired" <=> status[n] = "retired"
  PROVE  KeptOK'
BY DEF EInv, KeptOK, Listed, Left

LEMMA KeptRetire ==
  ASSUME EInv, NEW t \in Thread, Retire(t)
  PROVE  KeptOK'
<1> DEFINE m == ptr[t][gd[t]]
           k == local_epoch_idx[t]
<1>0. /\ KeptOK /\ m \in Node /\ status[m] = "live" /\ k \in EpochIdx
      /\ \A n \in Node : status'[n] = IF n = m THEN "retired" ELSE status[n]
      /\ \A n \in Node, u \in Thread, i \in EpochIdx :
            n \in retire_lists'[u][i] <=> n \in retire_lists[u][i] \/ (n = m /\ u = t /\ i = k)
      /\ UNCHANGED <<pending, orphans>>
  BY RetireMoves DEF EInv
<1> HIDE DEF m, k
<1>1. \A n \in Node, u \in Thread : Listed(u, n)' <=> Listed(u, n) \/ (n = m /\ u = t)
  BY <1>0 DEF Listed
<1>2. \A n \in Node : Left(n)' <=> Left(n)
  BY <1>0 DEF Left
<1>3. ~Left(m) /\ \A u \in Thread : ~Listed(u, m) /\ m \notin pending[u]
  BY <1>0 DEF KeptOK
<1>4. \A u \in Thread, i \in EpochIdx : m \notin retire_lists[u][i] /\ m \notin orphans[i]
  BY <1>3 DEF Listed, Left
<1>5. (\A n \in Node : status[n] = "retired" <=>
                          Left(n) \/ \E u \in Thread : Listed(u, n) \/ n \in pending[u])'
  BY <1>0, <1>1, <1>2 DEF KeptOK
<1>6. (\A n \in Node, u \in Thread, i, j \in EpochIdx :
          n \in retire_lists[u][i] /\ n \in retire_lists[u][j] => i = j)'
  BY <1>0, <1>4 DEF KeptOK
<1>7. /\ (\A n \in Node, u \in Thread : ~(Left(n) /\ (Listed(u, n) \/ n \in pending[u])))'
      /\ (\A n \in Node, u, v \in Thread : ~(Listed(u, n) /\ n \in pending[v]))'
      /\ (\A n \in Node, u, v \in Thread : Listed(u, n) /\ Listed(v, n) => u = v)'
  BY <1>0, <1>1, <1>2, <1>3 DEF KeptOK
<1>8. /\ (\A n \in Node, i, j \in EpochIdx : n \in orphans[i] /\ n \in orphans[j] => i = j)'
      /\ (\A n \in Node, u, v \in Thread : n \in pending[u] /\ n \in pending[v] => u = v)'
  BY <1>0 DEF KeptOK
<1> QED
  BY <1>5, <1>6, <1>7, <1>8 DEF KeptOK

LEMMA KeptAdopt ==
  ASSUME EInv, NEW t \in Thread, Adopt(t), Step(t)
  PROVE  KeptOK'
<1>0. KeptOK /\ \A u \in Thread \ {t} : pending'[u] = pending[u]
  BY OthersSame DEF EInv, Untouched
<1>1. PICK k \in EpochIdx :
         /\ pending[t] = {} /\ pending'[t] = orphans[k] /\ UNCHANGED <<status, retire_lists>>
         /\ \A i \in EpochIdx : orphans'[i] = IF i = k THEN {} ELSE orphans[i]
  BY AdoptMoves
<1>2. \A n \in Node, u \in Thread : Listed(u, n)' <=> Listed(u, n)
  BY <1>1 DEF Listed
<1>3. \A n \in Node : Left(n) <=> Left(n)' \/ n \in pending'[t]
  BY <1>1 DEF Left
<1>4. \A n \in Node : ~(Left(n)' /\ n \in pending'[t])
  BY <1>0, <1>1 DEF KeptOK, Left
<1>5. (\A n \in Node : status[n] = "retired" <=>
                          Left(n) \/ \E u \in Thread : Listed(u, n) \/ n \in pending[u])'
  BY <1>0, <1>1, <1>2, <1>3 DEF KeptOK
<1>6. /\ (\A n \in Node, u \in Thread, i, j \in EpochIdx :
             n \in retire_lists[u][i] /\ n \in retire_lists[u][j] => i = j)'
      /\ (\A n \in Node, i, j \in EpochIdx : n \in orphans[i] /\ n \in orphans[j] => i = j)'
  BY <1>0, <1>1 DEF KeptOK
<1>7. /\ (\A n \in Node, u \in Thread : ~(Left(n) /\ (Listed(u, n) \/ n \in pending[u])))'
      /\ (\A n \in Node, u, v \in Thread : ~(Listed(u, n) /\ n \in pending[v]))'
      /\ (\A n \in Node, u, v \in Thread : Listed(u, n) /\ Listed(v, n) => u = v)'
      /\ (\A n \in Node, u, v \in Thread : n \in pending[u] /\ n \in pending[v] => u = v)'
  BY <1>0, <1>1, <1>2, <1>3, <1>4 DEF KeptOK
<1> QED
  BY <1>5, <1>6, <1>7 DEF KeptOK

LEMMA KeptStore ==
  ASSUME EInv, NEW t \in Thread, StoreLocal(t), Step(t)
  PROVE  KeptOK'
<1>0. KeptOK /\ \A u \in Thread \ {t} : pending'[u] = pending[u]
  BY OthersSame DEF EInv, Untouched
<1>1. PICK S \in SUBSET EpochIdx :
         /\ pending[t] = {} /\ pending'[t] = UNION {retire_lists[t][i] : i \in S}
         /\ \A u \in Thread, i \in EpochIdx :
               retire_lists'[u][i] = IF u = t /\ i \in S THEN {} ELSE retire_lists[u][i]
         /\ UNCHANGED <<status, orphans>>
  BY StoreMoves
<1>2. \A n \in Node : Left(n)' <=> Left(n)
  BY <1>1 DEF Left
<1>3. \A n \in Node, u \in Thread : u # t => (Listed(u, n)' <=> Listed(u, n))
  BY <1>1 DEF Listed
<1>4. \A n \in Node : n \in pending'[t] <=> \E i \in S : n \in retire_lists[t][i]
  BY <1>1
<1>5. \A n \in Node : Listed(t, n)' <=> \E i \in EpochIdx \ S : n \in retire_lists[t][i]
  BY <1>1 DEF Listed
<1>6. \A n \in Node : Listed(t, n) <=> Listed(t, n)' \/ n \in pending'[t]
  BY <1>4, <1>5 DEF Listed
<1>7. \A n \in Node : ~(Listed(t, n)' /\ n \in pending'[t])
  BY <1>0, <1>4, <1>5 DEF KeptOK
<1>8. (\A n \in Node : status[n] = "retired" <=>
                          Left(n) \/ \E u \in Thread : Listed(u, n) \/ n \in pending[u])'
  BY <1>0, <1>1, <1>2, <1>3, <1>6 DEF KeptOK
<1>9. /\ (\A n \in Node, u \in Thread, i, j \in EpochIdx :
             n \in retire_lists[u][i] /\ n \in retire_lists[u][j] => i = j)'
      /\ (\A n \in Node, i, j \in EpochIdx : n \in orphans[i] /\ n \in orphans[j] => i = j)'
  BY <1>0, <1>1 DEF KeptOK
<1>10. /\ (\A n \in Node, u \in Thread : ~(Left(n) /\ (Listed(u, n) \/ n \in pending[u])))'
       /\ (\A n \in Node, u, v \in Thread : ~(Listed(u, n) /\ n \in pending[v]))'
       /\ (\A n \in Node, u, v \in Thread : Listed(u, n) /\ Listed(v, n) => u = v)'
       /\ (\A n \in Node, u, v \in Thread : n \in pending[u] /\ n \in pending[v] => u = v)'
  BY <1>0, <1>1, <1>2, <1>3, <1>6, <1>7 DEF KeptOK
<1> QED
  BY <1>8, <1>9, <1>10 DEF KeptOK

LEMMA KeptAbandon ==
  ASSUME EInv, NEW t \in Thread, Abandon(t)
  PROVE  KeptOK'
<1>0. KeptOK
  BY DEF EInv
<1>1. PICK k \in EpochIdx :
         /\ \A u \in Thread, i \in EpochIdx :
               retire_lists'[u][i] = IF u = t /\ i = k THEN {} ELSE retire_lists[u][i]
         /\ \A i \in EpochIdx : orphans'[i] = IF i = k THEN orphans[k] \union retire_lists[t][k] ELSE orphans[i]
         /\ UNCHANGED <<status, pending>>
  BY AbandonMoves
<1>2. \A n \in Node, u \in Thread : u # t => (Listed(u, n)' <=> Listed(u, n))
  BY <1>1 DEF Listed
<1>3. \A n \in Node : Left(n)' <=> Left(n) \/ n \in retire_lists[t][k]
  BY <1>1 DEF Left
<1>4. \A n \in Node : Listed(t, n) <=> Listed(t, n)' \/ n \in retire_lists[t][k]
  BY <1>1 DEF Listed
<1>5. \A n \in Node : ~(Listed(t, n)' /\ n \in retire_lists[t][k])
  BY <1>0, <1>1 DEF KeptOK, Listed
<1>6. (\A n \in Node : status[n] = "retired" <=>
                          Left(n) \/ \E u \in Thread : Listed(u, n) \/ n \in pending[u])'
  BY <1>0, <1>1, <1>2, <1>3, <1>4 DEF KeptOK
<1>7. (\A n \in Node, u \in Thread, i, j \in EpochIdx :
             n \in retire_lists[u][i] /\ n \in retire_lists[u][j] => i = j)'
  BY <1>0, <1>1 DEF KeptOK
<1>8. (\A n \in Node, i, j \in EpochIdx : n \in orphans[i] /\ n \in orphans[j] => i = j)'
  <2>1. \A n \in Node, i \in EpochIdx : ~(n \in orphans[i] /\ n \in retire_lists[t][k])
    BY <1>0 DEF KeptOK, Left, Listed
  <2> QED
    BY <1>0, <1>1, <2>1 DEF KeptOK
<1>9. /\ (\A n \in Node, u \in Thread : ~(Left(n) /\ (Listed(u, n) \/ n \in pending[u])))'
      /\ (\A n \in Node, u, v \in Thread : ~(Listed(u, n) /\ n \in pending[v]))'
      /\ (\A n \in Node, u, v \in Thread : Listed(u, n) /\ Listed(v, n) => u = v)'
      /\ (\A n \in Node, u, v \in Thread : n \in pending[u] /\ n \in pending[v] => u = v)'
  BY <1>0, <1>1, <1>2, <1>3, <1>4, <1>5 DEF KeptOK
<1> QED
  BY <1>6, <1>7, <1>8, <1>9 DEF KeptOK

LEMMA KeptDelete ==
  ASSUME EInv, NEW t \in Thread, NEW m \in Node, DeleteNode(t, m), Step(t)
  PROVE  KeptOK'
<1>0. KeptOK /\ \A u \in Thread \ {t} : pending'[u] = pending[u]
  BY OthersSame DEF EInv, Untouched
<1>1. /\ m \in pending[t] /\ pending'[t] = pending[t] \ {m}
      /\ \A n \in Node : status'[n] = IF n = m THEN "free" ELSE status[n]
      /\ UNCHANGED <<retire_lists, orphans>>
  BY DeleteMoves
<1>2. ~Left(m) /\ \A u \in Thread : ~Listed(u, m) /\ (m \in pending[u] => u = t)
  BY <1>0, <1>1 DEF KeptOK
<1>3. \A n \in Node : (Left(n)' <=> Left(n)) /\ \A u \in Thread : Listed(u, n)' <=> Listed(u, n)
  BY <1>1 DEF Left, Listed
<1>4. (\A n \in Node : status[n] = "retired" <=>
                          Left(n) \/ \E u \in Thread : Listed(u, n) \/ n \in pending[u])'
  BY <1>0, <1>1, <1>2, <1>3 DEF KeptOK
<1>5. /\ (\A n \in Node, u \in Thread, i, j \in EpochIdx :
             n \in retire_lists[u][i] /\ n \in retire_lists[u][j] => i = j)'
      /\ (\A n \in Node, i, j \in EpochIdx : n \in orphans[i] /\ n \in orphans[j] => i = j)'
  BY <1>0, <1>1 DEF KeptOK
<1>6. /\ (\A n \in Node, u \in Thread : ~(Left(n) /\ (Listed(u, n) \/ n \in pending[u])))'
      /\ (\A n \in Node, u, v \in Thread : ~(Listed(u, n) /\ n \in pending[v]))'
      /\ (\A n \in Node, u, v \in Thread : Listed(u, n) /\ Listed(v, n) => u = v)'
      /\ (\A n \in Node, u, v \in Thread : n \in pending[u] /\ n \in pending[v] => u = v)'
  BY <1>0, <1>1, <1>3 DEF KeptOK
<1> QED
  BY <1>4, <1>5, <1>6 DEF KeptOK

LEMMA KeptNext ==
  ASSUME EInv, NEW t \in Thread, Step(t)
  PROVE  KeptOK'
<1>1. ASSUME ~MoveStep(t) PROVE KeptOK'
  <2>1. UNCHANGED <<retire_lists, pending, orphans>>
    BY <1>1, NoMoveStep
  <2>2. \A n \in Node : status'[n] = "retired" <=> status[n] = "retired"
    <3>1. ASSUME NEW c \in Cell, NEW m \in Node, Insert(t, c, m)
          PROVE  \A n \in Node : status'[n] = "retired" <=> status[n] = "retired"
      BY <3>1 DEF Insert, EInv, TypeOK
    <3>2. ASSUME NEW g \in GuardId, NEW c \in Cell, Unlink(t, g, c) PROVE status' = status
      BY <3>2 DEF Unlink
    <3> QED
      BY <1>1, <3>1, <3>2, NoNodeStep DEF NodeStep, MoveStep
  <2> QED
    BY <2>1, <2>2, KeptSame
<1> QED
  BY <1>1, KeptRetire, KeptAdopt, KeptStore, KeptAbandon, KeptDelete DEF MoveStep

-----------------------------------------------------------------------------
(* The invariant                                                           *)

LEMMA EInvInit == Init => EInv
<1> SUFFICES ASSUME Init PROVE EInv
  OBVIOUS
<1>1. TypeOK
  BY TypeInit
<1>2. UnownedOK /\ CellOK /\ KeptOK
  <2>1. (\A n : ~Left(n)) /\ \A t \in Thread, n \in Node : ~Listed(t, n)
    BY DEF Init, Left, Listed
  <2> QED
    BY <2>1 DEF Init, UnownedOK, CellOK, KeptOK
<1>3. ASSUME NEW t \in Thread
      PROVE  BlocksOK(t) /\ IterOK(t) /\ CallOK(t) /\ CountOK(t) /\ FlagOK(t)
  <2>1. Len(<< >>) = 0 /\ 1..0 = {}
    OBVIOUS
  <2>2. BlocksOK(t)
    BY <2>1 DEF Init, BlocksOK
  <2>3. IterOK(t) /\ CallOK(t)
    BY DEF Init, IterOK, Running, CallOK, AcquirePC, UpdatePC
  <2>4. Counted(t) = {}
    BY DEF Init, Counted, UpdatePC
  <2>5. CountOK(t)
    BY <2>4, FS_EmptySet DEF Init, CountOK, Region
  <2>6. FlagOK(t)
    BY DEF Init, FlagOK, InRegion
  <2> QED
    BY <2>2, <2>3, <2>5, <2>6
<1>4. ASSUME NEW t \in Thread
      PROVE  EpochOK(t) /\ ScanOK(t) /\ ClaimOK(t) /\ EmptyOK(t)
  BY DEF Init, EpochOK, Registered, Running, ScanOK, Scanning, ClaimOK, Claims, EmptyOK
<1> QED
  BY <1>1, <1>2, <1>3, <1>4 DEF EInv

LEMMA EInvNext == EInv /\ [Next]_vars => EInv'
<1> SUFFICES ASSUME EInv, [Next]_vars PROVE EInv'
  OBVIOUS
<1>1. ASSUME NEW t \in Thread, Step(t) PROVE EInv'
  <2>1. TypeOK'
    BY <1>1, TypeClient, TypeEnter, TypeLeave DEF Step
  <2>2. UnownedOK' /\ CellOK' /\ KeptOK'
    BY <1>1, UnownedNext, CellNext, KeptNext
  <2>3. \A u \in Thread : BlocksOK(u)' /\ IterOK(u)' /\ CallOK(u)' /\ CountOK(u)' /\ FlagOK(u)'
    BY <1>1, BlocksNext, IterNext, CallNext, CountNext, FlagNext
  <2>4. \A u \in Thread : EpochOK(u)' /\ ScanOK(u)' /\ ClaimOK(u)' /\ EmptyOK(u)'
    BY <1>1, EpochNext, ScanNext, CellNext, EmptyNext
  <2> QED
    BY <2>1, <2>2, <2>3, <2>4 DEF EInv
<1>2. CASE UNCHANGED vars
  <2> USE <1>2 DEF vars, nodes, shared, own, counts, guards, call
  <2>1. TypeOK' /\ UnownedOK' /\ CellOK' /\ KeptOK'
    BY DEF EInv, TypeOK, UnownedOK, CellOK, KeptOK, Listed, Left
  <2>2. ASSUME NEW t \in Thread
        PROVE  BlocksOK(t)' /\ IterOK(t)' /\ CallOK(t)' /\ CountOK(t)' /\ FlagOK(t)'
    <3>1. BlocksOK(t)'
      BY DEF EInv, BlocksOK, InBlocks
    <3>2. IterOK(t)' /\ CallOK(t)'
      BY DEF EInv, IterOK, Running, CallOK
    <3>3. CountOK(t)' /\ FlagOK(t)'
      <4>1. Counted(t)' = Counted(t)
        BY DEF Counted
      <4> QED
        BY <4>1 DEF EInv, CountOK, Region, extends, FlagOK, flag, InRegion
    <3> QED
      BY <3>1, <3>2, <3>3
  <2>3. ASSUME NEW t \in Thread
        PROVE  EpochOK(t)' /\ ClaimOK(t)' /\ EmptyOK(t)'
    BY DEF EInv, EpochOK, Registered, Bound, local, Running, ClaimOK, Claims, EmptyOK, HasNodes
  <2>4. ASSUME NEW t \in Thread PROVE ScanOK(t)'
    BY DEF EInv, ScanOK, Scanning, Passed, Registered, Bound, local, Running
  <2> QED
    BY <2>1, <2>2, <2>3, <2>4 DEF EInv
<1> QED
  BY <1>1, <1>2 DEF Next, Step

\* The inductive invariant: blocks and retired nodes have one owner, a thread
\* with a guard has its flag set, and who scans for the next epoch passes only
\* threads that are in this one (acquire_entry, enter_critical, scan, update_global_epoch).
THEOREM Invariance == Spec => []EInv
<1> QED
  BY EInvInit, EInvNext, PTL DEF Spec

\* Every reachable state is one of the type the model declares.
THEOREM TypeCorrect == Spec => []TypeOK
<1>1. EInv => TypeOK
  BY DEF EInv
<1> QED
  BY <1>1, Invariance, PTL

-----------------------------------------------------------------------------
(* The safety properties                                                   *)

LEMMA OnceLemma == EInv => RetiredOnce
<1> SUFFICES ASSUME EInv, NEW n \in Node
             PROVE  Cardinality(Spots(n)) = (IF status[n] = "retired" THEN 1 ELSE 0)
  BY DEF RetiredOnce
<1>1. KeptOK
  BY DEF EInv
<1>2. \A x : x \in Spots(n) <=>
                \/ \E t \in Thread, i \in EpochIdx : n \in retire_lists[t][i] /\ x = <<"retired", <<t, i>>>>
                \/ \E i \in EpochIdx : n \in orphans[i] /\ x = <<"orphaned", i>>
                \/ \E t \in Thread : n \in pending[t] /\ x = <<"pending", t>>
  <2>1. \A h \in Thread \X EpochIdx : h[1] \in Thread /\ h[2] \in EpochIdx /\ h = <<h[1], h[2]>>
    OBVIOUS
  <2> QED
    BY <2>1 DEF Spots
<1>3. \A x : Cardinality({x}) = 1
  BY FS_Singleton
<1>4. CASE status[n] # "retired"
  <2>1. ~Left(n) /\ \A t \in Thread : ~Listed(t, n) /\ n \notin pending[t]
    BY <1>1, <1>4 DEF KeptOK
  <2>2. Spots(n) = {}
    BY <1>2, <2>1 DEF Left, Listed
  <2> QED
    BY <1>4, <2>2, FS_EmptySet
<1>5. CASE status[n] = "retired"
  <2>1. ASSUME NEW i \in EpochIdx, n \in orphans[i] PROVE Cardinality(Spots(n)) = 1
    <3>1. Left(n) /\ \A t \in Thread : ~Listed(t, n) /\ n \notin pending[t]
      BY <1>1, <2>1 DEF KeptOK, Left
    <3>2. \A j \in EpochIdx : n \in orphans[j] => j = i
      BY <1>1, <2>1 DEF KeptOK
    <3>3. Spots(n) = {<<"orphaned", i>>}
      BY <1>2, <2>1, <3>1, <3>2 DEF Listed
    <3> QED
      BY <1>3, <3>3
  <2>2. ASSUME NEW t \in Thread, n \in pending[t] PROVE Cardinality(Spots(n)) = 1
    <3>1. ~Left(n) /\ \A u \in Thread : ~Listed(u, n) /\ (n \in pending[u] => u = t)
      BY <1>1, <2>2 DEF KeptOK
    <3>2. Spots(n) = {<<"pending", t>>}
      BY <1>2, <2>2, <3>1 DEF Listed, Left
    <3> QED
      BY <1>3, <3>2
  <2>3. ASSUME NEW t \in Thread, NEW i \in EpochIdx, n \in retire_lists[t][i] PROVE Cardinality(Spots(n)) = 1
    <3>1. Listed(t, n)
      BY <2>3 DEF Listed
    <3>2. ~Left(n) /\ \A u \in Thread : n \notin pending[u] /\ (Listed(u, n) => u = t)
      BY <1>1, <3>1 DEF KeptOK
    <3>3. \A j \in EpochIdx : n \in retire_lists[t][j] => j = i
      BY <1>1, <2>3 DEF KeptOK
    <3>4. Spots(n) = {<<"retired", <<t, i>>>>}
      BY <1>2, <2>3, <3>2, <3>3 DEF Listed, Left
    <3> QED
      BY <1>3, <3>4
  <2> QED
    BY <1>1, <1>5, <2>1, <2>2, <2>3 DEF KeptOK, Left, Listed
<1> QED
  BY <1>4, <1>5

\* No retired node is lost, and none is deleted twice, whichever threads end
\* and whoever takes what they leave (add_retired_node, abandon_retired_nodes,
\* reclaim_orphans, update_local_epoch).
THEOREM NodesRetiredOnce == Spec => []RetiredOnce
BY Invariance, OnceLemma, PTL

LEMMA InStepLemma == EInv => EpochsInStep
<1> SUFFICES ASSUME EInv, NEW t \in Thread
             PROVE  /\ (\E g \in GuardId : ptr[t][g] # Null) =>
                          /\ is_in_critical_region[block[t]]
                          /\ global_epoch - local_epoch[block[t]] \in {0, 1}
                    /\ pc[t] = "set" => ~is_in_critical_region[block[t]]
                    /\ pc[t] = "local" => epoch[t] > local_epoch[block[t]]
  BY DEF EpochsInStep
<1>1. EpochOK(t) /\ FlagOK(t) /\ CallOK(t)
  BY DEF EInv
<1>2. ASSUME NEW g \in GuardId, ptr[t][g] # Null
      PROVE  is_in_critical_region[block[t]] /\ global_epoch - local_epoch[block[t]] \in {0, 1}
  <2>1. nested[t] > 0
    BY <1>2, HeldCounted, GuardCounted
  <2>2. pc[t] \notin {"set", "global", "local"}
    BY <1>1, <1>2 DEF CallOK, UpdatePC
  <2>3. Registered(t) /\ Bound(t) = local(t)
    BY <2>1, <2>2 DEF Registered, Bound
  <2>4. local(t) \in Nat /\ global_epoch \in Nat /\ flag(t)
    BY <2>3, RegisteredFacts
  <2>5. local(t) <= global_epoch /\ global_epoch <= local(t) + 1
    BY <1>1, <2>3 DEF EpochOK
  <2> QED
    BY <2>4, <2>5 DEF local, flag
<1> QED
  BY <1>1, <1>2 DEF EpochOK, FlagOK, flag, local

\* Who has a guard is in a region, and the global epoch at most one ahead;
\* the assertions of set_critical_region_flag and update_local_epoch hold.
THEOREM EpochsStayInStep == Spec => []EpochsInStep
BY Invariance, InStepLemma, PTL

-----------------------------------------------------------------------------
(* Without orphans: epochs and the guards                                  *)

\* The epoch of a thread that goes on running changes in one place.
LEMMA LocalStays ==
  ASSUME EInv, NEW t \in Thread, Step(t), ~BlockChange(t), ~InitStore(t), ~StoreLocal(t)
  PROVE  local(t)' = local(t) /\ block' = block
<1>1. local_epoch' = local_epoch
  BY DEF Step, BlockChange, ClientStep, EnterStep, LeaveStep, Acquire, Unlink, Copy, Reset, Insert,
       RegionGuard, EndRegion, Exit, InitLoad, Enter, SetFlag, LoadGlobal, ScanFlag,
       ScanEpoch, Advance, Adopt, AdoptWith, DeleteNode, Deleted, Load,
       Retire, ReclaimReset, ClearFlag, Abandon, shared
<1> QED
  BY <1>1, BlockStays DEF EInv, local

LEMMA IndexOwn ==
  ASSUME EInv, NEW t \in Thread, Step(t), IndexOK(t)
  PROVE  IndexOK(t)'
<1> USE DEF Goto, nodes, shared, counts, own, guards, call, Call, Return
<1>0. TypeOK /\ BlocksOK(t)
  BY DEF EInv
<1>1. ASSUME BlockChange(t) PROVE IndexOK(t)'
  <2>1. \/ pc' = [pc EXCEPT ![t] = "initLoad"]
        \/ UNCHANGED <<pc, block>> /\ pc[t] = "entry"
        \/ block' = [block EXCEPT ![t] = Null]
    BY <1>1 DEF BlockChange, AdoptEntry, AddEntry, Release
  <2>2. ~Running(t)'
    BY <1>0, <2>1 DEF Running, InitPC, BlocksOK, TypeOK
  <2> QED
    BY <2>2 DEF IndexOK
<1>2. ASSUME InitStore(t) PROVE IndexOK(t)'
  <2>1. block[t] \in Block
    BY <1>2, OwnBlock DEF InitStore
  <2>2. local(t)' = epoch[t] /\ local_epoch_idx'[t] = epoch[t] % number_epochs
    BY <1>0, <1>2, <2>1 DEF InitStore, TypeOK, local
  <2> QED
    BY <2>2 DEF IndexOK
<1>3. ASSUME StoreLocal(t) PROVE IndexOK(t)'
  <2>1. block[t] \in Block
    BY <1>3, OwnBlock DEF StoreLocal, StoreLocalWith
  <2>2. local(t)' = epoch'[t] /\ pc'[t] = "delete"
    BY <1>0, <1>3, <2>1 DEF StoreLocal, StoreLocalWith, TypeOK, local
  <2> QED
    BY <2>2 DEF IndexOK
<1>4. ASSUME Deleted(t) PROVE IndexOK(t)'
  <2>1. local(t)' = local(t) /\ pc[t] = "delete" /\ UNCHANGED <<block, epoch>> /\ Running(t)
    BY <1>0, <1>4 DEF Deleted, local, BlocksOK, Running, InitPC
  <2>2. CASE local(t) = epoch[t]
    <3>1. local_epoch_idx'[t] = local(t)' % number_epochs
      BY <1>0, <1>4, <2>1, <2>2 DEF Deleted, TypeOK, local
    <3> QED
      BY <3>1 DEF IndexOK
  <2>3. CASE local(t) # epoch[t]
    <3>1. local_epoch_idx' = local_epoch_idx
      BY <1>4, <2>3 DEF Deleted, local
    <3> QED
      BY <2>1, <2>3, <3>1 DEF IndexOK
  <2> QED
    BY <2>2, <2>3
<1>5. ASSUME ~BlockChange(t), ~InitStore(t), ~StoreLocal(t), ~Deleted(t) PROVE IndexOK(t)'
  <2>1. local_epoch_idx' = local_epoch_idx
    BY <1>5 DEF Step, BlockChange, ClientStep, EnterStep, LeaveStep, Acquire, Unlink, Copy, Reset, Insert,
       RegionGuard, EndRegion, Exit, InitLoad, Enter, SetFlag, LoadGlobal, ScanFlag,
       ScanEpoch, Advance, Adopt, AdoptWith, DeleteNode, Load, Retire, ReclaimReset, ClearFlag, Abandon
  <2>2. local(t)' = local(t) /\ block' = block
    BY <1>5, LocalStays
  <2>3. Running(t)' => Running(t)
    <3>1. pc[t] = "initLoad" => pc'[t] = "initStore"
      <4>1. pc[t] = "initLoad" => InitLoad(t)
        BY <1>5 DEF Step, BlockChange, ClientStep, EnterStep, LeaveStep, Acquire, Unlink, Copy, Reset, Leave, Insert,
           RegionGuard, EndRegion, Exit, Enter, SetFlag, LoadGlobal, ScanFlag,
           ScanEpoch, Advance, Adopt, AdoptWith, DeleteNode, Load, Retire, ReclaimReset, ClearFlag, Abandon
      <4> QED
        BY <1>0, <4>1 DEF InitLoad, TypeOK
    <3>2. pc[t] # "initStore"
      BY <1>5 DEF Step, BlockChange, ClientStep, EnterStep, LeaveStep, Acquire, Unlink, Copy, Reset, Leave, Insert,
         RegionGuard, EndRegion, Exit, InitLoad, Enter, SetFlag, LoadGlobal, ScanFlag,
         ScanEpoch, Advance, Adopt, AdoptWith, DeleteNode, Load, Retire, ReclaimReset, ClearFlag, Abandon
    <3> QED
      BY <2>2, <3>1, <3>2 DEF Running, InitPC
  <2>4. pc[t] = "delete" /\ epoch[t] = local(t) => pc'[t] = "delete" /\ epoch'[t] = local(t)
    <3>1. pc[t] = "delete" => \E n \in Node : DeleteNode(t, n)
      BY <1>5 DEF Step, BlockChange, ClientStep, EnterStep, LeaveStep, Acquire, Unlink, Copy, Reset, Leave, Insert,
         RegionGuard, EndRegion, Exit, InitLoad, Enter, SetFlag, LoadGlobal, ScanFlag,
         ScanEpoch, Advance, Adopt, AdoptWith, Load, Retire, ReclaimReset, ClearFlag, Abandon
    <3> QED
      BY <3>1 DEF DeleteNode
  <2> QED
    BY <2>1, <2>2, <2>3, <2>4 DEF IndexOK
<1> QED
  BY <1>1, <1>2, <1>3, <1>4, <1>5

LEMMA IndexNext ==
  ASSUME EInv, NEW t \in Thread, Step(t), \A u \in Thread : IndexOK(u)
  PROVE  \A u \in Thread : IndexOK(u)'
<1>1. ASSUME NEW u \in Thread \ {t} PROVE IndexOK(u)'
  <2>1. Untouched(u) /\ (block[u] # Null => local(u)' = local(u)) /\ IndexOK(u)
    BY OthersSame, FlagOthers DEF EInv
  <2> QED
    BY <2>1 DEF IndexOK, Running, Untouched
<1> QED
  BY <1>1, IndexOwn

\* A guard's thread is registered, and its epoch and block stay.
LEMMA HolderFacts ==
  ASSUME EInv, NEW u \in Thread, NEW g \in GuardId, ptr[u][g] # Null
  PROVE  /\ Registered(u) /\ Bound(u) = local(u) /\ block[u] # Null
         /\ local(u) \in Nat /\ global_epoch \in Nat
         /\ local(u) <= global_epoch /\ global_epoch <= local(u) + 1
         /\ pc[u] \notin {"entry", "initLoad", "initStore", "local"}
<1>1. CallOK(u) /\ EpochOK(u)
  BY DEF EInv
<1>2. nested[u] > 0
  BY HeldCounted, GuardCounted
<1>3. pc[u] \notin {"set", "global", "entry", "initLoad", "initStore", "local"}
  BY <1>1 DEF CallOK, UpdatePC
<1>4. Registered(u) /\ Bound(u) = local(u)
  BY <1>2, <1>3 DEF Registered, Bound
<1> QED
  BY <1>1, <1>3, <1>4, RegisteredFacts DEF EpochOK

LEMMA PtrSteps ==
  ASSUME NEW t \in Thread, Step(t)
  PROVE  \/ UNCHANGED ptr
         \/ Load(t) \/ ReclaimReset(t) \/ \E g \in GuardId : Reset(t, g)
BY DEF Step, ClientStep, EnterStep, LeaveStep, Acquire, Unlink, Insert, Copy, RegionGuard, EndRegion, Exit,
       AdoptEntry, AddEntry, InitLoad, InitStore, Enter, SetFlag, LoadGlobal, ScanFlag, ScanEpoch, Advance,
       Adopt, AdoptWith, StoreLocal, StoreLocalWith, DeleteNode, Deleted, Retire, ClearFlag, Abandon, Release,
       guards

\* A guard gets a node from a cell, where it is live, or from another guard.
LEMMA NewHolder ==
  ASSUME EInv, NEW t \in Thread, Step(t), NEW n \in Node, NEW u \in Thread, HeldBy(u, n)'
  PROVE  HeldBy(u, n) \/ status[n] = "live"
<1>0. TypeOK /\ CallOK(t) /\ CellOK /\ Null \notin Node
  BY EBNullAssumption DEF EInv
<1>1. CASE u # t
  BY <1>1, OthersSame, <1>0 DEF HeldBy, Untouched
<1>2. CASE u = t
  <2>1. ASSUME NEW g \in GuardId, Reset(t, g) PROVE HeldBy(t, n)
    <3>1. \A h \in GuardId : ptr'[t][h] = IF h = g THEN Null ELSE ptr[t][h]
      BY <1>0, <2>1 DEF Reset, SetGuard, TypeOK
    <3> QED
      BY <1>0, <1>2, <3>1 DEF HeldBy
  <2>2. ASSUME ReclaimReset(t) PROVE HeldBy(t, n)
    <3>1. gd[t] \in GuardId
      BY <1>0, <2>2 DEF ReclaimReset, CallOK
    <3>2. \A h \in GuardId : ptr'[t][h] = IF h = gd[t] THEN Null ELSE ptr[t][h]
      BY <1>0, <2>2, <3>1 DEF ReclaimReset, SetGuard, TypeOK
    <3> QED
      BY <1>0, <1>2, <3>2 DEF HeldBy
  <2>3. ASSUME Load(t) PROVE HeldBy(t, n) \/ status[n] = "live"
    <3> DEFINE m == IF op[t] = "copy" THEN expected[t] ELSE cell[src[t]]
    <3>1. pc[t] = "load" /\ gd[t] \in GuardId
      BY <1>0, <2>3 DEF Load, CallOK, AcquirePC
    <3>2. \A h \in GuardId : ptr'[t][h] = (IF h = gd[t] THEN ptr'[t][gd[t]] ELSE ptr[t][h])
      BY <1>0, <2>3, <3>1 DEF Load, SetGuard, TypeOK
    <3>3. ptr'[t][gd[t]] \in {m, Null}
      BY <1>0, <2>3, <3>1 DEF Load, SetGuard, TypeOK
    <3>4. n = m => HeldBy(t, n) \/ status[n] = "live"
      <4>1. CASE op[t] = "copy"
        BY <1>0, <4>1 DEF CallOK, HeldBy
      <4>2. CASE op[t] # "copy"
        <5>1. src[t] \in Cell
          BY <1>0, <3>1, <4>2 DEF CallOK, AcquirePC
        <5> QED
          BY <1>0, <4>2, <5>1 DEF CellOK
      <4> QED
        BY <4>1, <4>2
    <3> QED
      BY <1>0, <1>2, <3>2, <3>3, <3>4 DEF HeldBy
  <2> QED
    BY <1>2, <2>1, <2>2, <2>3, PtrSteps DEF HeldBy
<1> QED
  BY <1>1, <1>2

LEMMA HolderStays ==
  ASSUME EInv, NEW t \in Thread, Step(t), NEW n \in Node, NEW u \in Thread, HeldBy(u, n), HeldBy(u, n)'
  PROVE  local(u)' = local(u)
<1>1. PICK g \in GuardId : ptr[u][g] # Null
  BY EBNullAssumption DEF HeldBy
<1>2. CASE u # t
  BY <1>1, <1>2, HolderFacts, FlagOthers
<1>3. CASE u = t
  <2>1. pc[t] \notin {"entry", "initStore", "local"}
    BY <1>1, <1>3, HolderFacts
  <2>2. pc[t] # "release"
    BY <1>1, <1>3 DEF EInv, CallOK
  <2>3. ~BlockChange(t) /\ ~InitStore(t) /\ ~StoreLocal(t)
    BY <2>1, <2>2 DEF BlockChange, AdoptEntry, AddEntry, Release, InitStore, StoreLocal, StoreLocalWith, Goto
  <2> QED
    BY <1>3, <2>3, LocalStays
<1> QED
  BY <1>2, <1>3

\* After the end of epoch e has come round to the same list
LEMMA NextRound ==
  ASSUME NEW l \in Nat, NEW e \in Nat, e % number_epochs = l % number_epochs, e > l
  PROVE  e >= l + 3
BY DEF number_epochs

\* The lists of a thread that has some grow only by what it retires, and its
\* epoch only grows.
LEMMA ListSteps ==
  ASSUME EInv, NoOrphans, NEW t \in Thread, Step(t), NEW v \in Thread, NEW n \in Node
  PROVE  /\ \A i \in EpochIdx : n \in retire_lists'[v][i] =>
               \/ n \in retire_lists[v][i]
               \/ Retire(t) /\ v = t /\ n = ptr[t][gd[t]] /\ i = local_epoch_idx[t]
         /\ n \in pending'[v] =>
               \/ n \in pending[v]
               \/ /\ StoreLocal(t) /\ v = t
                  /\ \E i \in EpochIdx : /\ n \in retire_lists[t][i]
                                         /\ \E e \in (local(t) + 1)..epoch[t] : i = e % number_epochs
<1> DEFINE Lists == \A i \in EpochIdx : n \in retire_lists'[v][i] =>
                       \/ n \in retire_lists[v][i]
                       \/ Retire(t) /\ v = t /\ n = ptr[t][gd[t]] /\ i = local_epoch_idx[t]
           Pend == n \in pending'[v] =>
                      \/ n \in pending[v]
                      \/ /\ StoreLocal(t) /\ v = t
                         /\ \E i \in EpochIdx : /\ n \in retire_lists[t][i]
                                                /\ \E e \in (local(t) + 1)..epoch[t] : i = e % number_epochs
<1>0. \A u \in Thread \ {t} : pending'[u] = pending[u]
  BY OthersSame DEF EInv, Untouched
<1>1. CASE ~MoveStep(t)
  BY <1>1, NoMoveStep
<1>2. CASE Retire(t)
  BY <1>2, RetireMoves
<1>3. CASE Adopt(t)
  <2>1. PICK k \in EpochIdx : pending'[t] = orphans[k] /\ retire_lists' = retire_lists
    BY <1>3, AdoptMoves
  <2> QED
    BY <1>0, <2>1 DEF NoOrphans
<1>4. CASE StoreLocal(t)
  <2>1. PICK S \in SUBSET EpochIdx :
           /\ S = {i \in EpochIdx : \E e \in (local(t) + 1)..epoch[t] : i = e % number_epochs}
           /\ pending[t] = {} /\ pending'[t] = UNION {retire_lists[t][i] : i \in S}
           /\ \A u \in Thread, i \in EpochIdx :
                 retire_lists'[u][i] = IF u = t /\ i \in S THEN {} ELSE retire_lists[u][i]
           /\ UNCHANGED <<status, orphans>>
    BY <1>4, StoreMoves
  <2>2. Lists
    BY <2>1
  <2>3. ASSUME n \in pending'[t] PROVE \E i \in S : n \in retire_lists[t][i]
    BY <2>1, <2>3
  <2>4. Pend
    BY <1>0, <1>4, <2>1, <2>3
  <2> QED
    BY <2>2, <2>4
<1>5. CASE Abandon(t)
  <2>1. PICK k \in EpochIdx :
           /\ \A u \in Thread, i \in EpochIdx :
                 retire_lists'[u][i] = IF u = t /\ i = k THEN {} ELSE retire_lists[u][i]
           /\ \A i \in EpochIdx :
                 orphans'[i] = IF i = k THEN orphans[k] \union retire_lists[t][k] ELSE orphans[i]
           /\ UNCHANGED <<status, pending>>
           /\ pc'[t] = "abandon" => \E i \in EpochIdx : retire_lists'[t][i] # {}
           /\ pc'[t] # "abandon" => /\ pc'[t] \in {"release", "idle"}
                                    /\ \A i \in EpochIdx : retire_lists'[t][i] = {}
    BY <1>5, AbandonMoves
  <2> QED
    BY <2>1
<1>6. ASSUME NEW m \in Node, DeleteNode(t, m) PROVE Lists /\ Pend
  BY <1>0, <1>6, DeleteMoves
<1> QED
  BY <1>1, <1>2, <1>3, <1>4, <1>5, <1>6 DEF MoveStep

LEMMA LocalGrows ==
  ASSUME EInv, NEW t \in Thread, Step(t), NEW v \in Thread, NEW i \in EpochIdx, retire_lists[v][i] # {}
  PROVE  local(v) \in Nat /\ local(v)' \in Nat /\ local(v) <= local(v)'
<1>0. TypeOK /\ EmptyOK(v) /\ EpochOK(v)
  BY DEF EInv
<1>1. /\ block[v] # Null /\ block[v] \in Block /\ pc[v] \notin {"entry", "initLoad", "initStore", "release"}
      /\ local(v) \in Nat
  BY <1>0 DEF EmptyOK, TypeOK, local
<1>2. CASE v # t
  BY <1>1, <1>2, FlagOthers
<1>3. CASE v = t
  <2>1. ~BlockChange(t) /\ ~InitStore(t)
    BY <1>1, <1>3 DEF BlockChange, AdoptEntry, AddEntry, Release, InitStore, Goto
  <2>2. CASE StoreLocal(t)
    <3>1. local(t)' = epoch[t] /\ pc[t] = "local" /\ epoch[t] \in Nat
      BY <1>0, <1>1, <1>3, <2>2 DEF StoreLocal, StoreLocalWith, Goto, local, TypeOK
    <3> QED
      BY <1>0, <1>1, <1>3, <3>1 DEF EpochOK
  <2>3. CASE ~StoreLocal(t)
    BY <1>1, <1>3, <2>1, <2>3, LocalStays
  <2> QED
    BY <2>2, <2>3
<1> QED
  BY <1>2, <1>3

\* Whoever holds the node that is retired is at most one epoch ahead of the
\* thread that retires it, whose list comes round again after three.
LEMMA WaitListed ==
  ASSUME DInv, NoOrphans, NEW t \in Thread, Step(t), NEW v \in Thread, NEW i \in EpochIdx,
         NEW n \in Node, n \in retire_lists'[v][i],
         NEW u \in Thread, NEW e \in Nat,
         HeldBy(u, n)', e % number_epochs = i, e > local(v)'
  PROVE  local(u)' + 2 <= e
<1>0. /\ EInv /\ IndexOK(v) /\ WaitOK(v) /\ TypeOK /\ KeptOK /\ BlocksOK(v)
      /\ Null \notin Node
  BY EBNullAssumption DEF DInv, EInv
<1>1. CASE n \in retire_lists[v][i]
  <2>1. status[n] = "retired"
    BY <1>0, <1>1 DEF KeptOK, Listed
  <2>2. HeldBy(u, n) /\ local(u)' = local(u)
    BY <1>0, <2>1, NewHolder, HolderStays
  <2>3. e > local(v)
    BY <1>0, <1>1, LocalGrows
  <2> QED
    BY <1>0, <1>1, <2>2, <2>3 DEF WaitOK
<1>2. CASE Retire(t) /\ v = t /\ n = ptr[t][gd[t]] /\ i = local_epoch_idx[t]
  <2>1. pc[t] = "retire" /\ UNCHANGED <<ptr, local_epoch, block>>
    BY <1>2 DEF Retire, Goto, shared, guards
  <2>2. gd[t] \in GuardId /\ CallOK(t)
    BY <1>0, <2>1 DEF EInv, CallOK
  <2>3. PICK g \in GuardId : ptr[u][g] = n
    BY <2>1 DEF HeldBy
  <2>4. /\ local(u) \in Nat /\ local(t) \in Nat /\ global_epoch \in Nat
        /\ local(u) <= global_epoch /\ global_epoch <= local(t) + 1 /\ block[t] # Null
    BY <1>0, <1>2, <2>2, <2>3, HolderFacts
  <2>5. i = local(t) % number_epochs
    BY <1>0, <1>2, <2>1, <2>4 DEF IndexOK, Running, InitPC
  <2>6. local(u)' = local(u) /\ local(t)' = local(t)
    BY <2>1 DEF local
  <2>7. e >= local(t) + 3
    BY <1>2, <2>4, <2>5, <2>6, NextRound
  <2> QED
    BY <2>4, <2>6, <2>7
<1> QED
  BY <1>0, <1>1, <1>2, ListSteps

\* A thread takes the lists of an epoch that it has seen begin: so nobody in a
\* region has nodes of these lists.
LEMMA WaitPending ==
  ASSUME DInv, NoOrphans, NEW t \in Thread, Step(t), NEW v \in Thread, NEW n \in Node, n \in pending'[v], NEW u \in Thread
  PROVE  ~HeldBy(u, n)'
<1>0. /\ EInv /\ WaitOK(v) /\ TypeOK /\ KeptOK
  BY DEF DInv, EInv
<1>1. SUFFICES ASSUME HeldBy(u, n)' PROVE FALSE
  OBVIOUS
<1>2. CASE n \in pending[v]
  <2>1. status[n] = "retired"
    BY <1>0, <1>2 DEF KeptOK
  <2>2. HeldBy(u, n)
    BY <1>0, <1>1, <2>1, NewHolder
  <2> QED
    BY <1>0, <1>2, <2>2 DEF WaitOK
<1>3. ASSUME StoreLocal(t), v = t, NEW i \in EpochIdx, n \in retire_lists[t][i],
             NEW e \in (local(t) + 1)..epoch[t], i = e % number_epochs
      PROVE  FALSE
  <2>1. status[n] = "retired"
    BY <1>0, <1>3 DEF KeptOK, Listed
  <2>2. HeldBy(u, n)
    BY <1>0, <1>1, <2>1, NewHolder
  <2>3. pc[t] = "local"
    BY <1>3 DEF StoreLocal, StoreLocalWith, Goto
  <2>4. Registered(t) /\ Bound(t) = epoch[t] /\ EpochOK(t) /\ local(t) \in Nat /\ epoch[t] \in Nat
    BY <1>0, <2>3, Updating, RegisteredFacts DEF UpdatePC, Bound, EInv
  <2>5. epoch[t] <= global_epoch /\ e \in Nat /\ e > local(t) /\ e <= epoch[t]
    BY <1>3, <2>4 DEF EpochOK
  <2>6. local(u) + 2 <= e
    BY <1>0, <1>3, <2>2, <2>5 DEF WaitOK
  <2>7. PICK g \in GuardId : ptr[u][g] # Null
    BY <2>2, EBNullAssumption DEF HeldBy
  <2>8. local(u) \in Nat /\ global_epoch \in Nat /\ global_epoch <= local(u) + 1
    BY <1>0, <2>7, HolderFacts
  <2> QED
    BY <2>4, <2>5, <2>6, <2>8
<1> QED
  BY <1>0, <1>2, <1>3, ListSteps

LEMMA WaitNext ==
  ASSUME DInv, NoOrphans, EInv', NEW t \in Thread, Step(t)
  PROVE  \A v \in Thread : WaitOK(v)'
<1>1. \A v \in Thread, i \in EpochIdx : retire_lists'[v][i] \subseteq Node /\ pending'[v] \subseteq Node
  BY DEF EInv, TypeOK
<1> SUFFICES ASSUME NEW v \in Thread PROVE WaitOK(v)'
  OBVIOUS
<1>2. \A i \in EpochIdx : \A n \in retire_lists'[v][i], u \in Thread, e \in Nat :
         HeldBy(u, n)' /\ e % number_epochs = i /\ e > local(v)' => local(u)' + 2 <= e
  BY <1>1, WaitListed
<1>3. \A n \in pending'[v], u \in Thread : ~HeldBy(u, n)'
  <2>1. 0 \in EpochIdx
    BY Indexes
  <2> QED
    BY <1>1, <2>1, WaitPending
<1> QED
  BY <1>2, <1>3 DEF WaitOK

LEMMA DInvInit == Init => DInv
<1> SUFFICES ASSUME Init PROVE DInv
  OBVIOUS
<1>1. EInv
  BY EInvInit
<1>2. ASSUME NEW t \in Thread PROVE IndexOK(t) /\ WaitOK(t)
  BY DEF Init, IndexOK, Running, WaitOK
<1> QED
  BY <1>1, <1>2 DEF DInv

LEMMA DInvNext == DInv /\ NoOrphans /\ [Next]_vars => DInv'
<1> SUFFICES ASSUME DInv, NoOrphans, [Next]_vars PROVE DInv'
  OBVIOUS
<1>1. EInv'
  BY EInvNext DEF DInv
<1>2. ASSUME NEW t \in Thread, Step(t) PROVE DInv'
  <2>1. \A u \in Thread : IndexOK(u)'
    BY <1>2, IndexNext DEF DInv
  <2>2. \A u \in Thread : WaitOK(u)'
    BY <1>1, <1>2, WaitNext
  <2> QED
    BY <1>1, <2>1, <2>2 DEF DInv
<1>3. CASE UNCHANGED vars
  <2> USE <1>3 DEF vars, nodes, shared, own, counts, guards, call
  <2>1. ASSUME NEW t \in Thread PROVE IndexOK(t)' /\ WaitOK(t)'
    BY DEF DInv, IndexOK, Running, local, WaitOK, HeldBy
  <2> QED
    BY <1>1, <2>1 DEF DInv
<1> QED
  BY <1>2, <1>3 DEF Next, Step

\* The guards, the status of the nodes and the history of Reclaimer change in few places.
LEMMA GuardSteps ==
  ASSUME NEW t \in Thread, Step(t)
  PROVE  \/ UNCHANGED <<status, ptr, pinned>>
         \/ Load(t) \/ ReclaimReset(t) \/ (\E g \in GuardId : Reset(t, g))
         \/ (\E c \in Cell, n \in Node : Insert(t, c, n))
         \/ Retire(t)
         \/ \E n \in Node : DeleteNode(t, n)
<1> USE DEF guards, nodes
<1>1. CASE ClientStep(t)
  BY <1>1 DEF ClientStep, Acquire, Unlink, Copy, RegionGuard, EndRegion, Exit
<1>2. CASE EnterStep(t)
  BY <1>2 DEF EnterStep, AdoptEntry, AddEntry, InitLoad, InitStore, Enter, SetFlag, LoadGlobal, ScanFlag,
              ScanEpoch, Advance, Adopt, AdoptWith, StoreLocal, StoreLocalWith, Deleted
<1>3. CASE LeaveStep(t)
  BY <1>3 DEF LeaveStep, ClearFlag, Abandon, Release
<1> QED
  BY <1>1, <1>2, <1>3 DEF Step

LEMMA WaitsStep ==
  ASSUME DInv, NEW t \in Thread, Step(t), NEW n \in Node, status[n] = "retired", status'[n] = "free",
         NEW u \in Thread, NEW g \in GuardId
  PROVE  ptr[u][g] # n
<1>0. TypeOK /\ EInv /\ WaitOK(t)
  BY DEF DInv, EInv
<1>1. PICK m \in Node : DeleteNode(t, m)
  <2>1. ~(status' = status) /\ \A c \in Cell, m \in Node : ~Insert(t, c, m)
    BY <1>0 DEF Insert, TypeOK
  <2>2. ~Retire(t)
    BY <1>0, RetireMoves
  <2> QED
    BY <2>1, <2>2, GuardSteps DEF Load, ReclaimReset, Reset
<1>2. n \in pending[t]
  BY <1>0, <1>1, DeleteMoves
<1> QED
  BY <1>0, <1>2 DEF WaitOK, HeldBy

\* Without orphans no node is deleted that a guard has, of whatever thread: it
\* keeps the epoch from beginning in which the list of the node comes round
\* (update_global_epoch, update_local_epoch).
THEOREM DeletersWait == Spec /\ []NoOrphans => DeleterWaits
<1>1. DInv /\ [Next]_vars =>
         [\A n \in Node : status[n] = "retired" /\ status'[n] = "free" =>
             \A t \in Thread, g \in GuardId : ptr[t][g] # n]_vars
  BY WaitsStep DEF Next, Step
<1> QED
  BY <1>1, DInvInit, DInvNext, PTL DEF Spec, DeleterWaits

-----------------------------------------------------------------------------
(* The promise of module Reclaimer                                         *)

LEMMA GuardMaps ==
  ASSUME TypeOK, NEW t \in Thread, NEW g \in GuardId, NEW n \in Node \union {Null},
         SetGuard(t, g, n), status' = status
  PROVE  Promised!RNext \/ UNCHANGED <<status, ptr, pinned>>
<1>0. ptr \in [Thread -> [GuardId -> Node \union {Null}]]
  BY DEF TypeOK
<1>1. /\ ptr' = [ptr EXCEPT ![t][g] = n]
      /\ pinned' = IF ptr[t][g] = n THEN pinned ELSE pinned \ {<<t, g>>}
  BY DEF SetGuard
<1>2. CASE ptr[t][g] = n
  BY <1>0, <1>1, <1>2
<1>3. CASE n \in Node
  BY <1>1, <1>3 DEF Promised!RNext, Promised!Publish
<1>4. CASE n = Null /\ ptr[t][g] # n
  <2>1. ptr' = [ptr EXCEPT ![t] = [s \in GuardId |-> IF s \in {g} THEN Null ELSE ptr[t][s]]]
    BY <1>0, <1>1, <1>4
  <2>2. {t} \X {g} = {<<t, g>>} /\ {g} \in SUBSET GuardId
    OBVIOUS
  <2>3. Promised!Release(t, {g})
    BY <1>1, <1>4, <2>1, <2>2 DEF Promised!Release
  <2> QED
    BY <2>2, <2>3 DEF Promised!RNext
<1> QED
  BY <1>2, <1>3, <1>4

LEMMA RetireMaps ==
  ASSUME EInv, NEW t \in Thread, Retire(t)
  PROVE  Promised!RNext
<1>1. PICK n \in Node : n = ptr[t][gd[t]] /\ status[n] = "live"
  BY RetireMoves
<1>2. /\ status' = [status EXCEPT ![n] = "retired"] /\ ptr' = ptr
      /\ pinned' = pinned \union {h \in Thread \X GuardId : ptr[h[1]][h[2]] = n}
  BY <1>1 DEF Retire, guards
<1>3. Promised!Retire(n)
  BY <1>1, <1>2 DEF Promised!Retire, Promised!Holders, Promised!Guard
<1> QED
  BY <1>2, <1>3 DEF Promised!RNext

LEMMA DeleteMaps ==
  ASSUME DInv, NEW t \in Thread, NEW n \in Node, DeleteNode(t, n)
  PROVE  Promised!RNext
<1>1. EInv /\ WaitOK(t)
  BY DEF DInv
<1>2. n \in pending[t] /\ status[n] = "retired"
  BY <1>1, DeleteMoves
<1>3. \A u \in Thread, g \in GuardId : ptr[u][g] # n
  BY <1>1, <1>2 DEF WaitOK, HeldBy
<1>4. Promised!Holders(n) = {}
  BY <1>3 DEF Promised!Holders, Promised!Guard
<1>5. status' = [status EXCEPT ![n] = "free"] /\ UNCHANGED <<ptr, pinned>>
  BY DEF DeleteNode, guards
<1>6. Promised!Reclaim(n)
  BY <1>2, <1>4, <1>5 DEF Promised!Reclaim
<1> QED
  BY <1>5, <1>6 DEF Promised!RNext

LEMMA PromiseInit == Init => Promised!RInit
BY DEF Init, Promised!RInit

LEMMA PromiseStep == DInv /\ [Next]_vars => [Promised!RNext]_Promised!rvars
<1> SUFFICES ASSUME DInv, [Next]_vars PROVE Promised!RNext \/ UNCHANGED <<status, ptr, pinned>>
  BY DEF Promised!rvars
<1>0. TypeOK /\ EInv
  BY DEF DInv, EInv
<1>1. ASSUME NEW t \in Thread, Step(t) PROVE Promised!RNext \/ UNCHANGED <<status, ptr, pinned>>
  <2>0. CallOK(t)
    BY <1>0 DEF EInv
  <2>1. ASSUME Load(t) PROVE Promised!RNext \/ UNCHANGED <<status, ptr, pinned>>
    <3>1. gd[t] \in GuardId /\ (op[t] # "copy" => src[t] \in Cell)
      BY <2>0, <2>1 DEF Load, CallOK, AcquirePC
    <3>2. (IF op[t] = "copy" THEN expected[t] ELSE cell[src[t]]) \in Node \union {Null}
      BY <1>0, <3>1 DEF TypeOK
    <3>3. (\E n \in Node \union {Null} : SetGuard(t, gd[t], n)) /\ status' = status
      BY <2>1, <3>2 DEF Load
    <3> QED
      BY <1>0, <3>1, <3>3, GuardMaps
  <2>2. ASSUME ReclaimReset(t) PROVE Promised!RNext \/ UNCHANGED <<status, ptr, pinned>>
    <3>1. gd[t] \in GuardId /\ SetGuard(t, gd[t], Null) /\ status' = status
      BY <2>0, <2>2 DEF ReclaimReset, CallOK
    <3> QED
      BY <1>0, <3>1, GuardMaps
  <2>3. ASSUME NEW g \in GuardId, Reset(t, g) PROVE Promised!RNext \/ UNCHANGED <<status, ptr, pinned>>
    BY <1>0, <2>3, GuardMaps DEF Reset
  <2>4. ASSUME NEW c \in Cell, NEW n \in Node, Insert(t, c, n) PROVE Promised!RNext
    BY <2>4 DEF Insert, guards, Promised!Allocate, Promised!RNext
  <2> QED
    BY <1>0, <1>1, <2>1, <2>2, <2>3, <2>4, GuardSteps, RetireMaps, DeleteMaps
<1>2. CASE UNCHANGED vars
  BY <1>2 DEF vars, nodes, guards
<1> QED
  BY <1>1, <1>2 DEF Next, Step

\* Without orphans the scheme keeps what Reclaimer promises to the structures
\* built on it: a node is not deleted while a guard has it that has had it since
\* before it was retired (acquire, reclaim).
THEOREM PromiseKept == Spec /\ []NoOrphans => Promise
BY PromiseInit, PromiseStep, DInvInit, DInvNext, PTL DEF Spec, Promise, Promised!RSpec

-----------------------------------------------------------------------------
(* Threads that keep their nodes                                           *)

LEMMA KeptByAll ==
  ASSUME KInv, NEW t \in Thread, Step(t)
  PROVE  NoOrphans' /\ KeepNodes' /\ \A u \in Thread : pc'[u] \notin {"abandon", "release"} /\ op'[u] # "exit"
<1> USE DEF Goto, nodes, shared, counts, own, guards, call, Call, Return
<1>0. /\ TypeOK /\ policy.abandon = "never" /\ "exit" \notin policy.calls[t]
      /\ pc[t] \notin {"abandon", "release"} /\ op[t] # "exit" /\ \A i \in EpochIdx : orphans[i] = {}
  BY DEF KInv, EInv, TypeOK, NoOrphans, KeepNodes
<1>1. ~Abandon(t) /\ ~Release(t) /\ ~Exit(t)
  BY <1>0 DEF Abandon, Release, Exit
<1>2. \A i \in EpochIdx : orphans'[i] = {}
  <2>1. CASE Adopt(t)
    BY <1>0, <2>1, AdoptMoves DEF KInv
  <2>2. CASE ~Adopt(t)
    <3>1. CASE ClientStep(t)
      BY <1>0, <1>1, <3>1 DEF ClientStep, Acquire, Unlink, Insert, Copy, Reset, RegionGuard, EndRegion
    <3>2. CASE EnterStep(t)
      BY <1>0, <2>2, <3>2 DEF EnterStep, AdoptEntry, AddEntry, InitLoad, InitStore, Enter, SetFlag, LoadGlobal,
         ScanFlag, ScanEpoch, Advance, StoreLocal, StoreLocalWith, DeleteNode, Deleted, Load
    <3>3. CASE LeaveStep(t)
      BY <1>0, <1>1, <3>3 DEF LeaveStep, Retire, ReclaimReset, ClearFlag
    <3> QED
      BY <3>1, <3>2, <3>3 DEF Step
  <2> QED
    BY <2>1, <2>2
<1>3. pc'[t] \notin {"abandon", "release"}
  <2>1. pc' = pc \/ \E x \in PCSet \ {"abandon", "release"} : pc' = [pc EXCEPT ![t] = x]
    <3>1. CASE ClientStep(t)
      BY <1>1, <3>1 DEF ClientStep, Acquire, Unlink, Insert, Copy, Reset, Leave, RegionGuard, EndRegion, First, PCSet
    <3>2. CASE EnterStep(t)
      BY <3>2 DEF EnterStep, AdoptEntry, AddEntry, InitLoad, InitStore, Enter, SetFlag, LoadGlobal, ScanFlag,
         ScanEpoch, NextThread, Advance, Adopt, AdoptWith, StoreLocal, StoreLocalWith, DeleteNode, Deleted,
         Load, Leave, PCSet
    <3>3. CASE LeaveStep(t)
      BY <1>0, <1>1, <3>3 DEF LeaveStep, Leave, Retire, ReclaimReset, ClearFlag, PCSet
    <3> QED
      BY <3>1, <3>2, <3>3 DEF Step
  <2> QED
    BY <1>0, <2>1 DEF TypeOK
<1>4. op'[t] # "exit"
  <2>1. op' = op \/ \E x \in {"none", "acquire", "if_equal", "copy", "region", "reclaim"} : op' = [op EXCEPT ![t] = x]
    <3>1. CASE ClientStep(t)
      BY <1>1, <3>1 DEF ClientStep, Acquire, Unlink, Insert, Copy, Reset, RegionGuard, EndRegion
    <3>2. CASE EnterStep(t)
      BY <3>2 DEF EnterStep, AdoptEntry, AddEntry, InitLoad, InitStore, Enter, SetFlag, LoadGlobal, ScanFlag,
         ScanEpoch, Advance, Adopt, AdoptWith, StoreLocal, StoreLocalWith, DeleteNode, Deleted, Load
    <3>3. CASE LeaveStep(t)
      BY <1>1, <3>3 DEF LeaveStep, Retire, ReclaimReset, ClearFlag, Abandon
    <3> QED
      BY <3>1, <3>2, <3>3 DEF Step
  <2> QED
    BY <1>0, <2>1 DEF TypeOK
<1> QED
  BY <1>0, <1>2, <1>3, <1>4, OthersSame DEF KInv, NoOrphans, KeepNodes, Untouched

LEMMA KInvNext == KInv /\ [Next]_vars => KInv'
<1> SUFFICES ASSUME KInv, [Next]_vars PROVE KInv'
  OBVIOUS
<1>1. EInv'
  BY EInvNext DEF KInv
<1>2. CASE UNCHANGED vars
  BY <1>1, <1>2 DEF KInv, KeepNodes, NoOrphans, vars, nodes, shared, call
<1> QED
  BY <1>1, <1>2, KeptByAll DEF Next, Step, KInv

\* There are no orphans where the policy does not abandon nodes and no thread
\* ends (abandon_strategy, ~thread_data).
THEOREM NoneAbandoned == KeepNodes /\ Spec => []NoOrphans
<1>1. Init /\ KeepNodes => KInv
  BY EInvInit DEF Init, KInv, NoOrphans
<1>2. KInv => NoOrphans
  BY DEF KInv
<1> QED
  BY <1>1, <1>2, KInvNext, PTL DEF Spec

=============================================================================
