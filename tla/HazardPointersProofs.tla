------------------------ MODULE HazardPointersProofs ------------------------
(***************************************************************************)
(* HazardPointers keeps the promise of module Reclaimer, on which the lock-*)
(* free structures rest, loses no retired node and deletes none twice, for *)
(* any number of threads, control blocks, nodes, cells and guards.         *)
(*                                                                         *)
(* HInv is inductive.  Each of its parts has a lemma of its own, which     *)
(* treats the steps that can disturb it one by one and all others at once. *)
(***************************************************************************)
EXTENDS HazardPointers, FiniteSetTheorems, SequenceTheorems, TLAPS

-----------------------------------------------------------------------------
(* The inductive invariant                                                 *)

InBlocks(b) == \E k \in 1..Len(blocks) : blocks[k] = b

\* Who works on hazard pointers or scans has a control block; an entry that a
\* scan or an adoption has still to visit is in the list, from where none goes.
BlocksOK(t) ==
    /\ block[t] # Null =>
          /\ InBlocks(block[t]) /\ state[block[t]] = "active"
          /\ \A u \in Thread : block[u] = block[t] => u = t
    /\ \A k \in 1..Len(todo[t]) : InBlocks(todo[t][k])
    /\ pc[t] \in {"block", "slot"} => todo[t] # << >>
    /\ pc[t] = "entry" => block[t] = Null
    /\ pc[t] \notin {"idle", "entry"} => block[t] # Null

\* The hazard pointers of a thread with a control block: each is either in the
\* list of unused ones, once, or in one guard.
InHint(t, i) == \E k \in 1..Len(hint[t]) : hint[t][k] = i
Held(t, i) == \E g \in GuardId : hpOf[t][g] = i
Ready(t) == block[t] # Null /\ pc[t] # "initialize"
HpsOK(t) ==
    /\ \A f, g \in GuardId : hpOf[t][f] = hpOf[t][g] /\ hpOf[t][f] # 0 => f = g
    /\ ~Ready(t) => \A g \in GuardId : hpOf[t][g] = 0
    /\ Ready(t) =>
          /\ \A j, k \in 1..Len(hint[t]) : hint[t][j] = hint[t][k] => j = k
          /\ \A i \in 1..K : InHint(t, i) <=> ~Held(t, i)
          /\ \A i \in 1..K : InHint(t, i) => hp[block[t]][i] = Link

\* Nothing is published in a block without an owner: a thread that adopts the
\* block does not take over what its former owner protected.
UnusedOK == \A b \in Block, i \in 1..K :
               hp[b][i] \in Node => \E t \in Thread : block[t] = b /\ Ready(t)

PinnedOK == \A t \in Thread, i \in 1..K :
               <<t, i>> \in pinned => Ready(t) /\ hp[block[t]][i] \in Node

\* number_of_active_hps
Counted == {t \in Thread : block[t] # Null /\ pc[t] \notin {"initialize", "release"}}
CountOK == IsFiniteSet(Counted) /\ activeHps = K * Cardinality(Counted)

\* A node in a cell is live and in no other cell; a node that has been unlinked
\* is live and known to one thread until that thread retires it.
CellOK == /\ \A c \in Cell : cell[c] # Null => status[cell[c]] = "live"
          /\ \A c, d \in Cell : cell[c] = cell[d] /\ cell[c] # Null => c = d
ClaimPC == {"reset", "retire"}
ClaimOK(t) == pc[t] \in ClaimPC =>
                 /\ p1[t] \in Node /\ status[p1[t]] = "live"
                 /\ \A c \in Cell : cell[c] # p1[t]
                 /\ \A u \in Thread : pc[u] \in ClaimPC /\ p1[u] = p1[t] => u = t

\* Where the retired nodes are.
Keeps(t) == retired[t] \union adopted[t] \union pending[t]
KeptOK ==
    /\ \A n \in Node : status[n] = "retired" <=>
                          (n \in abandoned \/ \E t \in Thread : n \in Keeps(t))
    /\ \A t \in Thread : /\ Keeps(t) \intersect abandoned = {}
                         /\ retired[t] \intersect adopted[t] = {}
                         /\ retired[t] \intersect pending[t] = {}
                         /\ adopted[t] \intersect pending[t] = {}
                         /\ \A u \in Thread : u # t => Keeps(t) \intersect Keeps(u) = {}
EmptyOK(t) == /\ pc[t] \notin {"begin", "block", "slot", "take"} => adopted[t] = {}
              /\ pc[t] # "delete" => pending[t] = {}
              /\ pc[t] \in {"subtract", "release"} => retired[t] = {}

\* A hazard pointer that keeps one of the nodes a scan looks at is one the scan
\* has seen or has still ahead of it, in the block or the slot it comes to.
HeldBy(u, i, n) == <<u, i>> \in pinned /\ hp[block[u]][i] = n
Ahead(t, b, i) == \E k \in 1..Len(todo[t]) :
                     todo[t][k] = b /\ (k = 1 /\ pc[t] = "slot" => i >= idx[t])
ScanOK(t) ==
    /\ pc[t] # "slot" => idx[t] = 1
    /\ pc[t] \in {"block", "slot", "take"} =>
          \A n \in retired[t] \union adopted[t], u \in Thread, i \in 1..K :
             HeldBy(u, i, n) => n \in prot[t] \/ (pc[t] # "take" /\ Ahead(t, block[u], i))
    /\ \A n \in pending[t], u \in Thread, i \in 1..K : ~HeldBy(u, i, n)

\* The node of a guard is published and, unless clients copy guards, protected.
Busy(t, g) == gd[t] = g /\ pc[t] \in {"publish", "validate"}
GuardOK(t, g) ==
    /\ ptr[t][g] # Null => hpOf[t][g] # 0
    /\ ptr[t][g] # Null /\ ~Busy(t, g) =>
          /\ hp[block[t]][hpOf[t][g]] = ptr[t][g]
          /\ \/ copies
             \/ status[ptr[t][g]] = "live"
             \/ status[ptr[t][g]] = "retired" /\ <<t, hpOf[t][g]>> \in pinned

\* What an operation that has begun works on.
CallOK(t) ==
    /\ pc[t] \in {"entry", "initialize", "publish", "validate", "reset"} => gd[t] \in GuardId
    /\ pc[t] \in {"entry", "initialize", "publish", "validate"} =>
          /\ op[t] # "copy" => src[t] \in Cell /\ p1[t] \in Node
          /\ op[t] \in {"acquire", "if_equal", "copy"}
          /\ op[t] = "copy" => copies
    /\ pc[t] \in {"publish", "validate"} => hpOf[t][gd[t]] # 0
    /\ pc[t] = "validate" => op[t] # "copy" /\ hp[block[t]][hpOf[t][gd[t]]] = p1[t]

\* A thread that ends has reset all its guards.
ExitOK(t) ==
    /\ after[t] = "abandon" => pc[t] \in {"scan", "begin", "block", "slot", "take", "delete"}
    /\ after[t] = "abandon" \/ pc[t] \in {"abandon", "subtract", "release"} =>
          \A g \in GuardId : hpOf[t][g] = 0

HInv == /\ TypeOK
        /\ UnusedOK /\ PinnedOK /\ CountOK /\ CellOK /\ KeptOK
        /\ \A t \in Thread : /\ BlocksOK(t) /\ HpsOK(t) /\ ClaimOK(t) /\ EmptyOK(t)
                             /\ ScanOK(t) /\ CallOK(t) /\ ExitOK(t)
                             /\ \A g \in GuardId : GuardOK(t, g)

Step(t) == GuardStep(t) \/ AcquireStep(t) \/ ReclaimStep(t) \/ ExitStep(t)

-----------------------------------------------------------------------------
(* Sequences and counts                                                    *)

LEMMA ConsFacts ==
  ASSUME NEW S, NEW s \in Seq(S), NEW e \in S
  PROVE  /\ <<e>> \o s \in Seq(S) /\ Len(<<e>> \o s) = Len(s) + 1 /\ Len(s) \in Nat
         /\ (<<e>> \o s)[1] = e
         /\ \A k \in 1..Len(s) : (<<e>> \o s)[k + 1] = s[k]
         /\ \A k \in 2..(Len(s) + 1) : (<<e>> \o s)[k] = s[k - 1]
OBVIOUS

LEMMA HeadTail ==
  ASSUME NEW S, NEW s \in Seq(S), s # << >>
  PROVE  /\ Len(s) \in Nat /\ Len(s) >= 1
         /\ Head(s) = s[1] /\ Head(s) \in S
         /\ Tail(s) \in Seq(S) /\ Len(Tail(s)) = Len(s) - 1
         /\ \A k \in 1..(Len(s) - 1) : Tail(s)[k] = s[k + 1]
         /\ Tail(s) = << >> <=> Len(s) = 1
<1>1. /\ Len(s) \in Nat /\ Len(s) >= 1
      /\ Head(s) = s[1] /\ Head(s) \in S
      /\ Tail(s) \in Seq(S) /\ Len(Tail(s)) = Len(s) - 1
      /\ \A k \in 1..(Len(s) - 1) : Tail(s)[k] = s[k + 1]
  OBVIOUS
<1>2. Tail(s) = << >> <=> Len(Tail(s)) = 0
  BY <1>1, EmptySeq
<1>3. Len(Tail(s)) = 0 <=> Len(s) = 1
  BY <1>1
<1> QED
  BY <1>1, <1>2, <1>3

-----------------------------------------------------------------------------
(* The parts of the steps                                                  *)

\* A thread at work on a hazard pointer: where that is.
LEMMA SlotFacts ==
  ASSUME HInv, NEW t \in Thread, NEW g \in GuardId, hpOf[t][g] # 0
  PROVE  hpOf[t][g] \in 1..K /\ block[t] \in Block /\ Ready(t)
<1>1. TypeOK /\ HpsOK(t)
  BY DEF HInv
<1>2. hpOf[t][g] \in 1..K /\ Ready(t)
  BY <1>1, KAssumption DEF HpsOK, TypeOK
<1> QED
  BY <1>1, <1>2 DEF TypeOK, Ready

LEMMA SetObjectEffect ==
  ASSUME TypeOK, NEW t \in Thread, block[t] \in Block, NEW i \in 1..K,
         NEW n \in Node \union {Null}, SetObject(t, i, n)
  PROVE  /\ hp' \in [Block -> [1..K -> Node \union {Null, Link}]]
         /\ pinned' \in SUBSET (Thread \X (1..K))
         /\ hp'[block[t]][i] = n
         /\ \A j \in 1..K \ {i} : hp'[block[t]][j] = hp[block[t]][j]
         /\ \A b \in Block \ {block[t]} : hp'[b] = hp[b]
         /\ pinned' \subseteq pinned
         /\ \A g \in pinned : g # <<t, i>> => g \in pinned'
         /\ hp[block[t]][i] # n => <<t, i>> \notin pinned'
         /\ hp[block[t]][i] = n => pinned' = pinned
BY DEF TypeOK, SetObject

LEMMA ReleaseHpEffect ==
  ASSUME TypeOK, NEW t \in Thread, block[t] \in Block, NEW i \in 1..K, ReleaseHp(t, i)
  PROVE  /\ hp' \in [Block -> [1..K -> Node \union {Null, Link}]]
         /\ hint' \in [Thread -> Seq(1..K)]
         /\ pinned' \in SUBSET (Thread \X (1..K))
         /\ hp'[block[t]][i] = Link
         /\ \A j \in 1..K \ {i} : hp'[block[t]][j] = hp[block[t]][j]
         /\ \A b \in Block \ {block[t]} : hp'[b] = hp[b]
         /\ pinned' = pinned \ {<<t, i>>}
         /\ hint'[t] = <<i>> \o hint[t]
         /\ \A u \in Thread \ {t} : hint'[u] = hint[u]
<1>1. i # 0
  BY KAssumption
<1>2. /\ hp' = [hp EXCEPT ![block[t]][i] = Link]
      /\ hint' = [hint EXCEPT ![t] = <<i>> \o hint[t]]
      /\ pinned' = pinned \ {<<t, i>>}
  BY <1>1 DEF ReleaseHp
<1>3. <<i>> \o hint[t] \in Seq(1..K)
  BY ConsFacts DEF TypeOK
<1> QED
  BY <1>2, <1>3 DEF TypeOK

\* All of a guard's reset, also of a guard without a hazard pointer.
LEMMA ResetTypes ==
  ASSUME HInv, NEW t \in Thread, NEW g \in GuardId, ReleaseHp(t, hpOf[t][g])
  PROVE  /\ hp' \in [Block -> [1..K -> Node \union {Null, Link}]]
         /\ hint' \in [Thread -> Seq(1..K)]
         /\ pinned' \in SUBSET (Thread \X (1..K))
<1>1. TypeOK
  BY DEF HInv
<1>2. CASE hpOf[t][g] = 0
  BY <1>1, <1>2 DEF ReleaseHp, TypeOK
<1>3. CASE hpOf[t][g] # 0
  BY <1>1, <1>3, SlotFacts, ReleaseHpEffect
<1> QED
  BY <1>2, <1>3

-----------------------------------------------------------------------------
(* Types                                                                   *)

LEMMA NestedExcept ==
  ASSUME NEW P, NEW Q, NEW S, NEW f \in [P -> [Q -> S]], NEW p \in P, NEW q \in Q, NEW x \in S
  PROVE  [f EXCEPT ![p][q] = x] \in [P -> [Q -> S]]
OBVIOUS

LEMMA TypeInit == Init => TypeOK
<1> SUFFICES ASSUME Init PROVE TypeOK
  OBVIOUS
<1>1. 1 \in 1..K /\ 0 \in 0..K /\ 0 \in Nat
  BY KAssumption
<1>2. << >> \in Seq(Block) /\ << >> \in Seq(1..K)
  BY EmptySeq
<1> QED
  BY <1>1, <1>2 DEF Init, TypeOK

\* A thread counted has contributed its K hazard pointers to activeHps.
LEMMA CountPositive ==
  ASSUME HInv, NEW t \in Counted
  PROVE  activeHps >= K /\ activeHps - K = K * Cardinality(Counted \ {t})
<1>1. IsFiniteSet(Counted) /\ activeHps = K * Cardinality(Counted) /\ K \in Nat
  BY KAssumption DEF HInv, CountOK
<1>2. /\ IsFiniteSet(Counted \ {t})
      /\ Cardinality(Counted \ {t}) = Cardinality(Counted) - 1
  BY <1>1, FS_RemoveElement
<1>3. Cardinality(Counted) \in Nat /\ Cardinality(Counted \ {t}) \in Nat
  BY <1>1, <1>2, FS_CardinalityType
<1>4. ASSUME NEW c \in Nat, NEW d \in Nat, d = c - 1, NEW k \in Nat
      PROVE  k * c >= k /\ k * c - k = k * d
  <2>1. c = d + 1
    BY <1>4
  <2>2. k * (d + 1) = k * d + k /\ k * d \in Nat
    OBVIOUS
  <2> QED
    BY <2>1, <2>2
<1> QED
  BY <1>1, <1>2, <1>3, <1>4

LEMMA GuardingType ==
  ASSUME HInv, NEW t \in Thread, NEW g \in GuardId, NEW o \in {"acquire", "if_equal", "copy"},
         NEW c \in Cell \union {Null}, NEW n \in Node \union {Null},
         Call(t, o, g, c, n), Guarding(t, g)
  PROVE  TypeOK'
<1> USE DEF Guarding, EnsureHp, Goto, Call, nodes, global
<1>1. TypeOK /\ K \in Nat
  BY KAssumption DEF HInv
<1>2. /\ op' \in [Thread -> {"none", "acquire", "if_equal", "copy", "reclaim"}]
      /\ gd' \in [Thread -> GuardId \union {Null}]
      /\ src' \in [Thread -> Cell \union {Null}]
      /\ p1' \in [Thread -> Node \union {Null}]
  BY <1>1 DEF TypeOK
<1>3. hint[t] # << >> => Head(hint[t]) \in 0..K /\ Tail(hint[t]) \in Seq(1..K)
  BY <1>1, HeadTail DEF TypeOK
<1>4. /\ hpOf' \in [Thread -> [GuardId -> 0..K]] /\ hint' \in [Thread -> Seq(1..K)]
      /\ todo' \in [Thread -> Seq(Block)]
  <2>1. hpOf \in [Thread -> [GuardId -> 0..K]] /\ hint \in [Thread -> Seq(1..K)]
        /\ todo \in [Thread -> Seq(Block)] /\ blocks \in Seq(Block)
    BY <1>1 DEF TypeOK
  <2>2. \/ UNCHANGED <<hpOf, hint, todo>>
        \/ /\ hint[t] # << >> /\ UNCHANGED todo
           /\ hpOf' = [hpOf EXCEPT ![t][g] = Head(hint[t])]
           /\ hint' = [hint EXCEPT ![t] = Tail(hint[t])]
        \/ UNCHANGED <<hpOf, hint>> /\ todo' = [todo EXCEPT ![t] = blocks]
    OBVIOUS
  <2>3. todo' \in [Thread -> Seq(Block)]
    BY <2>1, <2>2
  <2>4. hint' \in [Thread -> Seq(1..K)]
    BY <2>1, <2>2, <1>3
  <2>5. hpOf' \in [Thread -> [GuardId -> 0..K]]
    <3>1. hpOf' = hpOf \/ \E i \in 0..K : hpOf' = [hpOf EXCEPT ![t][g] = i]
      BY <2>2, <1>3
    <3>2. ASSUME NEW i \in 0..K, hpOf' = [hpOf EXCEPT ![t][g] = i]
          PROVE  hpOf' \in [Thread -> [GuardId -> 0..K]]
      <4>1. [hpOf EXCEPT ![t][g] = i] \in [Thread -> [GuardId -> 0..K]]
        BY <2>1, NestedExcept
      <4> QED
        BY <3>2, <4>1
    <3> QED
      BY <2>1, <3>1, <3>2
  <2> QED
    BY <2>3, <2>4, <2>5
<1>5. pc' \in [Thread -> {"idle", "entry", "new", "initialize", "publish", "validate", "reset",
                          "retire", "scan", "begin", "block", "slot", "take",
                          "delete", "abandon", "subtract", "release"}]
  BY <1>1 DEF TypeOK
<1>6. UNCHANGED <<nodes, global, block, retired, ptr, idx, adopted, prot, pending, after, pinned, copies>>
  OBVIOUS
<1> QED
  BY <1>1, <1>2, <1>4, <1>5, <1>6 DEF TypeOK

LEMMA TypeNext == HInv /\ [Next]_vars => TypeOK'
<1> SUFFICES ASSUME HInv, [Next]_vars PROVE TypeOK'
  OBVIOUS
<1> USE DEF Goto, nodes, global, own, scanning, call
<1>0. /\ TypeOK /\ K \in Nat /\ 1 \in 1..K
      /\ \A t \in Thread : BlocksOK(t) /\ HpsOK(t) /\ CallOK(t) /\ ClaimOK(t)
      /\ Null \notin Node
  BY KAssumption, HPNullAssumption DEF HInv
<1>1. ASSUME NEW t \in Thread, NEW g \in GuardId, Reset(t, g) PROVE TypeOK'
  BY <1>0, <1>1, ResetTypes DEF Reset, ResetGuard, ResetOnly, TypeOK
<1>2. ASSUME NEW t \in Thread, NEW f \in GuardId, NEW g \in GuardId, Copy(t, f, g) PROVE TypeOK'
  <2>1. ptr[t][f] \in Node \union {Null}
    BY <1>0 DEF TypeOK
  <2> QED
    BY <1>2, <2>1, GuardingType DEF Copy
<1>3. ASSUME NEW t \in Thread, NEW f \in GuardId, NEW g \in GuardId, Move(t, f, g) PROVE TypeOK'
  BY <1>0, <1>3, ResetTypes DEF Move, ResetOnly, TypeOK
<1>4. ASSUME NEW t \in Thread, NEW f \in GuardId, NEW g \in GuardId, Swap(t, f, g) PROVE TypeOK'
  BY <1>0, <1>4 DEF Swap, ResetOnly, TypeOK
<1>5. ASSUME NEW t \in Thread, NEW g \in GuardId, NEW c \in Cell,
             Acquire(t, g, c) \/ AcquireIfEqual(t, g, c)
      PROVE  TypeOK'
  <2>1. cell[c] \in Node \union {Null}
    BY <1>0 DEF TypeOK
  <2> QED
    BY <1>5, <2>1, GuardingType DEF Acquire, AcquireIfEqual
<1>6. ASSUME NEW t \in Thread, NEW g \in GuardId, NEW c \in Cell, Unlink(t, g, c) PROVE TypeOK'
  BY <1>0, <1>6 DEF Unlink, Call, TypeOK
<1>7. ASSUME NEW t \in Thread, NEW c \in Cell, NEW n \in Node, Insert(t, c, n) PROVE TypeOK'
  BY <1>0, <1>7 DEF Insert, TypeOK
<1>8. ASSUME NEW t \in Thread, AdoptEntry(t) PROVE TypeOK'
  <2>1. Head(todo[t]) \in Block /\ Tail(todo[t]) \in Seq(Block) /\ << >> \in Seq(Block)
    BY <1>0, <1>8, HeadTail, EmptySeq DEF AdoptEntry, TypeOK
  <2>2. ASSUME NEW b \in Block, NEW s \in Seq(Block), b = Head(todo[t]), s = Tail(todo[t])
        PROVE  TypeOK'
    <3>1. CASE state[b] = "free"
      <4>1. /\ pc' = [pc EXCEPT ![t] = "initialize"] /\ state' = [state EXCEPT ![b] = "active"]
            /\ block' = [block EXCEPT ![t] = b] /\ todo' = [todo EXCEPT ![t] = << >>]
        BY <1>8, <2>2, <3>1 DEF AdoptEntry
      <4> QED
        BY <1>0, <1>8, <2>1, <4>1 DEF AdoptEntry, TypeOK
    <3>2. CASE state[b] # "free"
      <4>1. /\ pc' = [pc EXCEPT ![t] = "entry"] /\ todo' = [todo EXCEPT ![t] = s]
            /\ UNCHANGED <<state, block>>
        BY <1>8, <2>2, <3>2 DEF AdoptEntry
      <4> QED
        BY <1>0, <1>8, <4>1 DEF AdoptEntry, TypeOK
    <3> QED
      BY <3>1, <3>2
  <2> QED
    BY <2>1, <2>2
<1>9. ASSUME NEW t \in Thread, NEW b \in Block, AddEntry(t, b) PROVE TypeOK'
  <2>1. <<b>> \o blocks \in Seq(Block)
    BY <1>0, ConsFacts DEF TypeOK
  <2> QED
    BY <1>0, <1>9, <2>1 DEF AddEntry, TypeOK
<1>10. ASSUME NEW t \in Thread, Initialize(t) PROVE TypeOK'
  <2>1. [i \in 1..(K - 1) |-> i + 1] \in Seq(1..K)
    <3>1. K - 1 \in Nat /\ [i \in 1..(K - 1) |-> i + 1] \in [1..(K - 1) -> 1..K]
      BY KAssumption
    <3> QED
      BY <3>1, SeqDef
  <2>2. gd[t] \in GuardId /\ 1 \in 0..K
    BY <1>0, <1>10 DEF Initialize, CallOK
  <2>3. hint' \in [Thread -> Seq(1..K)] /\ activeHps' \in Nat
    BY <1>0, <1>10, <2>1 DEF Initialize, TypeOK
  <2>4. /\ hp' \in [Block -> [1..K -> Node \union {Null, Link}]]
        /\ hpOf' \in [Thread -> [GuardId -> 0..K]]
    BY <1>0, <1>10, <2>2 DEF Initialize, TypeOK
  <2> QED
    BY <1>0, <1>10, <2>3, <2>4 DEF Initialize, TypeOK
<1>11. ASSUME NEW t \in Thread, Publish(t) PROVE TypeOK'
  <2>1. gd[t] \in GuardId /\ hpOf[t][gd[t]] # 0 /\ p1[t] \in Node \union {Null}
    BY <1>0, <1>11 DEF Publish, CallOK, TypeOK
  <2>2. /\ hp' \in [Block -> [1..K -> Node \union {Null, Link}]]
        /\ pinned' \in SUBSET (Thread \X (1..K))
    BY <1>0, <1>11, <2>1, SlotFacts, SetObjectEffect DEF Publish
  <2>3. CASE op[t] = "copy"
    <3>1. /\ op' \in [Thread -> {"none", "acquire", "if_equal", "copy", "reclaim"}]
          /\ gd' \in [Thread -> GuardId \union {Null}] /\ src' \in [Thread -> Cell \union {Null}]
          /\ p1' \in [Thread -> Node \union {Null}]
      BY <1>0, <1>11, <2>3 DEF Publish, Return, Call, TypeOK
    <3>2. ptr' \in [Thread -> [GuardId -> Node \union {Null}]]
      <4>1. ptr' = [ptr EXCEPT ![t][gd[t]] = p1[t]]
        BY <1>11, <2>3 DEF Publish
      <4>2. ptr \in [Thread -> [GuardId -> Node \union {Null}]]
        BY <1>0 DEF TypeOK
      <4> QED
        BY <2>1, <4>1, <4>2, NestedExcept
    <3> QED
      BY <1>0, <1>11, <2>2, <2>3, <3>1, <3>2 DEF Publish, TypeOK
  <2>4. CASE op[t] # "copy"
    BY <1>0, <1>11, <2>1, <2>2, <2>4 DEF Publish, TypeOK
  <2> QED
    BY <2>3, <2>4
<1>12. ASSUME NEW t \in Thread, Validate(t) PROVE TypeOK'
  <2>1. gd[t] \in GuardId /\ op[t] # "copy" /\ src[t] \in Cell /\ cell[src[t]] \in Node \union {Null}
    BY <1>0, <1>12 DEF Validate, CallOK, TypeOK
  <2>2. CASE Goto(t, "validate", "idle") /\ ResetGuard(t, gd[t]) /\ Return(t)
    <3>1. ResetOnly
      BY <1>12 DEF Validate
    <3>2. /\ hp' \in [Block -> [1..K -> Node \union {Null, Link}]]
          /\ hint' \in [Thread -> Seq(1..K)]
          /\ pinned' \in SUBSET (Thread \X (1..K))
          /\ hpOf' \in [Thread -> [GuardId -> 0..K]]
          /\ ptr' \in [Thread -> [GuardId -> Node \union {Null}]]
      BY <1>0, <2>1, <2>2, ResetTypes DEF ResetGuard, TypeOK
    <3> QED
      BY <1>0, <2>2, <3>1, <3>2 DEF ResetOnly, Return, Call, TypeOK
  <2>3. CASE /\ Goto(t, "validate", "idle") /\ ptr' = [ptr EXCEPT ![t][gd[t]] = cell[src[t]]]
             /\ Return(t) /\ UNCHANGED <<hp, hint, hpOf, pinned>>
    BY <1>0, <1>12, <2>1, <2>3 DEF Validate, ResetOnly, Return, Call, TypeOK
  <2>4. CASE /\ Goto(t, "validate", "publish") /\ p1' = [p1 EXCEPT ![t] = cell[src[t]]]
             /\ UNCHANGED <<hp, hint, hpOf, ptr, pinned, op, gd, src>>
    BY <1>0, <1>12, <2>1, <2>4 DEF Validate, ResetOnly, TypeOK
  <2> QED
    BY <1>12, <2>2, <2>3, <2>4 DEF Validate
<1>13. ASSUME NEW t \in Thread, ReclaimReset(t) PROVE TypeOK'
  <2>1. gd[t] \in GuardId
    BY <1>0, <1>13 DEF ReclaimReset, CallOK
  <2> QED
    BY <1>0, <1>13, <2>1, ResetTypes DEF ReclaimReset, ResetGuard, ResetOnly, TypeOK
<1>14. ASSUME NEW t \in Thread, Retire(t) PROVE TypeOK'
  <2>1. p1[t] \in Node
    BY <1>0, <1>14 DEF Retire, ClaimOK, ClaimPC
  <2> QED
    BY <1>0, <1>14, <2>1 DEF Retire, Return, Call, TypeOK
<1>15. ASSUME NEW t \in Thread,
              \/ ScanAdopt(t) \/ ScanTake(t) \/ ScanReturn(t)
              \/ \E n \in Node : ScanDelete(t, n)
              \/ Exit(t) \/ Abandon(t)
       PROVE  TypeOK'
  <2>1. CASE ScanAdopt(t)
    BY <1>0, <2>1 DEF ScanAdopt, TypeOK
  <2>2. CASE ScanTake(t)
    BY <1>0, <2>2 DEF ScanTake, TypeOK
  <2>3. CASE Abandon(t)
    BY <1>0, <2>3 DEF Abandon, TypeOK
  <2>4. CASE ScanReturn(t)
    BY <1>0, <2>4 DEF ScanReturn, TypeOK
  <2>5. ASSUME NEW n \in Node, ScanDelete(t, n) PROVE TypeOK'
    BY <1>0, <2>5 DEF ScanDelete, TypeOK
  <2>6. CASE Exit(t)
    BY <1>0, <2>6 DEF Exit, TypeOK
  <2> QED
    BY <1>15, <2>1, <2>2, <2>3, <2>4, <2>5, <2>6
<1>16. ASSUME NEW t \in Thread, ScanBegin(t) \/ ScanEntry(t) \/ ScanSlot(t) PROVE TypeOK'
  <2>1. pc[t] \in {"block", "slot"} => Head(todo[t]) \in Block /\ Tail(todo[t]) \in Seq(Block)
    BY <1>0, HeadTail DEF BlocksOK, TypeOK
  <2>2. CASE ScanBegin(t)
    BY <1>0, <2>2 DEF ScanBegin, TypeOK
  <2>3. CASE ScanEntry(t)
    <3>1. todo' \in [Thread -> Seq(Block)]
      BY <1>0, <2>1, <2>3 DEF ScanEntry, NextEntry, TypeOK
    <3>2. \E x \in {"slot", "take", "block"} : pc' = [pc EXCEPT ![t] = x]
      BY <2>3 DEF ScanEntry, NextEntry
    <3> QED
      BY <1>0, <2>3, <3>1, <3>2 DEF ScanEntry, TypeOK
  <2>4. CASE ScanSlot(t)
    <3>1. idx' \in [Thread -> 1..K]
      <4>1. \E j \in 1..K : idx' = [idx EXCEPT ![t] = j]
        BY <1>0, <2>4 DEF ScanSlot, ScanSlotUpTo, TypeOK
      <4> QED
        BY <1>0, <4>1 DEF TypeOK
    <3>2. prot' \in [Thread -> SUBSET Node]
      BY <1>0, <2>4 DEF ScanSlot, ScanSlotUpTo, TypeOK
    <3>3. todo' \in [Thread -> Seq(Block)]
      <4>1. pc[t] = "slot" /\ (todo' = todo \/ todo' = [todo EXCEPT ![t] = Tail(todo[t])])
        BY <2>4 DEF ScanSlot, ScanSlotUpTo, NextEntry
      <4> QED
        BY <1>0, <2>1, <4>1 DEF TypeOK
    <3>4. \E x \in {"slot", "take", "block"} : pc' = [pc EXCEPT ![t] = x]
      BY <2>4 DEF ScanSlot, ScanSlotUpTo, NextEntry
    <3> QED
      BY <1>0, <2>4, <3>1, <3>2, <3>3, <3>4
         DEF ScanSlot, ScanSlotUpTo, TypeOK, NextEntry
  <2> QED
    BY <1>16, <2>2, <2>3, <2>4
<1>17. ASSUME NEW t \in Thread, SubtractHps(t) PROVE TypeOK'
  <2>1. t \in Counted
    BY <1>0, <1>17 DEF SubtractHps, BlocksOK, Counted
  <2>2. activeHps - K \in Nat
    <3>1. activeHps \in Nat /\ K \in Nat
      BY <1>0 DEF TypeOK
    <3>2. activeHps >= K
      BY <2>1, CountPositive
    <3> QED
      BY <3>1, <3>2
  <2> QED
    BY <1>0, <1>17, <2>2 DEF SubtractHps, TypeOK
<1>18. ASSUME NEW t \in Thread, ReleaseEntry(t) PROVE TypeOK'
  <2>1. << >> \in Seq(1..K)
    BY EmptySeq
  <2>2. block[t] \in Block
    <3>1. pc[t] = "release" /\ BlocksOK(t)
      BY <1>0, <1>18 DEF ReleaseEntry
    <3>2. block[t] # Null
      BY <3>1 DEF BlocksOK
    <3> QED
      BY <1>0, <3>2 DEF TypeOK
  <2> QED
    BY <1>0, <1>18, <2>1, <2>2 DEF ReleaseEntry, TypeOK
<1>19. CASE UNCHANGED vars
  BY <1>0, <1>19 DEF vars, TypeOK
<1> QED
  BY <1>1, <1>2, <1>3, <1>4, <1>5, <1>6, <1>7, <1>8, <1>9, <1>10, <1>11, <1>12, <1>13, <1>14,
     <1>15, <1>16, <1>17, <1>18, <1>19
     DEF Next, GuardStep, AcquireStep, ReclaimStep, ExitStep

-----------------------------------------------------------------------------
(* What a step of one thread leaves to the others                          *)

SameCall(u) == op'[u] = op[u] /\ gd'[u] = gd[u] /\ src'[u] = src[u] /\ p1'[u] = p1[u]
SameGuards(u) == /\ block'[u] = block[u] /\ hint'[u] = hint[u]
                 /\ ptr'[u] = ptr[u] /\ hpOf'[u] = hpOf[u]
SameScan(u) == /\ retired'[u] = retired[u] /\ todo'[u] = todo[u] /\ idx'[u] = idx[u]
               /\ adopted'[u] = adopted[u] /\ prot'[u] = prot[u] /\ pending'[u] = pending[u]
               /\ after'[u] = after[u]
Same(u) == pc'[u] = pc[u] /\ SameCall(u) /\ SameGuards(u) /\ SameScan(u)

LEMMA GuardSame ==
  ASSUME TypeOK, NEW t \in Thread, GuardStep(t), NEW u \in Thread \ {t}
  PROVE  Same(u)
<1> USE DEF Goto, nodes, global, own, scanning, call, Same, SameCall, SameGuards, SameScan, TypeOK
<1>1. ASSUME NEW g \in GuardId, Reset(t, g) PROVE Same(u)
  BY <1>1 DEF Reset, ResetGuard, ReleaseHp, ResetOnly
<1>2. ASSUME NEW f \in GuardId, NEW g \in GuardId, Copy(t, f, g) PROVE Same(u)
  BY <1>2 DEF Copy, Call, Guarding, EnsureHp
<1>3. ASSUME NEW f \in GuardId, NEW g \in GuardId, Move(t, f, g) PROVE Same(u)
  BY <1>3 DEF Move, ReleaseHp, ResetOnly
<1>4. ASSUME NEW f \in GuardId, NEW g \in GuardId, Swap(t, f, g) PROVE Same(u)
  BY <1>4 DEF Swap, ResetOnly
<1>5. ASSUME NEW g \in GuardId, NEW c \in Cell, Acquire(t, g, c) \/ AcquireIfEqual(t, g, c) PROVE Same(u)
  BY <1>5 DEF Acquire, AcquireIfEqual, Call, Guarding, EnsureHp
<1>6. ASSUME NEW g \in GuardId, NEW c \in Cell, Unlink(t, g, c) PROVE Same(u)
  BY <1>6 DEF Unlink, Call
<1>7. ASSUME NEW c \in Cell, NEW n \in Node, Insert(t, c, n) PROVE Same(u)
  BY <1>7 DEF Insert
<1> QED
  BY <1>1, <1>2, <1>3, <1>4, <1>5, <1>6, <1>7 DEF GuardStep

LEMMA AcquireSame ==
  ASSUME TypeOK, NEW t \in Thread, AcquireStep(t), NEW u \in Thread \ {t}
  PROVE  Same(u)
<1> USE DEF Goto, nodes, global, own, scanning, call, Same, SameCall, SameGuards, SameScan, TypeOK
<1>1. ASSUME AdoptEntry(t) PROVE Same(u)
  BY <1>1 DEF AdoptEntry
<1>2. ASSUME Initialize(t) PROVE Same(u)
  BY <1>2 DEF Initialize
<1>3. ASSUME Publish(t) PROVE Same(u)
  BY <1>3 DEF Publish, SetObject, Return, Call
<1>4. ASSUME Validate(t) PROVE Same(u)
  BY <1>4 DEF Validate, ResetGuard, ReleaseHp, ResetOnly, Return, Call
<1>5. ASSUME NEW b \in Block, AddEntry(t, b) PROVE Same(u)
  BY <1>5 DEF AddEntry
<1> QED
  BY <1>1, <1>2, <1>3, <1>4, <1>5 DEF AcquireStep

LEMMA ReclaimSame ==
  ASSUME TypeOK, NEW t \in Thread, ReclaimStep(t) \/ ExitStep(t), NEW u \in Thread \ {t}
  PROVE  Same(u)
<1> USE DEF Goto, nodes, global, own, scanning, call, Same, SameCall, SameGuards, SameScan, TypeOK
<1>1. ASSUME ReclaimReset(t) PROVE Same(u)
  BY <1>1 DEF ReclaimReset, ResetGuard, ReleaseHp, ResetOnly
<1>2. ASSUME Retire(t) PROVE Same(u)
  BY <1>2 DEF Retire, Return, Call
<1>3. ASSUME ScanAdopt(t) \/ ScanBegin(t) PROVE Same(u)
  BY <1>3 DEF ScanAdopt, ScanBegin
<1>4. ASSUME ScanEntry(t) \/ ScanSlot(t) PROVE Same(u)
  BY <1>4 DEF ScanEntry, ScanSlot, ScanSlotUpTo, NextEntry
<1>5. ASSUME ScanTake(t) \/ ScanReturn(t) PROVE Same(u)
  BY <1>5 DEF ScanTake, ScanReturn
<1>6. ASSUME NEW n \in Node, ScanDelete(t, n) PROVE Same(u)
  BY <1>6 DEF ScanDelete
<1>7. ASSUME Exit(t) \/ Abandon(t) PROVE Same(u)
  BY <1>7 DEF Exit, Abandon
<1>8. ASSUME SubtractHps(t) \/ ReleaseEntry(t) PROVE Same(u)
  BY <1>8 DEF SubtractHps, ReleaseEntry
<1> QED
  BY <1>1, <1>2, <1>3, <1>4, <1>5, <1>6, <1>7, <1>8 DEF ReclaimStep, ExitStep

LEMMA OthersSame ==
  ASSUME HInv, NEW t \in Thread, Step(t), NEW u \in Thread \ {t}
  PROVE  Same(u)
BY GuardSame, AcquireSame, ReclaimSame DEF HInv, Step

-----------------------------------------------------------------------------
(* The control blocks                                                      *)

\* Most steps leave the blocks and their owners alone.
LEMMA BlocksStay ==
  ASSUME HInv, NEW t \in Thread, Step(t), UNCHANGED <<block, blocks, state>>,
         \A k \in 1..Len(todo'[t]) : InBlocks(todo'[t][k]),
         pc'[t] \in {"block", "slot"} => todo'[t] # << >>,
         pc'[t] = "entry" => block[t] = Null,
         pc'[t] \notin {"idle", "entry"} => block[t] # Null
  PROVE  \A u \in Thread : BlocksOK(u)'
<1>1. \A u \in Thread : BlocksOK(u)
  BY DEF HInv
<1>2. BlocksOK(t)'
  BY <1>1 DEF BlocksOK, InBlocks
<1>3. ASSUME NEW u \in Thread \ {t} PROVE BlocksOK(u)'
  <2>1. pc'[u] = pc[u] /\ todo'[u] = todo[u]
    BY OthersSame DEF Same, SameScan
  <2> QED
    BY <1>1, <2>1 DEF BlocksOK, InBlocks
<1> QED
  BY <1>2, <1>3

LEMMA BlocksGuardStep ==
  ASSUME HInv, NEW t \in Thread, GuardStep(t)
  PROVE  \A u \in Thread : BlocksOK(u)'
<1> USE DEF Goto, nodes, global, own, scanning, call
<1>0. TypeOK /\ BlocksOK(t) /\ Step(t)
  BY DEF HInv, Step
<1>1. ASSUME NEW g \in GuardId, Reset(t, g) PROVE \A u \in Thread : BlocksOK(u)'
  BY <1>0, <1>1, BlocksStay DEF Reset, ResetOnly, BlocksOK, TypeOK
<1>2. ASSUME NEW f \in GuardId, NEW g \in GuardId, Move(t, f, g) \/ Swap(t, f, g)
      PROVE  \A u \in Thread : BlocksOK(u)'
  BY <1>0, <1>2, BlocksStay DEF Move, Swap, ResetOnly, BlocksOK, TypeOK
<1>3. ASSUME NEW g \in GuardId, NEW o, NEW c, NEW n, Call(t, o, g, c, n), Guarding(t, g)
      PROVE  \A u \in Thread : BlocksOK(u)'
  <2>1. hpOf[t][g] # 0 => block[t] # Null
    BY SlotFacts DEF Ready
  <2>2. CASE EnsureHp(t, g) /\ todo' = todo /\ pc' = [pc EXCEPT ![t] = "publish"] /\ block[t] # Null
    BY <1>0, <1>3, <2>2, BlocksStay DEF Guarding, BlocksOK, TypeOK
  <2>3. CASE block[t] = Null /\ todo' = [todo EXCEPT ![t] = blocks] /\ pc' = [pc EXCEPT ![t] = "entry"]
    <3>1. todo'[t] = blocks /\ pc'[t] = "entry"
      BY <1>0, <2>3 DEF TypeOK
    <3>2. \A k \in 1..Len(todo'[t]) : InBlocks(todo'[t][k])
      BY <3>1 DEF InBlocks
    <3> QED
      BY <1>0, <1>3, <2>3, <3>1, <3>2, BlocksStay DEF Guarding
  <2> QED
    BY <1>3, <2>1, <2>2, <2>3 DEF Guarding, EnsureHp
<1>4. ASSUME NEW g \in GuardId, NEW c \in Cell, Unlink(t, g, c) PROVE \A u \in Thread : BlocksOK(u)'
  <2>1. hpOf[t][g] # 0
    BY <1>4 DEF HInv, GuardOK, Unlink
  <2>2. block[t] # Null
    BY <2>1, SlotFacts DEF Ready
  <2> QED
    BY <1>0, <1>4, <2>2, BlocksStay DEF Unlink, BlocksOK, TypeOK
<1>5. ASSUME NEW c \in Cell, NEW n \in Node, Insert(t, c, n) PROVE \A u \in Thread : BlocksOK(u)'
  BY <1>0, <1>5, BlocksStay DEF Insert, BlocksOK, TypeOK
<1> QED
  BY <1>1, <1>2, <1>3, <1>4, <1>5 DEF GuardStep, Copy, Acquire, AcquireIfEqual

LEMMA BlocksAcquireStep ==
  ASSUME HInv, NEW t \in Thread, AcquireStep(t)
  PROVE  \A u \in Thread : BlocksOK(u)'
<1> USE DEF Goto, nodes, global, own, scanning, call
<1>0. TypeOK /\ BlocksOK(t) /\ Step(t) /\ \A u \in Thread : BlocksOK(u)
  BY DEF HInv, Step
<1>1. ASSUME AdoptEntry(t) PROVE \A u \in Thread : BlocksOK(u)'
  <2>1. /\ Head(todo[t]) = todo[t][1] /\ 1 \in 1..Len(todo[t]) /\ Head(todo[t]) \in Block
        /\ InBlocks(Head(todo[t])) /\ block[t] = Null
    BY <1>0, <1>1, HeadTail DEF AdoptEntry, BlocksOK, TypeOK
  <2>2. ASSUME state[Head(todo[t])] = "free", NEW b \in Block, b = Head(todo[t])
        PROVE  \A u \in Thread : BlocksOK(u)'
    <3>1. /\ state' = [state EXCEPT ![b] = "active"] /\ block' = [block EXCEPT ![t] = b]
          /\ todo' = [todo EXCEPT ![t] = << >>] /\ pc' = [pc EXCEPT ![t] = "initialize"]
          /\ blocks' = blocks
      BY <1>1, <2>2 DEF AdoptEntry
    <3>2. \A u \in Thread : block[u] # b
      <4> SUFFICES ASSUME NEW u \in Thread, block[u] = b PROVE FALSE
        OBVIOUS
      <4> QED
        BY <1>0, <2>2, HPNullAssumption DEF BlocksOK
    <3>3. \A x \in Block : state[x] = "active" => state'[x] = "active"
      BY <1>0, <3>1 DEF TypeOK
    <3>4. BlocksOK(t)'
      BY <1>0, <2>1, <2>2, <3>1, <3>2 DEF BlocksOK, TypeOK, InBlocks
    <3>5. ASSUME NEW u \in Thread \ {t} PROVE BlocksOK(u)'
      <4>1. block'[u] = block[u] /\ todo'[u] = todo[u] /\ pc'[u] = pc[u] /\ block'[t] # block[u]
        BY <1>0, <3>1, <3>2 DEF TypeOK
      <4>2. BlocksOK(u)
        BY <1>0
      <4> QED
        BY <1>0, <3>1, <3>3, <4>1, <4>2 DEF BlocksOK, TypeOK, InBlocks
    <3> QED
      BY <3>4, <3>5
  <2>3. CASE state[Head(todo[t])] # "free"
    <3>1. \A k \in 1..Len(Tail(todo[t])) : InBlocks(Tail(todo[t])[k])
      <4> SUFFICES ASSUME NEW k \in 1..Len(Tail(todo[t])) PROVE InBlocks(Tail(todo[t])[k])
        OBVIOUS
      <4>1. Tail(todo[t])[k] = todo[t][k + 1] /\ k + 1 \in 1..Len(todo[t])
        BY <1>0, <1>1, HeadTail DEF AdoptEntry, TypeOK
      <4> QED
        BY <1>0, <4>1 DEF BlocksOK
    <3>2. todo'[t] = Tail(todo[t]) /\ pc'[t] = "entry" /\ UNCHANGED <<block, blocks, state>>
      BY <1>0, <1>1, <2>3 DEF AdoptEntry, TypeOK
    <3> QED
      BY <1>0, <2>1, <3>1, <3>2, BlocksStay
  <2> QED
    BY <2>1, <2>2, <2>3
<1>2. ASSUME NEW b \in Block, AddEntry(t, b) PROVE \A u \in Thread : BlocksOK(u)'
  <2>1. /\ state' = [state EXCEPT ![b] = "active"] /\ block' = [block EXCEPT ![t] = b]
        /\ todo' = todo /\ pc' = [pc EXCEPT ![t] = "initialize"]
        /\ blocks' = <<b>> \o blocks /\ state[b] = "none" /\ todo[t] = << >>
    BY <1>2 DEF AddEntry
  <2>2. \A u \in Thread : block[u] # b
    <3> SUFFICES ASSUME NEW u \in Thread, block[u] = b PROVE FALSE
      OBVIOUS
    <3> QED
      BY <1>0, <2>1, HPNullAssumption DEF BlocksOK
  <2>3. \A x : InBlocks(x) => InBlocks(x)'
    <3> SUFFICES ASSUME NEW x, NEW k \in 1..Len(blocks), blocks[k] = x PROVE InBlocks(x)'
      BY DEF InBlocks
    <3>1. k + 1 \in 1..Len(blocks') /\ blocks'[k + 1] = x
      BY <1>0, <2>1, ConsFacts DEF TypeOK
    <3> QED
      BY <3>1 DEF InBlocks
  <2>4. InBlocks(b)'
    <3>1. 1 \in 1..Len(blocks') /\ blocks'[1] = b
      BY <1>0, <2>1, ConsFacts DEF TypeOK
    <3> QED
      BY <3>1 DEF InBlocks
  <2>5. \A x \in Block : state[x] = "active" => state'[x] = "active"
    BY <1>0, <2>1 DEF TypeOK
  <2>6. BlocksOK(t)'
    <3>1. block'[t] = b /\ pc'[t] = "initialize" /\ todo'[t] = << >> /\ state'[b] = "active"
      BY <1>0, <2>1 DEF TypeOK
    <3>2. \A u \in Thread : block'[u] = b => u = t
      BY <1>0, <2>1, <2>2 DEF TypeOK
    <3>3. (\A k \in 1..Len(todo[t]) : InBlocks(todo[t][k]))'
      BY <3>1
    <3>4. b # Null
      BY HPNullAssumption
    <3> QED
      BY <2>4, <3>1, <3>2, <3>3, <3>4 DEF BlocksOK
  <2>7. ASSUME NEW u \in Thread \ {t} PROVE BlocksOK(u)'
    <3>1. block'[u] = block[u] /\ todo'[u] = todo[u] /\ pc'[u] = pc[u] /\ block'[t] # block[u]
      BY <1>0, <2>1, <2>2 DEF TypeOK
    <3>2. BlocksOK(u)
      BY <1>0
    <3> QED
      BY <1>0, <2>1, <2>3, <2>5, <3>1, <3>2 DEF BlocksOK, TypeOK
  <2> QED
    BY <2>6, <2>7
<1>3. ASSUME Initialize(t) \/ Publish(t) \/ Validate(t) PROVE \A u \in Thread : BlocksOK(u)'
  <2>1. UNCHANGED <<block, blocks, state, todo>> /\ block[t] # Null
    BY <1>0, <1>3 DEF Initialize, Publish, Validate, ResetOnly, BlocksOK
  <2>2. pc'[t] \in {"publish", "idle", "validate"}
    BY <1>0, <1>3 DEF Initialize, Publish, Validate, TypeOK
  <2> QED
    BY <1>0, <2>1, <2>2, BlocksStay DEF BlocksOK
<1> QED
  BY <1>1, <1>2, <1>3 DEF AcquireStep

LEMMA BlocksReclaimStep ==
  ASSUME HInv, NEW t \in Thread, ReclaimStep(t) \/ ExitStep(t)
  PROVE  \A u \in Thread : BlocksOK(u)'
<1> USE DEF Goto, nodes, global, own, scanning, call
<1>0. TypeOK /\ BlocksOK(t) /\ Step(t) /\ \A u \in Thread : BlocksOK(u)
  BY DEF HInv, Step
<1>1. ASSUME ReclaimReset(t) \/ Retire(t) \/ ScanAdopt(t) \/ ScanTake(t) PROVE \A u \in Thread : BlocksOK(u)'
  <2>1. UNCHANGED <<block, blocks, state, todo>> /\ block[t] # Null
    BY <1>0, <1>1 DEF ReclaimReset, ResetOnly, Retire, ScanAdopt, ScanTake, BlocksOK
  <2>2. pc'[t] \in {"retire", "scan", "idle", "begin", "delete"}
    BY <1>0, <1>1 DEF ReclaimReset, Retire, ScanAdopt, ScanTake, TypeOK
  <2> QED
    BY <1>0, <2>1, <2>2, BlocksStay DEF BlocksOK
<1>2. ASSUME ScanReturn(t) \/ (\E n \in Node : ScanDelete(t, n)) \/ Exit(t) \/ Abandon(t) \/ SubtractHps(t)
      PROVE  \A u \in Thread : BlocksOK(u)'
  <2>1. UNCHANGED <<block, blocks, state, todo>> /\ block[t] # Null
    BY <1>0, <1>2 DEF ScanReturn, ScanDelete, Exit, Abandon, SubtractHps, BlocksOK
  <2>2. pc'[t] \in {"idle", "abandon", "delete", "scan", "subtract", "release"}
    BY <1>0, <1>2 DEF ScanReturn, ScanDelete, Exit, Abandon, SubtractHps, TypeOK
  <2> QED
    BY <1>0, <2>1, <2>2, BlocksStay DEF BlocksOK
<1>3. ASSUME ScanBegin(t) PROVE \A u \in Thread : BlocksOK(u)'
  <2>1. todo'[t] = blocks /\ pc'[t] = "block" /\ block[t] # Null
    BY <1>0, <1>3 DEF ScanBegin, BlocksOK, TypeOK
  <2>2. InBlocks(block[t]) /\ blocks \in Seq(Block)
    BY <1>0, <2>1 DEF BlocksOK, TypeOK
  <2>3. blocks # << >>
    BY <2>2, EmptySeq DEF InBlocks
  <2>4. \A k \in 1..Len(todo'[t]) : InBlocks(todo'[t][k])
    BY <2>1 DEF InBlocks
  <2> QED
    BY <1>0, <1>3, <2>1, <2>3, <2>4, BlocksStay DEF ScanBegin
<1>4. ASSUME ScanEntry(t) \/ ScanSlot(t) PROVE \A u \in Thread : BlocksOK(u)'
  <2>1. pc[t] \in {"block", "slot"} /\ todo[t] # << >> /\ block[t] # Null
    BY <1>0, <1>4 DEF ScanEntry, ScanSlot, ScanSlotUpTo, BlocksOK
  <2>2. CASE todo' = todo /\ pc' = [pc EXCEPT ![t] = "slot"]
    <3>1. UNCHANGED <<block, blocks, state>> /\ pc'[t] = "slot"
      BY <1>0, <1>4, <2>2 DEF ScanEntry, ScanSlot, ScanSlotUpTo, TypeOK
    <3> QED
      BY <1>0, <2>1, <2>2, <3>1, BlocksStay DEF BlocksOK
  <2>3. CASE NextEntry(t, pc[t])
    <3>1. /\ todo'[t] = Tail(todo[t])
          /\ pc'[t] = IF Tail(todo[t]) = << >> THEN "take" ELSE "block"
      BY <1>0, <2>3 DEF NextEntry, TypeOK
    <3>2. \A k \in 1..Len(Tail(todo[t])) : InBlocks(Tail(todo[t])[k])
      <4> SUFFICES ASSUME NEW k \in 1..Len(Tail(todo[t])) PROVE InBlocks(Tail(todo[t])[k])
        OBVIOUS
      <4>1. Tail(todo[t])[k] = todo[t][k + 1] /\ k + 1 \in 1..Len(todo[t])
        BY <1>0, <2>1, HeadTail DEF TypeOK
      <4> QED
        BY <1>0, <4>1 DEF BlocksOK
    <3> QED
      BY <1>0, <1>4, <2>1, <3>1, <3>2, BlocksStay
         DEF ScanEntry, ScanSlot, ScanSlotUpTo
  <2> QED
    BY <1>4, <2>2, <2>3 DEF ScanEntry, ScanSlot, ScanSlotUpTo
<1>5. ASSUME ReleaseEntry(t) PROVE \A u \in Thread : BlocksOK(u)'
  <2>1. /\ block[t] \in Block /\ state' = [state EXCEPT ![block[t]] = "free"]
        /\ block' = [block EXCEPT ![t] = Null] /\ pc' = [pc EXCEPT ![t] = "idle"]
        /\ UNCHANGED <<blocks, todo>>
    BY <1>0, <1>5 DEF ReleaseEntry, BlocksOK, TypeOK
  <2>2. BlocksOK(t)'
    BY <1>0, <2>1 DEF BlocksOK, TypeOK, InBlocks
  <2>3. ASSUME NEW u \in Thread \ {t} PROVE BlocksOK(u)'
    <3>1. block'[u] = block[u] /\ todo'[u] = todo[u] /\ pc'[u] = pc[u] /\ block'[t] = Null
      BY <1>0, <2>1 DEF TypeOK
    <3>2. BlocksOK(u) /\ block[u] # block[t]
      BY <1>0, <2>1, HPNullAssumption DEF BlocksOK
    <3>3. \A v \in Thread : block'[v] = block[v] \/ block'[v] = Null
      BY <1>0, <2>1 DEF TypeOK
    <3> QED
      BY <1>0, <2>1, <3>1, <3>2, <3>3 DEF BlocksOK, TypeOK, InBlocks
  <2> QED
    BY <2>2, <2>3
<1> QED
  BY <1>1, <1>2, <1>3, <1>4, <1>5 DEF ReclaimStep, ExitStep

LEMMA BlocksNext ==
  ASSUME HInv, NEW t \in Thread, Step(t)
  PROVE  \A u \in Thread : BlocksOK(u)'
BY BlocksGuardStep, BlocksAcquireStep, BlocksReclaimStep DEF Step

-----------------------------------------------------------------------------
(* The hazard pointers of a thread                                         *)

LEMMA ConsOnce ==
  ASSUME NEW S, NEW s \in Seq(S), NEW e \in S,
         \A j, k \in 1..Len(s) : s[j] = s[k] => j = k,
         \A k \in 1..Len(s) : s[k] # e
  PROVE  /\ \A j, k \in 1..Len(<<e>> \o s) : (<<e>> \o s)[j] = (<<e>> \o s)[k] => j = k
         /\ \A x : (\E k \in 1..Len(<<e>> \o s) : (<<e>> \o s)[k] = x)
                     <=> (x = e \/ \E k \in 1..Len(s) : s[k] = x)
<1> DEFINE r == <<e>> \o s
<1>1. /\ Len(s) \in Nat /\ Len(r) = Len(s) + 1 /\ r[1] = e
      /\ \A k \in 1..Len(s) : r[k + 1] = s[k]
      /\ \A k \in 2..(Len(s) + 1) : r[k] = s[k - 1]
  BY ConsFacts
<1> HIDE DEF r
<1>2. \A k \in 1..Len(r) : k = 1 \/ (k \in 2..(Len(s) + 1) /\ k - 1 \in 1..Len(s) /\ r[k] = s[k - 1])
  BY <1>1
<1>3. \A j, k \in 1..Len(r) : r[j] = r[k] => j = k
  <2> SUFFICES ASSUME NEW j \in 1..Len(r), NEW k \in 1..Len(r), r[j] = r[k] PROVE j = k
    OBVIOUS
  <2>1. CASE j = 1 \/ k = 1
    BY <1>1, <1>2, <2>1
  <2>2. CASE j # 1 /\ k # 1
    <3>1. j - 1 = k - 1
      BY <1>2, <2>2
    <3> QED
      BY <1>1, <3>1
  <2> QED
    BY <2>1, <2>2
<1>4. ASSUME NEW x PROVE (\E k \in 1..Len(r) : r[k] = x) <=> (x = e \/ \E k \in 1..Len(s) : s[k] = x)
  <2>1. ASSUME NEW k \in 1..Len(r), r[k] = x PROVE x = e \/ \E m \in 1..Len(s) : s[m] = x
    BY <1>1, <1>2, <2>1
  <2>2. ASSUME NEW k \in 1..Len(s), s[k] = x PROVE \E m \in 1..Len(r) : r[m] = x
    <3>1. k + 1 \in 1..Len(r) /\ r[k + 1] = x
      BY <1>1, <2>2
    <3> QED
      BY <3>1
  <2>3. 1 \in 1..Len(r)
    BY <1>1
  <2> QED
    BY <1>1, <2>1, <2>2, <2>3
<1> QED
  BY <1>3, <1>4 DEF r

LEMMA TailOnce ==
  ASSUME NEW S, NEW s \in Seq(S), s # << >>,
         \A j, k \in 1..Len(s) : s[j] = s[k] => j = k
  PROVE  /\ \A j, k \in 1..Len(Tail(s)) : Tail(s)[j] = Tail(s)[k] => j = k
         /\ \A x : (\E k \in 1..Len(Tail(s)) : Tail(s)[k] = x)
                     <=> (x # Head(s) /\ \E k \in 1..Len(s) : s[k] = x)
<1> DEFINE r == Tail(s)
<1>1. /\ Len(s) \in Nat /\ Len(s) >= 1 /\ Head(s) = s[1] /\ Len(r) = Len(s) - 1
      /\ \A k \in 1..(Len(s) - 1) : r[k] = s[k + 1]
  BY HeadTail
<1> HIDE DEF r
<1>2. \A k \in 1..Len(r) : k + 1 \in 1..Len(s) /\ k + 1 # 1 /\ r[k] = s[k + 1]
  BY <1>1
<1>3. \A j, k \in 1..Len(r) : r[j] = r[k] => j = k
  <2> SUFFICES ASSUME NEW j \in 1..Len(r), NEW k \in 1..Len(r), r[j] = r[k] PROVE j = k
    OBVIOUS
  <2>1. j + 1 = k + 1
    BY <1>2
  <2> QED
    BY <1>1, <2>1
<1>4. ASSUME NEW x PROVE (\E k \in 1..Len(r) : r[k] = x) <=> (x # Head(s) /\ \E k \in 1..Len(s) : s[k] = x)
  <2>1. ASSUME NEW k \in 1..Len(r), r[k] = x PROVE x # Head(s) /\ \E m \in 1..Len(s) : s[m] = x
    <3>1. k + 1 \in 1..Len(s) /\ k + 1 # 1 /\ s[k + 1] = x /\ 1 \in 1..Len(s)
      BY <1>1, <1>2, <2>1
    <3> QED
      BY <1>1, <3>1
  <2>2. ASSUME x # Head(s), NEW k \in 1..Len(s), s[k] = x PROVE \E m \in 1..Len(r) : r[m] = x
    <3>1. k # 1
      BY <1>1, <2>2
    <3>2. k - 1 \in 1..(Len(s) - 1) /\ (k - 1) + 1 = k
      BY <1>1, <3>1
    <3>3. r[k - 1] = s[k]
      BY <1>1, <3>2
    <3> QED
      BY <1>1, <2>2, <3>2, <3>3
  <2> QED
    BY <2>1, <2>2
<1> QED
  BY <1>3, <1>4 DEF r

\* Threads write to the hazard pointers of their own blocks.
LEMMA HpElsewhere ==
  ASSUME HInv, NEW t \in Thread, Step(t), NEW b \in Block, b # block[t]
  PROVE  hp'[b] = hp[b]
<1> USE DEF Goto, nodes, global, own, scanning, call
<1>0. TypeOK /\ CallOK(t)
  BY DEF HInv
<1>1. ASSUME NEW g \in GuardId, ReleaseHp(t, hpOf[t][g]) PROVE hp'[b] = hp[b]
  <2>1. CASE hpOf[t][g] = 0
    BY <1>1, <2>1 DEF ReleaseHp
  <2>2. CASE hpOf[t][g] # 0
    BY <1>0, <1>1, <2>2 DEF ReleaseHp, TypeOK
  <2> QED
    BY <2>1, <2>2
<1>2. ASSUME GuardStep(t) PROVE hp'[b] = hp[b]
  <2>1. ASSUME NEW g \in GuardId, Reset(t, g) PROVE hp'[b] = hp[b]
    BY <1>1, <2>1 DEF Reset, ResetGuard
  <2>2. ASSUME NEW f \in GuardId, NEW g \in GuardId, Move(t, f, g) PROVE hp'[b] = hp[b]
    BY <1>1, <2>2 DEF Move
  <2>3. ASSUME NEW f \in GuardId, NEW g \in GuardId, Copy(t, f, g) \/ Swap(t, f, g) PROVE hp'[b] = hp[b]
    BY <2>3 DEF Copy, Guarding, Swap
  <2>4. ASSUME NEW g \in GuardId, NEW c \in Cell, Acquire(t, g, c) \/ AcquireIfEqual(t, g, c) \/ Unlink(t, g, c)
        PROVE  hp'[b] = hp[b]
    BY <2>4 DEF Acquire, AcquireIfEqual, Guarding, Unlink
  <2>5. ASSUME NEW c \in Cell, NEW n \in Node, Insert(t, c, n) PROVE hp'[b] = hp[b]
    BY <2>5 DEF Insert
  <2> QED
    BY <1>2, <2>1, <2>2, <2>3, <2>4, <2>5 DEF GuardStep
<1>3. ASSUME AcquireStep(t) PROVE hp'[b] = hp[b]
  <2>1. ASSUME Publish(t) PROVE hp'[b] = hp[b]
    BY <1>0, <2>1 DEF Publish, SetObject, TypeOK
  <2>2. ASSUME Validate(t) PROVE hp'[b] = hp[b]
    BY <1>0, <1>1, <2>2 DEF Validate, ResetGuard, CallOK
  <2>3. ASSUME Initialize(t) PROVE hp'[b] = hp[b]
    BY <1>0, <2>3 DEF Initialize, TypeOK
  <2>4. ASSUME AdoptEntry(t) \/ \E c \in Block : AddEntry(t, c) PROVE hp'[b] = hp[b]
    BY <2>4 DEF AdoptEntry, AddEntry
  <2> QED
    BY <1>3, <2>1, <2>2, <2>3, <2>4 DEF AcquireStep
<1>4. ASSUME ReclaimStep(t) \/ ExitStep(t) PROVE hp'[b] = hp[b]
  <2>1. ASSUME ReclaimReset(t) PROVE hp'[b] = hp[b]
    BY <1>0, <1>1, <2>1 DEF ReclaimReset, ResetGuard, CallOK
  <2>2. ASSUME ~ReclaimReset(t) PROVE hp' = hp
    BY <1>4, <2>2 DEF ReclaimStep, ExitStep, Retire, ScanAdopt, ScanBegin, ScanEntry, ScanSlot,
       ScanSlotUpTo, ScanTake, ScanReturn, ScanDelete, Exit, Abandon, SubtractHps, ReleaseEntry
  <2> QED
    BY <2>1, <2>2
<1> QED
  BY <1>2, <1>3, <1>4 DEF Step

\* What other threads do to a thread's hazard pointers: nothing.
LEMMA HpUntouched ==
  ASSUME HInv, NEW t \in Thread, Step(t), NEW u \in Thread \ {t}
  PROVE  /\ Same(u) /\ (Ready(u)' <=> Ready(u))
         /\ block[u] # Null => block[u] \in Block /\ hp'[block[u]] = hp[block[u]]
<1>1. Same(u)
  BY OthersSame
<1>2. ASSUME block[u] # Null PROVE block[u] \in Block /\ hp'[block[u]] = hp[block[u]]
  <2>1. TypeOK /\ BlocksOK(u)
    BY DEF HInv
  <2>2. block[u] # block[t] /\ block[u] \in Block
    BY <1>2, <2>1 DEF BlocksOK, TypeOK
  <2> QED
    BY <2>2, HpElsewhere
<1> QED
  BY <1>1, <1>2 DEF Same, SameGuards, Ready

\* A guard gives up its hazard pointer, if it has one.
LEMMA HpsRelease ==
  ASSUME HInv, NEW t \in Thread, NEW g \in GuardId, ReleaseHp(t, hpOf[t][g]),
         \A d, e \in GuardId : hpOf'[t][d] = hpOf'[t][e] /\ hpOf'[t][d] # 0 => d = e,
         \A i \in 1..K : Held(t, i)' <=> Held(t, i) /\ i # hpOf[t][g],
         Ready(t) => Ready(t)', ~Ready(t) => ~Ready(t)' /\ \A d \in GuardId : hpOf'[t][d] = 0,
         block' = block
  PROVE  HpsOK(t)'
<1>1. TypeOK /\ HpsOK(t)
  BY DEF HInv
<1>2. CASE hpOf[t][g] = 0
  <2>1. UNCHANGED <<hp, hint>>
    BY <1>2 DEF ReleaseHp
  <2>2. \A i \in 1..K : Held(t, i)' <=> Held(t, i)
    BY <1>2, KAssumption
  <2> QED
    BY <1>1, <2>1, <2>2 DEF HpsOK, InHint
<1>3. ASSUME NEW i \in 1..K, hpOf[t][g] = i PROVE HpsOK(t)'
  <2>1. i # 0 /\ block[t] \in Block /\ Ready(t)
    BY <1>3, SlotFacts, KAssumption
  <2>2. /\ hp'[block[t]][i] = Link
        /\ \A j \in 1..K \ {i} : hp'[block[t]][j] = hp[block[t]][j]
        /\ hint'[t] = <<i>> \o hint[t] /\ hint[t] \in Seq(1..K)
    <3>1. ReleaseHp(t, i)
      BY <1>3
    <3> QED
      BY <1>1, <2>1, <3>1, ReleaseHpEffect DEF TypeOK
  <2>3. /\ \A j, k \in 1..Len(hint[t]) : hint[t][j] = hint[t][k] => j = k
        /\ \A k \in 1..Len(hint[t]) : hint[t][k] # i
    BY <1>1, <1>3, <2>1 DEF HpsOK, InHint, Held
  <2>4. /\ \A j, k \in 1..Len(hint'[t]) : hint'[t][j] = hint'[t][k] => j = k
        /\ \A x : InHint(t, x)' <=> (x = i \/ InHint(t, x))
    <3>1. /\ \A j, k \in 1..Len(hint'[t]) : hint'[t][j] = hint'[t][k] => j = k
          /\ \A x : (\E k \in 1..Len(hint'[t]) : hint'[t][k] = x)
                      <=> (x = i \/ \E k \in 1..Len(hint[t]) : hint[t][k] = x)
      BY <2>2, <2>3, ConsOnce
    <3> QED
      BY <3>1 DEF InHint
  <2>5. \A j \in 1..K : InHint(t, j)' <=> ~Held(t, j)'
    BY <1>1, <1>3, <2>1, <2>4 DEF HpsOK
  <2>6. \A j \in 1..K : InHint(t, j)' => hp'[block[t]][j] = Link
    BY <1>1, <2>1, <2>2, <2>4 DEF HpsOK
  <2> QED
    BY <2>1, <2>4, <2>5, <2>6 DEF HpsOK
<1> QED
  BY <1>1, <1>2, <1>3, SlotFacts

LEMMA HpsSame ==
  ASSUME HInv, NEW t \in Thread, UNCHANGED <<hp, hint, hpOf, block>>, Ready(t)' <=> Ready(t)
  PROVE  HpsOK(t)'
<1>1. HpsOK(t)
  BY DEF HInv
<1> QED
  BY <1>1 DEF HpsOK, InHint, Held

LEMMA HpsReset ==
  ASSUME HInv, NEW t \in Thread, NEW g \in GuardId, ResetGuard(t, g), block' = block,
         Ready(t)' <=> Ready(t)
  PROVE  HpsOK(t)'
<1>1. TypeOK /\ HpsOK(t) /\ K \in Nat \ {0}
  BY KAssumption DEF HInv
<1>2. hpOf' = [hpOf EXCEPT ![t][g] = 0] /\ ReleaseHp(t, hpOf[t][g])
  BY DEF ResetGuard
<1>3. \A d \in GuardId : hpOf'[t][d] = IF d = g THEN 0 ELSE hpOf[t][d]
  BY <1>1, <1>2 DEF TypeOK
<1>4. \A i \in 1..K : Held(t, i)' <=> Held(t, i) /\ i # hpOf[t][g]
  BY <1>1, <1>3 DEF Held, HpsOK
<1>5. \A d, e \in GuardId : hpOf'[t][d] = hpOf'[t][e] /\ hpOf'[t][d] # 0 => d = e
  BY <1>1, <1>3 DEF HpsOK
<1>6. ~Ready(t) => \A d \in GuardId : hpOf'[t][d] = 0
  BY <1>1, <1>3 DEF HpsOK
<1> QED
  BY <1>2, <1>4, <1>5, <1>6, HpsRelease

\* The list of unused hazard pointers loses its head to a guard without one.
LEMMA HpsEnsure ==
  ASSUME HInv, NEW t \in Thread, NEW g \in GuardId, EnsureHp(t, g), UNCHANGED <<hp, block>>
  PROVE  HpsOK(t)'
<1> USE DEF Goto
<1>1. TypeOK /\ HpsOK(t) /\ K \in Nat \ {0}
  BY KAssumption DEF HInv
<1>2. Ready(t)' <=> Ready(t)
  BY <1>1 DEF EnsureHp, Ready, TypeOK
<1>3. CASE UNCHANGED <<hpOf, hint>>
  BY <1>2, <1>3, HpsSame
<1>4. ASSUME hpOf[t][g] = 0, block[t] # Null, hint[t] # << >>,
             NEW i, i = Head(hint[t]), hpOf' = [hpOf EXCEPT ![t][g] = i],
             hint' = [hint EXCEPT ![t] = Tail(hint[t])], pc[t] = "idle"
      PROVE  HpsOK(t)'
  <2>1. Ready(t)
    BY <1>4 DEF Ready
  <2>2. hint[t] \in Seq(1..K) /\ hint'[t] = Tail(hint[t]) /\ i \in 1..K /\ InHint(t, i)
    BY <1>1, <1>4, HeadTail DEF TypeOK, InHint
  <2>3. /\ \A j, k \in 1..Len(hint[t]) : hint[t][j] = hint[t][k] => j = k
        /\ ~Held(t, i)
    BY <1>1, <2>1, <2>2 DEF HpsOK
  <2>4. /\ \A j, k \in 1..Len(hint'[t]) : hint'[t][j] = hint'[t][k] => j = k
        /\ \A x : InHint(t, x)' <=> (x # i /\ InHint(t, x))
    <3>1. /\ \A j, k \in 1..Len(hint'[t]) : hint'[t][j] = hint'[t][k] => j = k
          /\ \A x : (\E k \in 1..Len(hint'[t]) : hint'[t][k] = x)
                      <=> (x # i /\ \E k \in 1..Len(hint[t]) : hint[t][k] = x)
      <4>1. hint[t] # << >> /\ i = Head(hint[t])
        BY <1>4
      <4>2. \A x : (\E k \in 1..Len(Tail(hint[t])) : Tail(hint[t])[k] = x)
                      <=> (x # Head(hint[t]) /\ \E k \in 1..Len(hint[t]) : hint[t][k] = x)
        BY <2>2, <2>3, <4>1, TailOnce
      <4>3. \A j, k \in 1..Len(Tail(hint[t])) : Tail(hint[t])[j] = Tail(hint[t])[k] => j = k
        BY <2>2, <2>3, <4>1, TailOnce
      <4> QED
        BY <2>2, <4>1, <4>2, <4>3
    <3> QED
      BY <3>1 DEF InHint
  <2>5. \A d \in GuardId : hpOf'[t][d] = IF d = g THEN i ELSE hpOf[t][d]
    BY <1>1, <1>4 DEF TypeOK
  <2>6. \A x \in 1..K : Held(t, x)' <=> (x = i \/ Held(t, x))
    BY <1>1, <1>4, <2>5 DEF Held
  <2>7. \A d, e \in GuardId : hpOf'[t][d] = hpOf'[t][e] /\ hpOf'[t][d] # 0 => d = e
    BY <1>1, <2>3, <2>5 DEF HpsOK, Held
  <2>8. \A x \in 1..K : InHint(t, x)' <=> ~Held(t, x)'
    BY <1>1, <2>1, <2>3, <2>4, <2>6 DEF HpsOK
  <2>9. \A x \in 1..K : InHint(t, x)' => hp'[block[t]][x] = Link
    BY <1>1, <2>1, <2>4 DEF HpsOK
  <2> QED
    BY <1>2, <2>1, <2>4, <2>7, <2>8, <2>9 DEF HpsOK
<1> QED
  BY <1>3, <1>4 DEF EnsureHp

LEMMA HpsInitialize ==
  ASSUME HInv, NEW t \in Thread, Initialize(t)
  PROVE  HpsOK(t)'
<1>1. TypeOK /\ HpsOK(t) /\ BlocksOK(t) /\ CallOK(t) /\ K \in Nat \ {0}
  BY KAssumption DEF HInv
<1> DEFINE h == [i \in 1..(K - 1) |-> i + 1]
<1>2. /\ pc[t] = "initialize" /\ pc'[t] = "publish" /\ block' = block
      /\ hp' = [hp EXCEPT ![block[t]] = [i \in 1..K |-> Link]]
      /\ hint'[t] = h
      /\ hpOf' = [hpOf EXCEPT ![t][gd[t]] = 1]
  BY <1>1 DEF Initialize, Goto, TypeOK
<1>3. block[t] \in Block /\ gd[t] \in GuardId /\ block[t] # Null
  BY <1>1, <1>2 DEF BlocksOK, CallOK, TypeOK
<1>4. \A d \in GuardId : hpOf[t][d] = 0
  BY <1>1, <1>2 DEF HpsOK, Ready
<1>5. \A d \in GuardId : hpOf'[t][d] = IF d = gd[t] THEN 1 ELSE 0
  BY <1>1, <1>2, <1>3, <1>4 DEF TypeOK
<1>6. Len(h) = K - 1 /\ \A k \in 1..(K - 1) : h[k] = k + 1
  <2>1. K - 1 \in Nat /\ h \in [1..(K - 1) -> 1..K]
    BY <1>1
  <2>2. h \in Seq(1..K)
    BY <2>1, SeqDef
  <2>3. DOMAIN h = 1..Len(h) /\ Len(h) \in Nat
    BY <2>2, LenProperties
  <2>4. 1..(K - 1) = 1..Len(h)
    BY <2>3
  <2>5. \A m, k \in Nat : 1..m = 1..k => m = k
    OBVIOUS
  <2> QED
    BY <2>1, <2>3, <2>4, <2>5
<1> HIDE DEF h
<1>7. \A j, k \in 1..Len(hint'[t]) : hint'[t][j] = hint'[t][k] => j = k
  <2> SUFFICES ASSUME NEW j \in 1..(K - 1), NEW k \in 1..(K - 1), j + 1 = k + 1 PROVE j = k
    BY <1>2, <1>6
  <2> QED
    BY <1>1
<1>8. \A x \in 1..K : InHint(t, x)' <=> x # 1
  <2> SUFFICES ASSUME NEW x \in 1..K PROVE (\E k \in 1..(K - 1) : k + 1 = x) <=> x # 1
    BY <1>2, <1>6 DEF InHint
  <2>1. x # 1 => x - 1 \in 1..(K - 1) /\ (x - 1) + 1 = x
    BY <1>1
  <2> QED
    BY <1>1, <2>1
<1>9. \A x \in 1..K : Held(t, x)' <=> x = 1
  BY <1>1, <1>3, <1>5 DEF Held
<1>10. \A x \in 1..K : hp'[block[t]][x] = Link
  BY <1>1, <1>2, <1>3 DEF TypeOK
<1>11. Ready(t)'
  BY <1>2, <1>3 DEF Ready
<1> QED
  BY <1>2, <1>5, <1>7, <1>8, <1>9, <1>10, <1>11 DEF HpsOK

LEMMA HpsNext ==
  ASSUME HInv, NEW t \in Thread, Step(t)
  PROVE  \A u \in Thread : HpsOK(u)'
<1> USE DEF Goto, nodes, global, own, scanning, call
<1>0. /\ TypeOK /\ BlocksOK(t) /\ HpsOK(t) /\ CallOK(t) /\ K \in Nat \ {0}
      /\ \A u \in Thread : HpsOK(u)
  BY KAssumption DEF HInv
<1>1. ASSUME GuardStep(t) PROVE HpsOK(t)'
  <2>1. ASSUME NEW g \in GuardId, Reset(t, g) PROVE HpsOK(t)'
    <3>1. block' = block /\ (Ready(t)' <=> Ready(t))
      BY <1>0, <2>1 DEF Reset, ResetOnly, Ready, TypeOK
    <3> QED
      BY <2>1, <3>1, HpsReset DEF Reset
  <2>2. ASSUME NEW f \in GuardId, NEW g \in GuardId, Move(t, f, g) PROVE HpsOK(t)'
    <3>1. block' = block /\ (Ready(t)' <=> Ready(t)) /\ Ready(t) /\ f # g /\ hpOf[t][f] # 0
          /\ ReleaseHp(t, hpOf[t][g])
      BY <1>0, <2>2, SlotFacts DEF Move, ResetOnly, Ready, TypeOK
    <3>2. \A d \in GuardId : hpOf'[t][d] = IF d = f THEN 0 ELSE IF d = g THEN hpOf[t][f] ELSE hpOf[t][d]
      BY <1>0, <2>2 DEF Move, TypeOK
    <3>3. \A i \in 1..K : Held(t, i)' <=> Held(t, i) /\ i # hpOf[t][g]
      BY <1>0, <3>1, <3>2 DEF Held, HpsOK
    <3>4. \A d, e \in GuardId : hpOf'[t][d] = hpOf'[t][e] /\ hpOf'[t][d] # 0 => d = e
      BY <1>0, <3>1, <3>2 DEF HpsOK
    <3> QED
      BY <3>1, <3>3, <3>4, HpsRelease
  <2>3. ASSUME NEW f \in GuardId, NEW g \in GuardId, Swap(t, f, g) PROVE HpsOK(t)'
    <3>1. UNCHANGED <<block, hp, hint>> /\ (Ready(t)' <=> Ready(t)) /\ f # g
      BY <1>0, <2>3 DEF Swap, ResetOnly, Ready, TypeOK
    <3>2. \A d \in GuardId : hpOf'[t][d] = IF d = f THEN hpOf[t][g] ELSE IF d = g THEN hpOf[t][f] ELSE hpOf[t][d]
      BY <1>0, <2>3 DEF Swap, TypeOK
    <3>3. \A i \in 1..K : Held(t, i)' <=> Held(t, i)
      BY <3>1, <3>2 DEF Held
    <3>4. \A d, e \in GuardId : hpOf'[t][d] = hpOf'[t][e] /\ hpOf'[t][d] # 0 => d = e
      BY <1>0, <3>1, <3>2 DEF HpsOK
    <3>5. ~Ready(t) => \A d \in GuardId : hpOf'[t][d] = 0
      BY <1>0, <3>2 DEF HpsOK
    <3> QED
      BY <1>0, <3>1, <3>3, <3>4, <3>5 DEF HpsOK, InHint
  <2>4. ASSUME NEW g \in GuardId, Guarding(t, g) PROVE HpsOK(t)'
    BY <2>4, HpsEnsure DEF Guarding
  <2>5. ASSUME NEW g \in GuardId, NEW c \in Cell, Unlink(t, g, c) PROVE HpsOK(t)'
    <3>1. UNCHANGED <<hp, hint, hpOf, block>> /\ (Ready(t)' <=> Ready(t))
      BY <1>0, <2>5 DEF Unlink, Ready, TypeOK
    <3> QED
      BY <3>1, HpsSame
  <2>6. ASSUME NEW c \in Cell, NEW n \in Node, Insert(t, c, n) PROVE HpsOK(t)'
    <3>1. UNCHANGED <<hp, hint, hpOf, block>> /\ (Ready(t)' <=> Ready(t))
      BY <1>0, <2>6 DEF Insert, Ready, TypeOK
    <3> QED
      BY <3>1, HpsSame
  <2> QED
    BY <1>1, <2>1, <2>2, <2>3, <2>4, <2>5, <2>6 DEF GuardStep, Copy, Acquire, AcquireIfEqual
<1>2. ASSUME AcquireStep(t) PROVE HpsOK(t)'
  <2>1. ASSUME AdoptEntry(t) \/ \E b \in Block : AddEntry(t, b) PROVE HpsOK(t)'
    <3>1. ~Ready(t)' /\ ~Ready(t) /\ hpOf' = hpOf
      BY <1>0, <2>1 DEF AdoptEntry, AddEntry, Ready, BlocksOK, TypeOK
    <3> QED
      BY <1>0, <3>1 DEF HpsOK
  <2>2. CASE Initialize(t)
    BY <2>2, HpsInitialize
  <2>3. ASSUME Publish(t), NEW i, i = hpOf[t][gd[t]] PROVE HpsOK(t)'
    <3>1. gd[t] \in GuardId /\ i \in 1..K /\ block[t] \in Block /\ Ready(t)
      BY <1>0, <2>3, SlotFacts DEF Publish, CallOK
    <3>2. p1[t] \in Node \union {Null}
      BY <1>0 DEF TypeOK
    <3>3. \A j \in 1..K \ {i} : hp'[block[t]][j] = hp[block[t]][j]
      <4>1. SetObject(t, i, p1[t])
        BY <2>3 DEF Publish
      <4> QED
        BY <1>0, <3>1, <3>2, <4>1, SetObjectEffect
    <3>4. ~InHint(t, i)
      BY <1>0, <2>3, <3>1 DEF HpsOK, Held
    <3>5. UNCHANGED <<hint, hpOf, block>> /\ Ready(t)'
      BY <1>0, <2>3, <3>1 DEF Publish, Ready, TypeOK
    <3>6. \A j \in 1..K : InHint(t, j) => hp'[block[t]][j] = Link
      BY <1>0, <3>1, <3>3, <3>4 DEF HpsOK
    <3> QED
      BY <1>0, <3>1, <3>5, <3>6 DEF HpsOK, InHint, Held
  <2>4. CASE Validate(t)
    <3>1. gd[t] \in GuardId /\ block' = block /\ (Ready(t)' <=> Ready(t))
      BY <1>0, <2>4 DEF Validate, ResetOnly, CallOK, Ready, TypeOK
    <3>2. CASE ResetGuard(t, gd[t])
      BY <3>1, <3>2, HpsReset
    <3>3. CASE UNCHANGED <<hp, hint, hpOf>>
      BY <3>1, <3>3, HpsSame
    <3> QED
      BY <2>4, <3>2, <3>3 DEF Validate
  <2> QED
    BY <1>2, <2>1, <2>2, <2>3, <2>4 DEF AcquireStep
<1>3. ASSUME ReclaimStep(t) \/ ExitStep(t) PROVE HpsOK(t)'
  <2>1. ASSUME ReclaimReset(t) PROVE HpsOK(t)'
    <3>1. gd[t] \in GuardId /\ block' = block /\ (Ready(t)' <=> Ready(t))
      BY <1>0, <2>1 DEF ReclaimReset, ResetOnly, CallOK, Ready, TypeOK
    <3> QED
      BY <2>1, <3>1, HpsReset DEF ReclaimReset
  <2>2. ASSUME ReleaseEntry(t) PROVE HpsOK(t)'
    <3>1. ~Ready(t)' /\ hpOf' = hpOf /\ ExitOK(t)
      BY <1>0, <2>2 DEF ReleaseEntry, Ready, TypeOK, HInv
    <3>2. \A g \in GuardId : hpOf[t][g] = 0
      BY <2>2, <3>1 DEF ReleaseEntry, ExitOK
    <3> QED
      BY <3>1, <3>2 DEF HpsOK
  <2>3. ASSUME ~ReclaimReset(t), ~ReleaseEntry(t) PROVE HpsOK(t)'
    <3>1. UNCHANGED <<hp, hint, hpOf, block>>
      BY <1>3, <2>3 DEF ReclaimStep, ExitStep, Retire, ScanAdopt, ScanBegin, ScanEntry, ScanSlot,
         ScanSlotUpTo, ScanTake, ScanReturn, ScanDelete, Exit, Abandon, SubtractHps
    <3>2. pc[t] # "initialize" /\ pc'[t] # "initialize"
      BY <1>0, <1>3, <2>3 DEF ReclaimStep, ExitStep, Retire, ScanAdopt, ScanBegin, ScanEntry, ScanSlot,
         ScanSlotUpTo, NextEntry, ScanTake, ScanReturn, ScanDelete, Exit, Abandon, SubtractHps, TypeOK
    <3> QED
      BY <3>1, <3>2, HpsSame DEF Ready
  <2> QED
    BY <2>1, <2>2, <2>3
<1>4. HpsOK(t)'
  BY <1>1, <1>2, <1>3 DEF Step
<1>5. ASSUME NEW u \in Thread \ {t} PROVE HpsOK(u)'
  <2>1. /\ Same(u) /\ (Ready(u)' <=> Ready(u))
        /\ Ready(u) => hp'[block[u]] = hp[block[u]]
    BY HpUntouched DEF Ready
  <2>2. block'[u] = block[u] /\ hint'[u] = hint[u] /\ hpOf'[u] = hpOf[u] /\ HpsOK(u)
    BY <1>0, <2>1 DEF Same, SameGuards
  <2>3. CASE ~Ready(u)
    BY <2>1, <2>2, <2>3 DEF HpsOK
  <2>4. CASE Ready(u)
    <3>1. \A i : (InHint(u, i)' <=> InHint(u, i)) /\ (Held(u, i)' <=> Held(u, i))
      BY <2>2 DEF InHint, Held
    <3> QED
      BY <2>1, <2>2, <2>4, <3>1 DEF HpsOK
  <2> QED
    BY <2>3, <2>4
<1> QED
  BY <1>4, <1>5

-----------------------------------------------------------------------------
(* What is published and what is pinned                                    *)

\* The steps that write to a hazard pointer
LEMMA HpSteps ==
  ASSUME HInv, NEW t \in Thread, Step(t)
  PROVE  \/ UNCHANGED <<hp, pinned>>
         \/ Retire(t)
         \/ Initialize(t)
         \/ Publish(t)
         \/ ResetOnly /\ \E g \in GuardId : hpOf[t][g] # 0 /\ ReleaseHp(t, hpOf[t][g])
<1> USE DEF Goto, global
<1>0. CallOK(t)
  BY DEF HInv
<1>1. ASSUME NEW g \in GuardId, ReleaseHp(t, hpOf[t][g])
      PROVE  UNCHANGED <<hp, pinned>> \/ \E d \in GuardId : hpOf[t][d] # 0 /\ ReleaseHp(t, hpOf[t][d])
  BY <1>1 DEF ReleaseHp
<1>2. CASE GuardStep(t)
  <2>1. ASSUME NEW g \in GuardId, Reset(t, g) PROVE ReleaseHp(t, hpOf[t][g]) /\ ResetOnly
    BY <2>1 DEF Reset, ResetGuard
  <2>2. ASSUME NEW f \in GuardId, NEW g \in GuardId, Move(t, f, g) PROVE ReleaseHp(t, hpOf[t][g]) /\ ResetOnly
    BY <2>2 DEF Move
  <2>3. ASSUME ~\E g \in GuardId : Reset(t, g), ~\E f, g \in GuardId : Move(t, f, g)
        PROVE  UNCHANGED <<hp, pinned>>
    BY <1>2, <2>3 DEF GuardStep, Copy, Swap, Acquire, AcquireIfEqual, Unlink, Insert, Guarding
  <2> QED
    BY <1>1, <2>1, <2>2, <2>3
<1>3. CASE AcquireStep(t)
  <2>1. ASSUME Validate(t) PROVE UNCHANGED <<hp, pinned>> \/ (gd[t] \in GuardId /\ ReleaseHp(t, hpOf[t][gd[t]]) /\ ResetOnly)
    BY <1>0, <2>1 DEF Validate, ResetGuard, CallOK
  <2>2. ASSUME AdoptEntry(t) \/ \E b \in Block : AddEntry(t, b) PROVE UNCHANGED <<hp, pinned>>
    BY <2>2 DEF AdoptEntry, AddEntry
  <2> QED
    BY <1>1, <1>3, <2>1, <2>2 DEF AcquireStep
<1>4. CASE ReclaimStep(t) \/ ExitStep(t)
  <2>1. ASSUME ReclaimReset(t) PROVE gd[t] \in GuardId /\ ReleaseHp(t, hpOf[t][gd[t]]) /\ ResetOnly
    BY <1>0, <2>1 DEF ReclaimReset, ResetGuard, CallOK
  <2>2. ASSUME ~ReclaimReset(t), ~Retire(t) PROVE UNCHANGED <<hp, pinned>>
    BY <1>4, <2>2 DEF ReclaimStep, ExitStep, ScanAdopt, ScanBegin, ScanEntry, ScanSlot,
       ScanSlotUpTo, ScanTake, ScanReturn, ScanDelete, Exit, Abandon, SubtractHps, ReleaseEntry
  <2> QED
    BY <1>1, <2>1, <2>2
<1> QED
  BY <1>2, <1>3, <1>4 DEF Step

\* A control block is given back only at the end of a thread, with all its
\* hazard pointers in the list of unused ones.
LEMMA KeepsBlock ==
  ASSUME HInv, NEW t \in Thread, Step(t), block[t] # Null, ~ReleaseEntry(t)
  PROVE  block'[t] = block[t] /\ Ready(t)'
<1> USE DEF Goto, own
<1>0. TypeOK /\ BlocksOK(t)
  BY DEF HInv
<1>1. CASE GuardStep(t)
  <2>1. block' = block
    BY <1>1 DEF GuardStep, Reset, Copy, Move, Swap, Acquire, AcquireIfEqual, Unlink, Insert, ResetOnly, Guarding
  <2>2. \E x \in {"idle", "publish", "entry", "reset"} : pc' = [pc EXCEPT ![t] = x]
    <3>1. ASSUME NEW g \in GuardId, EnsureHp(t, g)
          PROVE  \E x \in {"publish", "entry"} : pc' = [pc EXCEPT ![t] = x]
      BY <3>1 DEF EnsureHp
    <3>2. ASSUME NEW g \in GuardId, Guarding(t, g)
          PROVE  \E x \in {"idle", "publish", "entry", "reset"} : pc' = [pc EXCEPT ![t] = x]
      BY <3>1, <3>2 DEF Guarding
    <3> QED
      BY <1>1, <3>2 DEF GuardStep, Reset, Copy, Move, Swap, Acquire, AcquireIfEqual, Unlink, Insert
  <2>3. pc'[t] # "initialize"
    BY <1>0, <2>2 DEF TypeOK
  <2> QED
    BY <2>1, <2>3 DEF Ready
<1>2. CASE AcquireStep(t)
  <2>1. pc[t] # "entry"
    BY <1>0 DEF BlocksOK
  <2> QED
    BY <1>0, <1>2, <2>1 DEF AcquireStep, AdoptEntry, AddEntry, Initialize, Publish, Validate, ResetOnly, Ready, TypeOK
<1>3. CASE ReclaimStep(t) \/ ExitStep(t)
  <2>1. block' = block
    BY <1>3 DEF ReclaimStep, ExitStep, ReclaimReset, ResetOnly, Retire, ScanAdopt, ScanBegin, ScanEntry,
       ScanSlot, ScanSlotUpTo, ScanTake, ScanReturn, ScanDelete, Exit, Abandon, SubtractHps
  <2>2. pc'[t] # "initialize"
    BY <1>0, <1>3 DEF ReclaimStep, ExitStep, ReclaimReset, Retire, ScanAdopt, ScanBegin, ScanEntry,
       ScanSlot, ScanSlotUpTo, NextEntry, ScanTake, ScanReturn, ScanDelete, Exit, Abandon, SubtractHps,
       BlocksOK, TypeOK
  <2> QED
    BY <2>1, <2>2 DEF Ready
<1> QED
  BY <1>1, <1>2, <1>3 DEF Step

LEMMA ReleasedEmpty ==
  ASSUME HInv, NEW t \in Thread, ReleaseEntry(t)
  PROVE  /\ block[t] \in Block /\ Ready(t) /\ UNCHANGED <<hp, pinned>>
         /\ \A i \in 1..K : hp[block[t]][i] \notin Node
<1>1. TypeOK /\ BlocksOK(t) /\ HpsOK(t) /\ ExitOK(t)
  BY DEF HInv
<1>2. block[t] \in Block /\ Ready(t) /\ UNCHANGED <<hp, pinned>>
  BY <1>1 DEF ReleaseEntry, Goto, BlocksOK, Ready, TypeOK
<1>3. \A g \in GuardId : hpOf[t][g] = 0
  BY <1>1 DEF ReleaseEntry, Goto, ExitOK
<1>4. \A i \in 1..K : ~Held(t, i)
  BY <1>3, KAssumption DEF Held
<1>5. \A i \in 1..K : hp[block[t]][i] = Link
  BY <1>1, <1>2, <1>4 DEF HpsOK
<1> QED
  BY <1>2, <1>5, HPNullAssumption

LEMMA UnusedNext ==
  ASSUME HInv, NEW t \in Thread, Step(t)
  PROVE  UnusedOK'
<1>0. TypeOK /\ UnusedOK /\ BlocksOK(t)
  BY DEF HInv
<1> SUFFICES ASSUME NEW b \in Block, NEW i \in 1..K, hp'[b][i] \in Node
             PROVE  \E u \in Thread : block'[u] = b /\ Ready(u)'
  BY DEF UnusedOK
<1>1. CASE b # block[t]
  <2>1. hp'[b] = hp[b]
    BY <1>1, HpElsewhere
  <2>2. PICK u \in Thread : block[u] = b /\ Ready(u)
    BY <1>0, <2>1 DEF UnusedOK
  <2>3. u \in Thread \ {t}
    BY <1>1, <2>2
  <2> QED
    BY <2>2, <2>3, HpUntouched DEF Same, SameGuards
<1>2. CASE b = block[t] /\ ~ReleaseEntry(t)
  <2>1. block[t] # Null
    BY <1>2, HPNullAssumption
  <2> QED
    BY <1>2, <2>1, KeepsBlock
<1>3. CASE b = block[t] /\ ReleaseEntry(t)
  BY <1>3, ReleasedEmpty
<1> QED
  BY <1>1, <1>2, <1>3

\* Being pinned, a hazard pointer does not change its node.
LEMMA PinnedSame ==
  ASSUME HInv, NEW t \in Thread, Step(t), NEW u \in Thread, NEW i \in 1..K,
         <<u, i>> \in pinned, <<u, i>> \in pinned'
  PROVE  /\ Ready(u)' /\ block'[u] = block[u] /\ block[u] \in Block
         /\ hp'[block[u]][i] = hp[block[u]][i] /\ hp[block[u]][i] \in Node
<1>0. TypeOK /\ PinnedOK /\ CallOK(t)
  BY DEF HInv
<1>1. Ready(u) /\ hp[block[u]][i] \in Node /\ block[u] \in Block /\ block[u] # Null
  BY <1>0 DEF PinnedOK, Ready, TypeOK
<1>2. CASE u # t
  BY <1>1, <1>2, HpUntouched DEF Same, SameGuards
<1>3. CASE u = t
  <2>1. ~ReleaseEntry(t)
    BY <1>1, <1>3, ReleasedEmpty
  <2>2. Ready(t)' /\ block'[t] = block[t]
    BY <1>1, <1>3, <2>1, KeepsBlock
  <2>3. CASE UNCHANGED hp \/ Retire(t)
    BY <1>1, <1>3, <2>2, <2>3 DEF Retire, global
  <2>4. CASE Initialize(t)
    BY <1>1, <1>3, <2>4 DEF Initialize, Goto, Ready
  <2>5. ASSUME Publish(t) PROVE hp'[block[t]][i] = hp[block[t]][i]
    <3>1. gd[t] \in GuardId /\ hpOf[t][gd[t]] # 0
      BY <1>0, <2>5 DEF Publish, CallOK
    <3>2. hpOf[t][gd[t]] \in 1..K
      BY <3>1, SlotFacts
    <3>3. p1[t] \in Node \union {Null}
      BY <1>0 DEF TypeOK
    <3>4. ASSUME NEW j \in 1..K, SetObject(t, j, p1[t]) PROVE hp'[block[t]][i] = hp[block[t]][i]
      <4>1. /\ i # j => hp'[block[t]][i] = hp[block[t]][i]
            /\ hp[block[t]][j] # p1[t] => <<t, j>> \notin pinned'
            /\ hp'[block[t]][j] = p1[t]
        BY <1>0, <1>1, <1>3, <3>3, <3>4, SetObjectEffect
      <4> QED
        BY <1>3, <4>1
    <3> QED
      BY <2>5, <3>2, <3>4 DEF Publish
  <2>6. ASSUME NEW j \in 1..K, ReleaseHp(t, j) PROVE hp'[block[t]][i] = hp[block[t]][i]
    <3>1. pinned' = pinned \ {<<t, j>>} /\ \A k \in 1..K \ {j} : hp'[block[t]][k] = hp[block[t]][k]
      BY <1>0, <1>1, <1>3, <2>6, ReleaseHpEffect
    <3>2. i # j
      BY <1>3, <3>1
    <3> QED
      BY <3>1, <3>2
  <2> QED
    BY <1>1, <1>3, <2>2, <2>3, <2>4, <2>5, <2>6, HpSteps, SlotFacts
<1> QED
  BY <1>2, <1>3

\* Only Retire pins.
LEMMA PinnedShrinks ==
  ASSUME HInv, NEW t \in Thread, Step(t), ~Retire(t)
  PROVE  pinned' \subseteq pinned
<1>0. TypeOK /\ CallOK(t)
  BY DEF HInv
<1>1. ASSUME Publish(t) PROVE pinned' \subseteq pinned
  BY <1>1 DEF Publish, SetObject
<1>2. ASSUME NEW g \in GuardId, ReleaseHp(t, hpOf[t][g]) PROVE pinned' \subseteq pinned
  BY <1>2 DEF ReleaseHp
<1>3. ASSUME Initialize(t) PROVE pinned' \subseteq pinned
  BY <1>3 DEF Initialize
<1> QED
  BY <1>1, <1>2, <1>3, HpSteps

\* What Retire pins holds the node it retires.
LEMMA RetirePins ==
  ASSUME HInv, NEW t \in Thread, Retire(t), NEW u \in Thread, NEW i \in 1..K
  PROVE  /\ p1[t] \in Node /\ status[p1[t]] = "live" /\ UNCHANGED <<hp, block>>
         /\ <<u, i>> \in pinned => <<u, i>> \in pinned'
         /\ block[u] # Null /\ hp[block[u]][i] = p1[t] => <<u, i>> \in pinned'
         /\ <<u, i>> \in pinned' /\ <<u, i>> \notin pinned =>
               block[u] \in Block /\ Ready(u) /\ hp[block[u]][i] = p1[t]
<1>0. TypeOK /\ UnusedOK /\ BlocksOK(u) /\ ClaimOK(t)
  BY DEF HInv
<1>1. p1[t] \in Node /\ status[p1[t]] = "live" /\ UNCHANGED <<hp, block>>
  BY <1>0 DEF Retire, Goto, ClaimOK, ClaimPC, global
<1>2. <<u, i>> \in pinned' <=> <<u, i>> \in pinned \/ (block[u] # Null /\ hp[block[u]][i] = p1[t])
  BY DEF Retire
<1>3. ASSUME block[u] # Null, hp[block[u]][i] = p1[t] PROVE block[u] \in Block /\ Ready(u)
  <2>1. block[u] \in Block
    BY <1>0, <1>3 DEF TypeOK
  <2>2. PICK v \in Thread : block[v] = block[u] /\ Ready(v)
    BY <1>0, <1>1, <1>3, <2>1 DEF UnusedOK
  <2>3. v = u
    BY <1>0, <1>3, <2>2 DEF BlocksOK
  <2> QED
    BY <2>1, <2>2, <2>3
<1> QED
  BY <1>1, <1>2, <1>3

LEMMA PinnedNext ==
  ASSUME HInv, NEW t \in Thread, Step(t)
  PROVE  PinnedOK'
<1> SUFFICES ASSUME NEW u \in Thread, NEW i \in 1..K, <<u, i>> \in pinned'
             PROVE  Ready(u)' /\ hp'[block'[u]][i] \in Node
  BY DEF PinnedOK
<1>1. CASE <<u, i>> \in pinned
  BY <1>1, PinnedSame
<1>2. CASE <<u, i>> \notin pinned
  <2>1. Retire(t)
    BY <1>2, PinnedShrinks
  <2>2. p1[t] \in Node /\ UNCHANGED <<hp, block>> /\ Ready(u) /\ hp[block[u]][i] = p1[t]
    BY <1>2, <2>1, RetirePins
  <2>3. pc'[u] # "initialize"
    <3>1. CASE u = t
      BY <2>1, <3>1 DEF Retire, Goto, HInv, TypeOK
    <3>2. CASE u # t
      BY <2>2, <3>2, OthersSame DEF Same, Ready
    <3> QED
      BY <3>1, <3>2
  <2> QED
    BY <2>2, <2>3 DEF Ready
<1> QED
  BY <1>1, <1>2

-----------------------------------------------------------------------------
(* The count of hazard pointers                                            *)

BlockStep(t) == \/ AdoptEntry(t) \/ Initialize(t) \/ SubtractHps(t) \/ ReleaseEntry(t)
                \/ \E b \in Block : AddEntry(t, b)

LEMMA NoBlockStep ==
  ASSUME HInv, NEW t \in Thread, Step(t), ~BlockStep(t)
  PROVE  /\ UNCHANGED <<block, activeHps>>
         /\ pc[t] \notin {"initialize", "release"} /\ pc'[t] \notin {"initialize", "release"}
<1> USE DEF Goto, own, global
<1>0. TypeOK
  BY DEF HInv
<1>1. CASE GuardStep(t)
  <2>1. UNCHANGED <<block, activeHps>>
    BY <1>1 DEF GuardStep, Reset, Copy, Move, Swap, Acquire, AcquireIfEqual, Unlink, Insert, ResetOnly, Guarding
  <2>2. ASSUME NEW g \in GuardId, Guarding(t, g)
        PROVE  pc[t] = "idle" /\ \E x \in {"publish", "entry"} : pc' = [pc EXCEPT ![t] = x]
    BY <2>2 DEF Guarding, EnsureHp
  <2>3. pc[t] = "idle" /\ \E x \in {"idle", "publish", "entry", "reset"} : pc' = [pc EXCEPT ![t] = x]
    BY <1>1, <2>2 DEF GuardStep, Reset, Copy, Move, Swap, Acquire, AcquireIfEqual, Unlink, Insert
  <2> QED
    BY <1>0, <2>1, <2>3 DEF TypeOK
<1>2. CASE Publish(t) \/ Validate(t)
  BY <1>0, <1>2 DEF Publish, Validate, ResetOnly, TypeOK
<1>3. CASE ReclaimStep(t) \/ Exit(t) \/ Abandon(t)
  <2>1. UNCHANGED <<block, activeHps>>
    BY <1>3 DEF ReclaimStep, ReclaimReset, ResetOnly, Retire, ScanAdopt, ScanBegin, ScanEntry,
       ScanSlot, ScanSlotUpTo, ScanTake, ScanReturn, ScanDelete, Exit, Abandon
  <2>2. pc[t] \notin {"initialize", "release"} /\ pc'[t] \notin {"initialize", "release"}
    BY <1>0, <1>3 DEF ReclaimStep, ReclaimReset, Retire, ScanAdopt, ScanBegin, ScanEntry,
       ScanSlot, ScanSlotUpTo, NextEntry, ScanTake, ScanReturn, ScanDelete, Exit, Abandon, TypeOK
  <2> QED
    BY <2>1, <2>2
<1> QED
  BY <1>1, <1>2, <1>3 DEF Step, BlockStep, AcquireStep, ExitStep

LEMMA CountNext ==
  ASSUME HInv, NEW t \in Thread, Step(t)
  PROVE  CountOK'
<1>0. TypeOK /\ CountOK /\ BlocksOK(t) /\ K \in Nat
  BY KAssumption DEF HInv
<1>1. \A u \in Thread \ {t} : u \in Counted' <=> u \in Counted
  BY OthersSame DEF Same, SameGuards, Counted
<1>2. Counted \subseteq Thread /\ Counted' \subseteq Thread
  BY DEF Counted
<1>3. ASSUME ~Initialize(t), ~SubtractHps(t) PROVE CountOK'
  <2>1. activeHps' = activeHps
    BY <1>3, NoBlockStep DEF BlockStep, AdoptEntry, AddEntry, ReleaseEntry
  <2>2. t \in Counted' <=> t \in Counted
    <3>1. CASE ~BlockStep(t)
      BY <3>1, NoBlockStep DEF Counted
    <3>2. CASE BlockStep(t)
      BY <1>0, <1>3, <3>2 DEF BlockStep, AdoptEntry, AddEntry, ReleaseEntry, Goto, Counted, BlocksOK, TypeOK
    <3> QED
      BY <3>1, <3>2
  <2>3. Counted' = Counted
    BY <1>1, <1>2, <2>2
  <2> QED
    BY <1>0, <2>1, <2>3 DEF CountOK
<1>4. ASSUME Initialize(t) PROVE CountOK'
  <2>1. /\ t \notin Counted /\ t \in Counted' /\ activeHps' = activeHps + K
    BY <1>0, <1>4 DEF Initialize, Goto, own, Counted, BlocksOK, TypeOK
  <2>2. Counted' = Counted \union {t}
    BY <1>1, <1>2, <2>1
  <2>3. /\ IsFiniteSet(Counted \union {t})
        /\ Cardinality(Counted \union {t}) = Cardinality(Counted) + 1
        /\ Cardinality(Counted) \in Nat
    BY <1>0, <2>1, FS_AddElement, FS_CardinalityType DEF CountOK
  <2>4. \A c \in Nat : K * (c + 1) = K * c + K
    BY <1>0
  <2> QED
    BY <1>0, <2>1, <2>2, <2>3, <2>4 DEF CountOK
<1>5. ASSUME SubtractHps(t) PROVE CountOK'
  <2>1. t \in Counted /\ t \notin Counted' /\ activeHps' = activeHps - K
    BY <1>0, <1>5 DEF SubtractHps, Goto, own, Counted, BlocksOK, TypeOK
  <2>2. Counted' = Counted \ {t}
    BY <1>1, <1>2, <2>1
  <2>3. IsFiniteSet(Counted \ {t})
    BY <1>0, FS_RemoveElement DEF CountOK
  <2> QED
    BY <2>1, <2>2, <2>3, CountPositive DEF CountOK
<1> QED
  BY <1>3, <1>4, <1>5

-----------------------------------------------------------------------------
(* Cells and the nodes unlinked from them                                  *)

\* The steps that change a cell or the status of a node.
ClientStep(t) == \/ \E c \in Cell, n \in Node : Insert(t, c, n)
                 \/ \E g \in GuardId, c \in Cell : Unlink(t, g, c)
                 \/ Retire(t) \/ \E n \in Node : ScanDelete(t, n)

LEMMA NoClientStep ==
  ASSUME NEW t \in Thread, Step(t), ~ClientStep(t)
  PROVE  UNCHANGED <<cell, status>>
<1> USE DEF nodes
<1>1. CASE GuardStep(t)
  BY <1>1 DEF ClientStep, GuardStep, Reset, Copy, Move, Swap, Acquire, AcquireIfEqual, ResetOnly, Guarding
<1>2. CASE AcquireStep(t)
  BY <1>2 DEF AcquireStep, AdoptEntry, AddEntry, Initialize, Publish, Validate, ResetOnly
<1>3. CASE ReclaimStep(t) \/ ExitStep(t)
  BY <1>3 DEF ClientStep, ReclaimStep, ExitStep, ReclaimReset, ResetOnly, ScanAdopt, ScanBegin,
     ScanEntry, ScanSlot, ScanSlotUpTo, ScanTake, ScanReturn, Exit, Abandon, SubtractHps, ReleaseEntry
<1> QED
  BY <1>1, <1>2, <1>3 DEF Step

\* A node between its unlinking and its retirement stays the same.
LEMMA NoNewClaim ==
  ASSUME HInv, NEW t \in Thread, Step(t), ~ClientStep(t), pc'[t] \in ClaimPC
  PROVE  pc[t] \in ClaimPC /\ p1'[t] = p1[t]
<1> USE DEF Goto, ClaimPC
<1>0. TypeOK
  BY DEF HInv
<1>1. CASE GuardStep(t)
  <2>1. ASSUME NEW g \in GuardId, Guarding(t, g)
        PROVE  \E x \in {"publish", "entry"} : pc' = [pc EXCEPT ![t] = x]
    BY <2>1 DEF Guarding, EnsureHp
  <2>2. \E x \in {"idle", "publish", "entry"} : pc' = [pc EXCEPT ![t] = x]
    BY <1>1, <2>1 DEF ClientStep, GuardStep, Reset, Copy, Move, Swap, Acquire, AcquireIfEqual
  <2> QED
    BY <1>0, <2>2 DEF TypeOK
<1>2. CASE AcquireStep(t)
  <2>1. \E x \in {"entry", "initialize", "publish", "validate", "idle"} : pc' = [pc EXCEPT ![t] = x]
    BY <1>2 DEF AcquireStep, AdoptEntry, AddEntry, Initialize, Publish, Validate
  <2> QED
    BY <1>0, <2>1 DEF TypeOK
<1>3. CASE ReclaimReset(t)
  BY <1>0, <1>3 DEF ReclaimReset, call, TypeOK
<1>4. CASE (ReclaimStep(t) \/ ExitStep(t)) /\ ~ReclaimReset(t)
  <2>1. \E x \in {"begin", "block", "slot", "take", "delete", "idle", "abandon", "scan", "subtract", "release"} :
           pc' = [pc EXCEPT ![t] = x]
    <3>1. CASE ScanReturn(t)
      BY <1>0, <3>1 DEF ScanReturn, TypeOK
    <3> QED
      BY <1>0, <1>4, <3>1 DEF ClientStep, ReclaimStep, ExitStep, ScanAdopt, ScanBegin,
         ScanEntry, ScanSlot, ScanSlotUpTo, NextEntry, ScanTake, Exit, Abandon, SubtractHps, ReleaseEntry
  <2> QED
    BY <1>0, <2>1 DEF TypeOK
<1> QED
  BY <1>1, <1>2, <1>3, <1>4 DEF Step

LEMMA CellNext ==
  ASSUME HInv, NEW t \in Thread, Step(t)
  PROVE  CellOK' /\ \A u \in Thread : ClaimOK(u)'
<1> USE DEF Goto
<1>0. /\ TypeOK /\ CellOK /\ KeptOK /\ \A u \in Thread : ClaimOK(u)
      /\ \A u \in Thread \ {t} : pc'[u] = pc[u] /\ p1'[u] = p1[u]
      /\ Null \notin Node
  BY OthersSame, HPNullAssumption DEF HInv, Same, SameCall
<1>1. CASE ~ClientStep(t)
  <2>1. UNCHANGED <<cell, status>>
    BY <1>1, NoClientStep
  <2>2. \A u \in Thread : pc'[u] \in ClaimPC => pc[u] \in ClaimPC /\ p1'[u] = p1[u]
    BY <1>0, <1>1, NoNewClaim
  <2> QED
    BY <1>0, <2>1, <2>2 DEF CellOK, ClaimOK
<1>2. ASSUME NEW c \in Cell, NEW n \in Node, Insert(t, c, n) PROVE CellOK' /\ \A u \in Thread : ClaimOK(u)'
  <2>1. /\ \A d \in Cell : cell'[d] = IF d = c THEN n ELSE cell[d]
        /\ \A m \in Node : status'[m] = IF m = n THEN "live" ELSE status[m]
        /\ pc' = pc /\ p1' = p1 /\ status[n] = "free"
    BY <1>0, <1>2 DEF Insert, call, TypeOK
  <2>2. \A d \in Cell : cell[d] # n /\ (cell[d] # Null => cell[d] \in Node)
    BY <1>0, <2>1 DEF CellOK, TypeOK
  <2>3. CellOK'
    BY <1>0, <2>1, <2>2 DEF CellOK
  <2>4. \A u \in Thread : ClaimOK(u)'
    BY <1>0, <2>1 DEF ClaimOK
  <2> QED
    BY <2>3, <2>4
<1>3. ASSUME NEW g \in GuardId, NEW c \in Cell, Unlink(t, g, c) PROVE CellOK' /\ \A u \in Thread : ClaimOK(u)'
  <2>1. /\ \A d \in Cell : cell'[d] = IF d = c THEN Null ELSE cell[d]
        /\ status' = status /\ cell[c] \in Node
        /\ pc'[t] = "reset" /\ p1'[t] = cell[c]
    BY <1>0, <1>3 DEF Unlink, Call, TypeOK
  <2>2. CellOK'
    BY <1>0, <2>1 DEF CellOK
  <2>3. \A u \in Thread : pc[u] \in ClaimPC => p1[u] # cell[c]
    BY <1>0 DEF ClaimOK
  <2>4. ClaimOK(t)'
    BY <1>0, <2>1, <2>3 DEF ClaimOK, CellOK
  <2>5. ASSUME NEW u \in Thread \ {t} PROVE ClaimOK(u)'
    BY <1>0, <2>1, <2>3 DEF ClaimOK
  <2> QED
    BY <2>2, <2>4, <2>5
<1>4. ASSUME Retire(t) PROVE CellOK' /\ \A u \in Thread : ClaimOK(u)'
  <2>1. /\ pc[t] \in ClaimPC /\ p1[t] \in Node /\ cell' = cell /\ pc'[t] \notin ClaimPC
        /\ \A m \in Node : status'[m] = IF m = p1[t] THEN "retired" ELSE status[m]
    BY <1>0, <1>4 DEF Retire, ClaimOK, ClaimPC, TypeOK
  <2>2. (\A d \in Cell : cell[d] # p1[t]) /\ \A u \in Thread \ {t} : pc[u] \in ClaimPC => p1[u] # p1[t]
    BY <1>0, <2>1 DEF ClaimOK
  <2>3. CellOK'
    BY <1>0, <2>1, <2>2 DEF CellOK, TypeOK
  <2>4. \A u \in Thread : ClaimOK(u)'
    BY <1>0, <2>1, <2>2 DEF ClaimOK
  <2> QED
    BY <2>3, <2>4
<1>5. ASSUME NEW n \in Node, ScanDelete(t, n) PROVE CellOK' /\ \A u \in Thread : ClaimOK(u)'
  <2>1. status[n] = "retired"
    BY <1>0, <1>5 DEF ScanDelete, KeptOK, Keeps
  <2>2. /\ cell' = cell /\ pc' = pc /\ p1' = p1
        /\ \A m \in Node : status'[m] = IF m = n THEN "free" ELSE status[m]
    BY <1>0, <1>5 DEF ScanDelete, call, TypeOK
  <2>3. CellOK'
    BY <1>0, <2>1, <2>2 DEF CellOK, TypeOK
  <2>4. \A u \in Thread : ClaimOK(u)'
    BY <1>0, <2>1, <2>2 DEF ClaimOK
  <2> QED
    BY <2>3, <2>4
<1> QED
  BY <1>1, <1>2, <1>3, <1>4, <1>5 DEF ClientStep

-----------------------------------------------------------------------------
(* Where retired nodes are                                                 *)

\* The steps that move a retired node.
MoveStep(t) == \/ Retire(t) \/ ScanAdopt(t) \/ ScanTake(t) \/ Abandon(t)
               \/ \E n \in Node : ScanDelete(t, n)

LEMMA NoMoveStep ==
  ASSUME NEW t \in Thread, Step(t), ~MoveStep(t)
  PROVE  UNCHANGED <<retired, adopted, pending, abandoned>>
<1> USE DEF global, own, scanning
<1>1. CASE GuardStep(t)
  BY <1>1 DEF GuardStep, Reset, Copy, Move, Swap, Acquire, AcquireIfEqual, Unlink, Insert, ResetOnly, Guarding
<1>2. CASE AcquireStep(t)
  BY <1>2 DEF AcquireStep, AdoptEntry, AddEntry, Initialize, Publish, Validate, ResetOnly
<1>3. CASE ReclaimStep(t) \/ ExitStep(t)
  BY <1>3 DEF MoveStep, ReclaimStep, ExitStep, ReclaimReset, ResetOnly, ScanBegin,
     ScanEntry, ScanSlot, ScanSlotUpTo, ScanReturn, Exit, SubtractHps, ReleaseEntry
<1> QED
  BY <1>1, <1>2, <1>3 DEF Step

LEMMA KeptNext ==
  ASSUME HInv, NEW t \in Thread, Step(t)
  PROVE  KeptOK'
<1> USE DEF Goto, global, own, scanning, nodes
<1>0. /\ TypeOK /\ KeptOK /\ EmptyOK(t) /\ ClaimOK(t) /\ CellOK
      /\ \A u \in Thread \ {t} : /\ retired'[u] = retired[u] /\ adopted'[u] = adopted[u]
                                 /\ pending'[u] = pending[u]
      /\ Null \notin Node
  BY OthersSame, HPNullAssumption DEF HInv, Same, SameScan
<1>1. CASE ~MoveStep(t)
  <2>1. UNCHANGED <<retired, adopted, pending, abandoned>>
    BY <1>1, NoMoveStep
  <2>2. \A n \in Node : status'[n] = "retired" <=> status[n] = "retired"
    <3>1. CASE ~ClientStep(t)
      BY <3>1, NoClientStep
    <3>2. CASE ClientStep(t)
      <4>1. ASSUME NEW c \in Cell, NEW m \in Node, Insert(t, c, m)
            PROVE  \A n \in Node : status'[n] = "retired" <=> status[n] = "retired"
        BY <1>0, <4>1 DEF Insert, TypeOK
      <4>2. ASSUME NEW g \in GuardId, NEW c \in Cell, Unlink(t, g, c) PROVE status' = status
        BY <4>2 DEF Unlink
      <4> QED
        BY <1>1, <3>2, <4>1, <4>2 DEF ClientStep, MoveStep
    <3> QED
      BY <3>1, <3>2
  <2> QED
    BY <1>0, <2>1, <2>2 DEF KeptOK, Keeps
<1>2. ASSUME Retire(t), NEW m \in Node, m = p1[t] PROVE KeptOK'
  <2>1. /\ status[m] = "live"
        /\ \A n \in Node : status'[n] = IF n = m THEN "retired" ELSE status[n]
        /\ retired'[t] = retired[t] \union {m}
        /\ UNCHANGED <<adopted, pending, abandoned>>
    BY <1>0, <1>2 DEF Retire, ClaimOK, ClaimPC, TypeOK
  <2>2. m \notin abandoned /\ \A u \in Thread : m \notin Keeps(u)
    BY <1>0, <2>1 DEF KeptOK
  <2>3. Keeps(t)' = Keeps(t) \union {m} /\ \A u \in Thread \ {t} : Keeps(u)' = Keeps(u)
    BY <1>0, <2>1 DEF Keeps
  <2>4. \A n \in Node : status'[n] = "retired" <=> (n \in abandoned' \/ \E u \in Thread : n \in Keeps(u)')
    BY <1>0, <2>1, <2>3 DEF KeptOK
  <2>5. \A u \in Thread : Keeps(u)' \intersect abandoned' = {} /\ \A v \in Thread : v # u => Keeps(u)' \intersect Keeps(v)' = {}
    BY <1>0, <2>1, <2>2, <2>3 DEF KeptOK
  <2>6. \A u \in Thread : /\ retired'[u] \intersect adopted'[u] = {} /\ retired'[u] \intersect pending'[u] = {}
                          /\ adopted'[u] \intersect pending'[u] = {}
    BY <1>0, <2>1, <2>2 DEF KeptOK, Keeps
  <2> QED
    BY <2>4, <2>5, <2>6 DEF KeptOK
<1>3. ASSUME ScanAdopt(t) PROVE KeptOK'
  <2>1. /\ status' = status /\ abandoned' = {} /\ UNCHANGED <<retired, pending>>
        /\ adopted'[t] = abandoned /\ adopted[t] = {} /\ pending[t] = {}
    BY <1>0, <1>3 DEF ScanAdopt, EmptyOK, TypeOK
  <2>2. Keeps(t)' = Keeps(t) \union abandoned /\ \A u \in Thread \ {t} : Keeps(u)' = Keeps(u)
    BY <1>0, <2>1 DEF Keeps
  <2>3. \A n \in Node : status'[n] = "retired" <=> (n \in abandoned' \/ \E u \in Thread : n \in Keeps(u)')
    BY <1>0, <2>1, <2>2 DEF KeptOK
  <2>4. \A u \in Thread : Keeps(u)' \intersect abandoned' = {} /\ \A v \in Thread : v # u => Keeps(u)' \intersect Keeps(v)' = {}
    BY <1>0, <2>1, <2>2 DEF KeptOK
  <2>5. \A u \in Thread : /\ retired'[u] \intersect adopted'[u] = {} /\ retired'[u] \intersect pending'[u] = {}
                          /\ adopted'[u] \intersect pending'[u] = {}
    BY <1>0, <2>1 DEF KeptOK, Keeps
  <2> QED
    BY <2>3, <2>4, <2>5 DEF KeptOK
<1>4. ASSUME ScanTake(t) PROVE KeptOK'
  <2>1. /\ status' = status /\ abandoned' = abandoned /\ pending[t] = {} /\ adopted'[t] = {}
        /\ retired'[t] = (retired[t] \union adopted[t]) \intersect prot[t]
        /\ pending'[t] = (retired[t] \union adopted[t]) \ prot[t]
    BY <1>0, <1>4 DEF ScanTake, EmptyOK, TypeOK
  <2>2. \A u \in Thread : Keeps(u)' = Keeps(u)
    BY <1>0, <2>1 DEF Keeps
  <2>3. \A u \in Thread : /\ retired'[u] \intersect adopted'[u] = {} /\ retired'[u] \intersect pending'[u] = {}
                          /\ adopted'[u] \intersect pending'[u] = {}
    BY <1>0, <2>1 DEF KeptOK
  <2> QED
    BY <1>0, <2>1, <2>2, <2>3 DEF KeptOK
<1>5. ASSUME Abandon(t) PROVE KeptOK'
  <2>1. /\ status' = status /\ UNCHANGED <<adopted, pending>> /\ adopted[t] = {} /\ pending[t] = {}
        /\ retired'[t] = {} /\ abandoned' = abandoned \union retired[t]
    BY <1>0, <1>5 DEF Abandon, EmptyOK, TypeOK
  <2>2. Keeps(t)' = {} /\ Keeps(t) = retired[t] /\ \A u \in Thread \ {t} : Keeps(u)' = Keeps(u)
    BY <1>0, <2>1 DEF Keeps
  <2>3. \A n \in Node : status'[n] = "retired" <=> (n \in abandoned' \/ \E u \in Thread : n \in Keeps(u)')
    BY <1>0, <2>1, <2>2 DEF KeptOK
  <2>4. \A u \in Thread : Keeps(u)' \intersect abandoned' = {} /\ \A v \in Thread : v # u => Keeps(u)' \intersect Keeps(v)' = {}
    BY <1>0, <2>1, <2>2 DEF KeptOK
  <2>5. \A u \in Thread : /\ retired'[u] \intersect adopted'[u] = {} /\ retired'[u] \intersect pending'[u] = {}
                          /\ adopted'[u] \intersect pending'[u] = {}
    BY <1>0, <2>1 DEF KeptOK
  <2> QED
    BY <2>3, <2>4, <2>5 DEF KeptOK
<1>6. ASSUME NEW m \in Node, ScanDelete(t, m) PROVE KeptOK'
  <2>1. /\ m \in pending[t] /\ UNCHANGED <<retired, adopted, abandoned>>
        /\ \A n \in Node : status'[n] = IF n = m THEN "free" ELSE status[n]
        /\ pending'[t] = pending[t] \ {m}
    BY <1>0, <1>6 DEF ScanDelete, TypeOK
  <2>2. Keeps(t)' = Keeps(t) \ {m} /\ m \in Keeps(t) /\ \A u \in Thread \ {t} : Keeps(u)' = Keeps(u)
    BY <1>0, <2>1 DEF Keeps, KeptOK
  <2>3. m \notin abandoned /\ \A u \in Thread \ {t} : m \notin Keeps(u)
    BY <1>0, <2>2 DEF KeptOK
  <2>4. \A n \in Node : status'[n] = "retired" <=> (n \in abandoned' \/ \E u \in Thread : n \in Keeps(u)')
    BY <1>0, <2>1, <2>2, <2>3 DEF KeptOK
  <2>5. \A u \in Thread : Keeps(u)' \intersect abandoned' = {} /\ \A v \in Thread : v # u => Keeps(u)' \intersect Keeps(v)' = {}
    BY <1>0, <2>1, <2>2 DEF KeptOK
  <2>6. \A u \in Thread : /\ retired'[u] \intersect adopted'[u] = {} /\ retired'[u] \intersect pending'[u] = {}
                          /\ adopted'[u] \intersect pending'[u] = {}
    BY <1>0, <2>1 DEF KeptOK
  <2> QED
    BY <2>4, <2>5, <2>6 DEF KeptOK
<1>7. Retire(t) => p1[t] \in Node
  BY <1>0 DEF Retire, ClaimOK, ClaimPC
<1> QED
  BY <1>1, <1>2, <1>3, <1>4, <1>5, <1>6, <1>7 DEF MoveStep

LEMMA EmptyNext ==
  ASSUME HInv, NEW t \in Thread, Step(t)
  PROVE  \A u \in Thread : EmptyOK(u)'
<1> USE DEF Goto, global, own, scanning, nodes
<1>0. /\ TypeOK /\ EmptyOK(t) /\ ExitOK(t) /\ \A u \in Thread : EmptyOK(u)
  BY DEF HInv
<1>1. CASE ~MoveStep(t)
  <2>1. UNCHANGED <<retired, adopted, pending>>
    BY <1>1, NoMoveStep
  <2> USE DEF EmptyOK
  <2>2. CASE GuardStep(t)
    <3>1. ASSUME NEW g \in GuardId, Guarding(t, g)
          PROVE  pc[t] = "idle" /\ \E x \in {"publish", "entry"} : pc' = [pc EXCEPT ![t] = x]
      BY <3>1 DEF Guarding, EnsureHp
    <3>2. pc[t] = "idle" /\ \E x \in {"idle", "publish", "entry", "reset"} : pc' = [pc EXCEPT ![t] = x]
      BY <2>2, <3>1 DEF GuardStep, Reset, Copy, Move, Swap, Acquire, AcquireIfEqual, Unlink, Insert
    <3> QED
      BY <1>0, <2>1, <3>2 DEF TypeOK
  <2>3. CASE AcquireStep(t)
    <3>1. /\ pc[t] \in {"entry", "initialize", "publish", "validate"}
          /\ \E x \in {"entry", "initialize", "publish", "validate", "idle"} : pc' = [pc EXCEPT ![t] = x]
      BY <2>3 DEF AcquireStep, AdoptEntry, AddEntry, Initialize, Publish, Validate
    <3> QED
      BY <1>0, <2>1, <3>1 DEF TypeOK
  <2>4. CASE ReclaimStep(t)
    <3>1. CASE ReclaimReset(t)
      BY <1>0, <2>1, <3>1 DEF ReclaimReset, TypeOK
    <3>2. CASE ScanBegin(t) \/ ScanEntry(t) \/ ScanSlot(t)
      <4>1. pc[t] \in {"begin", "block", "slot"} /\ \E x \in {"block", "slot", "take"} : pc' = [pc EXCEPT ![t] = x]
        BY <3>2 DEF ScanBegin, ScanEntry, ScanSlot, ScanSlotUpTo, NextEntry
      <4> QED
        BY <1>0, <2>1, <4>1 DEF TypeOK
    <3>3. CASE ScanReturn(t)
      BY <1>0, <2>1, <3>3 DEF ScanReturn, TypeOK
    <3> QED
      BY <1>1, <2>4, <3>1, <3>2, <3>3 DEF MoveStep, ReclaimStep
  <2>5. CASE ExitStep(t)
    <3>1. CASE Exit(t)
      <4>1. \/ pc'[t] = "scan"
            \/ pc'[t] = "subtract" /\ retired[t] = {}
        BY <1>0, <3>1 DEF Exit, TypeOK
      <4>2. pc[t] = "idle"
        BY <3>1 DEF Exit
      <4>3. EmptyOK(t)'
        BY <1>0, <2>1, <4>1, <4>2
      <4> QED
        BY <1>0, <2>1, <4>3, OthersSame DEF Same
    <3>2. CASE SubtractHps(t)
      BY <1>0, <2>1, <3>2 DEF SubtractHps, TypeOK
    <3>3. CASE ReleaseEntry(t)
      BY <1>0, <2>1, <3>3 DEF ReleaseEntry, TypeOK
    <3> QED
      BY <1>1, <2>5, <3>1, <3>2, <3>3 DEF MoveStep, ExitStep
  <2> QED
    BY <2>2, <2>3, <2>4, <2>5 DEF Step
<1>2. CASE MoveStep(t)
  <2>1. EmptyOK(t)'
    BY <1>0, <1>2 DEF MoveStep, Retire, ScanAdopt, ScanTake, Abandon, ScanDelete, EmptyOK, TypeOK
  <2> QED
    BY <1>0, <2>1, OthersSame DEF Same, SameScan, EmptyOK
<1> QED
  BY <1>1, <1>2

-----------------------------------------------------------------------------
(* A scan misses no hazard pointer that keeps a node                       *)

\* No step but the retirement of a node makes a hazard pointer keep it.
LEMMA HeldBySame ==
  ASSUME HInv, NEW t \in Thread, Step(t), NEW v \in Thread, NEW i \in 1..K, NEW n,
         HeldBy(v, i, n)'
  PROVE  \/ HeldBy(v, i, n) /\ block'[v] = block[v] /\ block[v] \in Block /\ Ready(v)
         \/ Retire(t) /\ n = p1[t] /\ status[n] = "live"
<1>1. CASE <<v, i>> \in pinned
  <2>1. /\ block'[v] = block[v] /\ hp'[block[v]][i] = hp[block[v]][i] /\ block[v] \in Block
    BY <1>1, PinnedSame DEF HeldBy
  <2>2. Ready(v)
    BY <1>1 DEF HInv, PinnedOK
  <2> QED
    BY <1>1, <2>1, <2>2 DEF HeldBy
<1>2. CASE <<v, i>> \notin pinned
  <2>1. Retire(t)
    BY <1>2, PinnedShrinks DEF HeldBy
  <2>2. hp[block[v]][i] = p1[t] /\ UNCHANGED <<hp, block>> /\ status[p1[t]] = "live"
    BY <1>2, <2>1, RetirePins DEF HeldBy
  <2> QED
    BY <2>1, <2>2 DEF HeldBy
<1> QED
  BY <1>1, <1>2

\* The scans of other threads
LEMMA ScanElsewhere ==
  ASSUME HInv, NEW t \in Thread, Step(t), NEW u \in Thread \ {t}
  PROVE  ScanOK(u)'
<1>0. /\ ScanOK(u) /\ KeptOK /\ TypeOK
      /\ pc'[u] = pc[u] /\ SameScan(u)
  BY OthersSame DEF HInv, Same
<1>1. /\ retired'[u] = retired[u] /\ adopted'[u] = adopted[u] /\ pending'[u] = pending[u]
      /\ prot'[u] = prot[u] /\ todo'[u] = todo[u] /\ idx'[u] = idx[u]
  BY <1>0 DEF SameScan
<1>2. ASSUME NEW n \in Keeps(u), NEW v \in Thread, NEW i \in 1..K, HeldBy(v, i, n)'
      PROVE  HeldBy(v, i, n) /\ block'[v] = block[v]
  <2>1. n \in Node /\ status[n] = "retired"
    BY <1>0 DEF KeptOK, Keeps, TypeOK
  <2> QED
    BY <1>2, <2>1, HeldBySame
<1>3. ASSUME pc[u] \in {"block", "slot", "take"},
             NEW n \in retired[u] \union adopted[u], NEW v \in Thread, NEW i \in 1..K, HeldBy(v, i, n)'
      PROVE  n \in prot'[u] \/ (pc'[u] # "take" /\ Ahead(u, block[v], i)')
  <2>1. HeldBy(v, i, n) /\ block'[v] = block[v]
    BY <1>2, <1>3 DEF Keeps
  <2>2. n \in prot[u] \/ (pc[u] # "take" /\ Ahead(u, block[v], i))
    BY <1>0, <1>3, <2>1 DEF ScanOK
  <2>3. ASSUME NEW b, b = block[v], Ahead(u, b, i) PROVE Ahead(u, block[v], i)'
    BY <1>0, <1>1, <2>1, <2>3 DEF Ahead
  <2> QED
    BY <1>0, <1>1, <2>2, <2>3
<1>4. \A n \in pending'[u], v \in Thread, i \in 1..K : ~HeldBy(v, i, n)'
  BY <1>0, <1>1, <1>2 DEF ScanOK, Keeps
<1> QED
  BY <1>0, <1>1, <1>3, <1>4 DEF ScanOK

\* Entry b is dealt with: the hazard pointers of it that keep a node have been
\* seen, or its owner has none.
LEMMA ScanAdvance ==
  ASSUME HInv, NEW t \in Thread, NextEntry(t, pc[t]), pc[t] \in {"block", "slot"},
         UNCHANGED <<hp, block, pinned, retired, adopted>>, prot[t] \subseteq prot'[t],
         idx'[t] = 1, pending'[t] = {},
         \A n \in retired[t] \union adopted[t], v \in Thread, i \in 1..K :
            HeldBy(v, i, n) /\ block[v] = Head(todo[t]) =>
               n \in prot'[t] \/ (pc[t] = "slot" /\ i < idx[t])
  PROVE  ScanOK(t)'
<1>0. TypeOK /\ ScanOK(t) /\ BlocksOK(t)
  BY DEF HInv
<1>1. todo[t] \in Seq(Block) /\ todo[t] # << >>
  BY <1>0 DEF BlocksOK, TypeOK
<1>2. /\ todo'[t] = Tail(todo[t])
      /\ pc'[t] = IF Tail(todo[t]) = << >> THEN "take" ELSE "block"
  BY <1>0 DEF NextEntry, Goto, TypeOK
<1>3. ASSUME NEW n \in retired[t] \union adopted[t], NEW v \in Thread, NEW i \in 1..K,
             HeldBy(v, i, n), n \notin prot'[t]
      PROVE  pc'[t] # "take" /\ Ahead(t, block[v], i)'
  <2>1. n \notin prot[t]
    BY <1>3
  <2>2. Ahead(t, block[v], i)
    BY <1>0, <1>3, <2>1 DEF ScanOK
  <2>3. PICK k \in 1..Len(todo[t]) : todo[t][k] = block[v] /\ (k = 1 /\ pc[t] = "slot" => i >= idx[t])
    BY <2>2 DEF Ahead
  <2>4. k # 1
    <3>1. ASSUME k = 1 PROVE FALSE
      <4>1. block[v] = Head(todo[t])
        BY <1>1, <2>3, <3>1, HeadTail
      <4>2. pc[t] = "slot" /\ i < idx[t] /\ i >= idx[t]
        BY <1>3, <2>3, <3>1, <4>1
      <4>3. idx[t] \in Nat
        BY <1>0, KAssumption DEF TypeOK
      <4> QED
        BY <4>2, <4>3
    <3> QED
      BY <3>1
  <2>5. /\ k - 1 \in 1..Len(Tail(todo[t])) /\ Tail(todo[t])[k - 1] = todo[t][k]
        /\ Tail(todo[t]) # << >>
    <3>1. /\ Len(todo[t]) \in Nat /\ Len(Tail(todo[t])) = Len(todo[t]) - 1
          /\ \A j \in 1..(Len(todo[t]) - 1) : Tail(todo[t])[j] = todo[t][j + 1]
          /\ (Tail(todo[t]) = << >> <=> Len(todo[t]) = 1)
      BY <1>1, HeadTail
    <3>2. k - 1 \in 1..(Len(todo[t]) - 1) /\ (k - 1) + 1 = k
      BY <2>4, <3>1
    <3> QED
      BY <3>1, <3>2
  <2>6. pc'[t] = "block"
    BY <1>2, <2>5
  <2>7. ASSUME NEW j \in 1..Len(Tail(todo[t])), Tail(todo[t])[j] = block[v] PROVE Ahead(t, block[v], i)'
    BY <1>2, <2>6, <2>7 DEF Ahead
  <2> QED
    BY <2>3, <2>5, <2>6, <2>7
<1>4. \A n, v, i : HeldBy(v, i, n)' <=> HeldBy(v, i, n)
  BY DEF HeldBy
<1> QED
  BY <1>2, <1>3, <1>4 DEF ScanOK

LEMMA ScanNext ==
  ASSUME HInv, NEW t \in Thread, Step(t)
  PROVE  \A u \in Thread : ScanOK(u)'
<1> USE DEF Goto, global, own, scanning, nodes
<1>0. /\ TypeOK /\ EmptyOK(t) /\ ScanOK(t) /\ BlocksOK(t) /\ EmptyOK(t)' /\ K \in Nat \ {0}
      /\ PinnedOK /\ \A v \in Thread : BlocksOK(v)
  BY EmptyNext, KAssumption DEF HInv
<1>1. ASSUME GuardStep(t) \/ AcquireStep(t) \/ ExitStep(t) PROVE ScanOK(t)'
  <2>1. CASE GuardStep(t)
    <3>1. ASSUME NEW g \in GuardId, Guarding(t, g)
          PROVE  pc[t] = "idle" /\ \E x \in {"publish", "entry"} : pc' = [pc EXCEPT ![t] = x]
      BY <3>1 DEF Guarding, EnsureHp
    <3>2. pc[t] = "idle" /\ \E x \in {"idle", "publish", "entry", "reset"} : pc' = [pc EXCEPT ![t] = x]
      BY <2>1, <3>1 DEF GuardStep, Reset, Copy, Move, Swap, Acquire, AcquireIfEqual, Unlink, Insert
    <3>3. idx' = idx
      BY <2>1 DEF GuardStep, Reset, Copy, Move, Swap, Acquire, AcquireIfEqual, Unlink, Insert, ResetOnly, Guarding
    <3> QED
      BY <1>0, <3>2, <3>3 DEF ScanOK, EmptyOK, TypeOK
  <2>2. CASE AcquireStep(t)
    <3>1. /\ pc[t] \in {"entry", "initialize", "publish", "validate"}
          /\ \E x \in {"entry", "initialize", "publish", "validate", "idle"} : pc' = [pc EXCEPT ![t] = x]
      BY <2>2 DEF AcquireStep, AdoptEntry, AddEntry, Initialize, Publish, Validate
    <3>2. idx' = idx
      BY <2>2 DEF AcquireStep, AdoptEntry, AddEntry, Initialize, Publish, Validate, ResetOnly
    <3> QED
      BY <1>0, <3>1, <3>2 DEF ScanOK, EmptyOK, TypeOK
  <2>3. CASE ExitStep(t)
    <3>1. /\ pc[t] \in {"idle", "abandon", "subtract", "release"}
          /\ \E x \in {"idle", "scan", "subtract", "release"} : pc' = [pc EXCEPT ![t] = x]
      BY <2>3 DEF ExitStep, Exit, Abandon, SubtractHps, ReleaseEntry
    <3>2. idx' = idx
      BY <2>3 DEF ExitStep, Exit, Abandon, SubtractHps, ReleaseEntry
    <3> QED
      BY <1>0, <3>1, <3>2 DEF ScanOK, EmptyOK, TypeOK
  <2> QED
    BY <1>1, <2>1, <2>2, <2>3
<1>2. ASSUME ReclaimReset(t) \/ Retire(t) \/ ScanAdopt(t) \/ ScanReturn(t) PROVE ScanOK(t)'
  <2>1. /\ pc[t] \in {"reset", "retire", "scan", "delete"}
        /\ \E x \in {"retire", "scan", "idle", "begin", "abandon"} : pc' = [pc EXCEPT ![t] = x]
    BY <1>0, <1>2 DEF ReclaimReset, Retire, ScanAdopt, ScanReturn, TypeOK
  <2>2. idx' = idx
    BY <1>2 DEF ReclaimReset, ResetOnly, Retire, ScanAdopt, ScanReturn
  <2> QED
    BY <1>0, <2>1, <2>2 DEF ScanOK, EmptyOK, TypeOK
<1>3. ASSUME ScanBegin(t) PROVE ScanOK(t)'
  <2>1. /\ pc'[t] = "block" /\ todo'[t] = blocks /\ UNCHANGED <<hp, block, pinned, idx, retired, adopted>>
        /\ idx'[t] = 1 /\ pending'[t] = {}
    BY <1>0, <1>3 DEF ScanBegin, ScanOK, EmptyOK, TypeOK
  <2>2. ASSUME NEW n, NEW v \in Thread, NEW i \in 1..K, HeldBy(v, i, n)'
        PROVE  Ahead(t, block[v], i)'
    <3>1. InBlocks(block[v])
      BY <1>0, <2>1, <2>2 DEF HeldBy, PinnedOK, Ready, BlocksOK
    <3> QED
      BY <2>1, <3>1 DEF InBlocks, Ahead
  <2> QED
    BY <2>1, <2>2 DEF ScanOK
<1>4. ASSUME ScanEntry(t) PROVE ScanOK(t)'
  <2>1. /\ pc[t] = "block" /\ idx'[t] = 1 /\ pending'[t] = {} /\ idx[t] = 1 /\ pending[t] = {}
        /\ UNCHANGED <<hp, block, pinned, retired, adopted, prot>>
    BY <1>0, <1>4 DEF ScanEntry, ScanOK, EmptyOK, TypeOK
  <2>2. CASE state[Head(todo[t])] = "active"
    <3>1. pc'[t] = "slot" /\ todo' = todo
      BY <1>0, <1>4, <2>2 DEF ScanEntry, NextEntry, TypeOK
    <3>2. \A i \in 1..K : i >= 1
      BY <1>0
    <3>3. \A n, v, i : HeldBy(v, i, n)' <=> HeldBy(v, i, n)
      BY <2>1 DEF HeldBy
    <3>4. ASSUME NEW v \in Thread, NEW i \in 1..K, Ahead(t, block[v], i) PROVE Ahead(t, block[v], i)'
      BY <2>1, <3>1, <3>2, <3>4 DEF Ahead
    <3> QED
      BY <1>0, <2>1, <3>1, <3>3, <3>4 DEF ScanOK
  <2>3. CASE state[Head(todo[t])] # "active"
    <3>1. NextEntry(t, pc[t])
      BY <1>4, <2>1, <2>3 DEF ScanEntry
    <3>2. \A n, v, i : v \in Thread /\ i \in 1..K /\ HeldBy(v, i, n) => block[v] # Head(todo[t])
      BY <1>0, <2>3 DEF HeldBy, PinnedOK, Ready, BlocksOK
    <3>3. /\ prot[t] \subseteq prot'[t] /\ pc[t] \in {"block", "slot"}
          /\ \A n \in retired[t] \union adopted[t], v \in Thread, i \in 1..K :
                HeldBy(v, i, n) /\ block[v] = Head(todo[t]) =>
                   n \in prot'[t] \/ (pc[t] = "slot" /\ i < idx[t])
      BY <2>1, <3>2
    <3> QED
      BY <2>1, <3>1, <3>3, ScanAdvance
  <2> QED
    BY <2>2, <2>3
<1>5. ASSUME ScanSlot(t) PROVE ScanOK(t)'
  <2>1. /\ pc[t] = "slot" /\ pending'[t] = {} /\ pending[t] = {} /\ idx[t] \in 1..K
        /\ UNCHANGED <<hp, block, pinned, retired, adopted>>
        /\ prot'[t] = prot[t] \union ({hp[Head(todo[t])][idx[t]]} \intersect Node)
    BY <1>0, <1>5 DEF ScanSlot, ScanSlotUpTo, EmptyOK, TypeOK
  <2>2. \A n, v, i : n \in Node /\ HeldBy(v, i, n) /\ block[v] = Head(todo[t]) /\ i = idx[t] => n \in prot'[t]
    BY <2>1 DEF HeldBy
  <2>3. retired[t] \union adopted[t] \subseteq Node
    BY <1>0 DEF TypeOK
  <2>4. CASE idx[t] < K /\ idx' = [idx EXCEPT ![t] = @ + 1] /\ pc' = [pc EXCEPT ![t] = "slot"] /\ todo' = todo
    <3>1. pc'[t] = "slot" /\ idx'[t] = idx[t] + 1
      BY <1>0, <2>4 DEF TypeOK
    <3>2. \A n, v, i : HeldBy(v, i, n)' <=> HeldBy(v, i, n)
      BY <2>1 DEF HeldBy
    <3>3. ASSUME NEW n \in retired[t] \union adopted[t], NEW v \in Thread, NEW i \in 1..K,
                 HeldBy(v, i, n), n \notin prot'[t]
          PROVE  Ahead(t, block[v], i)'
      <4>1. n \notin prot[t]
        BY <2>1, <3>3
      <4>2. Ahead(t, block[v], i)
        BY <1>0, <2>1, <3>3, <4>1 DEF ScanOK
      <4>3. PICK k \in 1..Len(todo[t]) : todo[t][k] = block[v] /\ (k = 1 => i >= idx[t])
        BY <2>1, <4>2 DEF Ahead
      <4>4. k = 1 => block[v] = Head(todo[t])
        BY <1>0, <2>1, <4>3, HeadTail DEF BlocksOK, TypeOK
      <4>5. k = 1 => i # idx[t]
        BY <2>2, <2>3, <3>3, <4>4
      <4>6. k = 1 => i >= idx[t] + 1
        BY <2>1, <4>3, <4>5
      <4> QED
        BY <2>1, <2>4, <3>1, <4>3, <4>6 DEF Ahead
    <3> QED
      BY <2>1, <3>1, <3>2, <3>3 DEF ScanOK
  <2>5. CASE idx[t] = K /\ idx' = [idx EXCEPT ![t] = 1] /\ NextEntry(t, "slot")
    <3>1. NextEntry(t, pc[t]) /\ idx'[t] = 1
      BY <1>0, <2>1, <2>5 DEF TypeOK
    <3>2. \A i \in 1..K : i = idx[t] \/ i < idx[t]
      BY <1>0, <2>5
    <3>3. \A n \in retired[t] \union adopted[t], v \in Thread, i \in 1..K :
             HeldBy(v, i, n) /\ block[v] = Head(todo[t]) => n \in prot'[t] \/ (pc[t] = "slot" /\ i < idx[t])
      BY <2>1, <2>2, <2>3, <3>2
    <3>4. prot[t] \subseteq prot'[t] /\ pc[t] \in {"block", "slot"}
      BY <2>1
    <3> QED
      BY <2>1, <3>1, <3>3, <3>4, ScanAdvance
  <2> QED
    BY <1>5, <2>4, <2>5 DEF ScanSlot, ScanSlotUpTo
<1>6. ASSUME ScanTake(t) PROVE ScanOK(t)'
  <2>1. /\ pc[t] = "take" /\ pc'[t] = "delete" /\ UNCHANGED <<hp, block, pinned, idx>> /\ idx[t] = 1
        /\ pending'[t] = (retired[t] \union adopted[t]) \ prot[t]
    BY <1>0, <1>6 DEF ScanTake, ScanOK, TypeOK
  <2>2. \A n \in retired[t] \union adopted[t], v \in Thread, i \in 1..K : HeldBy(v, i, n) => n \in prot[t]
    BY <1>0, <2>1 DEF ScanOK
  <2> QED
    BY <2>1, <2>2 DEF ScanOK, HeldBy
<1>7. ASSUME NEW m \in Node, ScanDelete(t, m) PROVE ScanOK(t)'
  <2>1. /\ pc[t] = "delete" /\ pc' = pc /\ UNCHANGED <<hp, block, pinned, idx>> /\ idx[t] = 1
        /\ pending'[t] \subseteq pending[t]
    BY <1>0, <1>7 DEF ScanDelete, ScanOK, TypeOK
  <2> QED
    BY <1>0, <2>1 DEF ScanOK, HeldBy
<1>8. ScanOK(t)'
  BY <1>1, <1>2, <1>3, <1>4, <1>5, <1>6, <1>7 DEF Step, ReclaimStep
<1> QED
  BY <1>8, ScanElsewhere

-----------------------------------------------------------------------------
(* The nodes of guards                                                     *)

LEMMA CopiesSame ==
  ASSUME NEW t \in Thread, Step(t)
  PROVE  copies' = copies
<1>1. CASE GuardStep(t)
  BY <1>1 DEF GuardStep, Reset, Copy, Move, Swap, Acquire, AcquireIfEqual, Unlink, Insert, ResetOnly, Guarding
<1>2. CASE AcquireStep(t)
  BY <1>2 DEF AcquireStep, AdoptEntry, AddEntry, Initialize, Publish, Validate, ResetOnly
<1>3. CASE ReclaimStep(t) \/ ExitStep(t)
  BY <1>3 DEF ReclaimStep, ExitStep, ReclaimReset, ResetOnly, Retire, ScanAdopt, ScanBegin, ScanEntry,
     ScanSlot, ScanSlotUpTo, ScanTake, ScanReturn, ScanDelete, Exit, Abandon, SubtractHps, ReleaseEntry
<1> QED
  BY <1>1, <1>2, <1>3 DEF Step

\* A node in a hazard pointer that keeps it from deletion, or that nobody can
\* delete: without copies, what a guard owns.
Safe(u, i, n) == \/ copies
                 \/ status[n] = "live"
                 \/ status[n] = "retired" /\ <<u, i>> \in pinned

LEMMA SafeSame ==
  ASSUME HInv, NEW t \in Thread, Step(t), NEW u \in Thread, NEW i \in 1..K, NEW n \in Node,
         Safe(u, i, n), block[u] # Null, hp[block[u]][i] = n,
         <<u, i>> \in pinned => <<u, i>> \in pinned'
  PROVE  Safe(u, i, n)'
<1> USE DEF Goto, nodes
<1>0. TypeOK /\ copies' = copies /\ ScanOK(t) /\ KeptOK
  BY CopiesSame DEF HInv
<1>1. CASE ~ClientStep(t)
  BY <1>0, <1>1, NoClientStep DEF Safe
<1>2. ASSUME NEW c \in Cell, NEW m \in Node, Insert(t, c, m) PROVE Safe(u, i, n)'
  <2>1. \A x \in Node : status'[x] = IF x = m THEN "live" ELSE status[x]
    BY <1>0, <1>2 DEF Insert, TypeOK
  <2> QED
    BY <1>0, <2>1 DEF Safe
<1>3. ASSUME NEW g \in GuardId, NEW c \in Cell, Unlink(t, g, c) PROVE Safe(u, i, n)'
  BY <1>0, <1>3 DEF Unlink, Safe
<1>4. ASSUME Retire(t) PROVE Safe(u, i, n)'
  <2>1. \A x \in Node : status'[x] = IF x = p1[t] THEN "retired" ELSE status[x]
    BY <1>0, <1>4 DEF Retire, TypeOK
  <2>2. n = p1[t] => <<u, i>> \in pinned'
    BY <1>4, RetirePins
  <2> QED
    BY <1>0, <2>1, <2>2 DEF Safe
<1>5. ASSUME NEW m \in Node, ScanDelete(t, m) PROVE Safe(u, i, n)'
  <2>1. m \in pending[t] /\ \A x \in Node : status'[x] = IF x = m THEN "free" ELSE status[x]
    BY <1>0, <1>5 DEF ScanDelete, TypeOK
  <2>2. status[m] = "retired"
    BY <1>0, <2>1 DEF KeptOK, Keeps
  <2>3. m = n /\ ~copies => FALSE
    BY <1>0, <2>1, <2>2 DEF ScanOK, HeldBy, Safe
  <2> QED
    BY <1>0, <2>1, <2>3 DEF Safe
<1> QED
  BY <1>1, <1>2, <1>3, <1>4, <1>5 DEF ClientStep

\* A guard that has what guard f had before the step
LEMMA GuardKept ==
  ASSUME HInv, NEW t \in Thread, Step(t), NEW u \in Thread, NEW f \in GuardId, NEW g \in GuardId,
         ptr'[u][g] = ptr[u][f], hpOf'[u][g] = hpOf[u][f], ~Busy(u, f),
         hpOf[u][f] # 0 => /\ block'[u] = block[u]
                           /\ hp'[block[u]][hpOf[u][f]] = hp[block[u]][hpOf[u][f]]
                           /\ <<u, hpOf[u][f]>> \in pinned => <<u, hpOf[u][f]>> \in pinned'
  PROVE  GuardOK(u, g)'
<1>0. GuardOK(u, f) /\ TypeOK
  BY DEF HInv
<1>1. CASE ptr[u][f] = Null
  BY <1>1 DEF GuardOK
<1>2. CASE ptr[u][f] # Null
  <2>1. /\ hpOf[u][f] # 0 /\ hp[block[u]][hpOf[u][f]] = ptr[u][f]
        /\ Safe(u, hpOf[u][f], ptr[u][f])
    BY <1>0, <1>2 DEF GuardOK, Safe
  <2>2. hpOf[u][f] \in 1..K /\ block[u] # Null /\ ptr[u][f] \in Node
    BY <1>0, <1>2, <2>1, SlotFacts DEF Ready, TypeOK
  <2>3. ASSUME NEW i \in 1..K, i = hpOf[u][f], NEW n \in Node, n = ptr[u][f] PROVE GuardOK(u, g)'
    <3>1. Safe(u, i, n)'
      BY <2>1, <2>2, <2>3, SafeSame
    <3> QED
      BY <2>1, <2>3, <3>1 DEF GuardOK, Safe
  <2> QED
    BY <2>2, <2>3
<1> QED
  BY <1>1, <1>2

LEMMA GuardElsewhere ==
  ASSUME HInv, NEW t \in Thread, Step(t), NEW u \in Thread \ {t}, NEW g \in GuardId
  PROVE  GuardOK(u, g)'
<1>0. TypeOK /\ CallOK(t) /\ GuardOK(u, g)
  BY DEF HInv
<1>1. /\ Same(u)
      /\ ptr'[u][g] = ptr[u][g] /\ hpOf'[u][g] = hpOf[u][g] /\ block'[u] = block[u]
      /\ Busy(u, g)' <=> Busy(u, g)
  BY OthersSame DEF Same, SameGuards, SameCall, Busy
<1>2. \A i : <<u, i>> \in pinned => <<u, i>> \in pinned'
  <2>1. ASSUME NEW j, SetObject(t, j, p1[t]) \/ ReleaseHp(t, j) PROVE \A i : <<u, i>> \in pinned => <<u, i>> \in pinned'
    BY <2>1 DEF SetObject, ReleaseHp
  <2>2. ASSUME Retire(t) \/ Initialize(t) PROVE \A i : <<u, i>> \in pinned => <<u, i>> \in pinned'
    BY <2>2 DEF Retire, Initialize
  <2>3. ASSUME Publish(t) PROVE SetObject(t, hpOf[t][gd[t]], p1[t])
    BY <2>3 DEF Publish
  <2> QED
    BY <2>1, <2>2, <2>3, HpSteps
<1>3. hpOf[u][g] # 0 => hp'[block[u]] = hp[block[u]]
  BY SlotFacts, HpUntouched DEF Ready
<1>4. CASE Busy(u, g)
  BY <1>0, <1>1, <1>4 DEF GuardOK
<1>5. CASE ~Busy(u, g)
  BY <1>1, <1>2, <1>3, <1>5, GuardKept
<1> QED
  BY <1>4, <1>5

\* A guard without a hazard pointer has no node.
LEMMA GuardNull ==
  ASSUME HInv, NEW t \in Thread, NEW g \in GuardId, hpOf[t][g] = 0
  PROVE  ptr[t][g] = Null
BY DEF HInv, GuardOK

\* The guards besides one that gives up its hazard pointer
LEMMA GuardsBesides ==
  ASSUME HInv, NEW t \in Thread, Step(t), NEW g \in GuardId, ReleaseHp(t, hpOf[t][g]), block' = block,
         NEW d \in GuardId \ {g}, NEW e \in GuardId,
         ptr'[t][e] = ptr[t][d], hpOf'[t][e] = hpOf[t][d], ~Busy(t, d)
  PROVE  GuardOK(t, e)'
<1>1. TypeOK /\ HpsOK(t)
  BY DEF HInv
<1>2. CASE hpOf[t][g] = 0
  BY <1>2, GuardKept DEF ReleaseHp
<1>3. CASE hpOf[t][g] # 0
  <2>1. hpOf[t][g] \in 1..K /\ block[t] \in Block /\ (hpOf[t][d] # 0 => hpOf[t][d] \in 1..K)
    BY <1>3, SlotFacts
  <2>2. hpOf[t][d] # 0 => hpOf[t][d] # hpOf[t][g]
    BY <1>1 DEF HpsOK
  <2>3. ASSUME NEW i \in 1..K, i = hpOf[t][g]
        PROVE  /\ \A j \in 1..K \ {i} : hp'[block[t]][j] = hp[block[t]][j]
               /\ pinned' = pinned \ {<<t, i>>}
    <3>1. ReleaseHp(t, i)
      BY <2>3
    <3> QED
      BY <1>1, <2>1, <3>1, ReleaseHpEffect
  <2>4. hpOf[t][d] # 0 => /\ hp'[block[t]][hpOf[t][d]] = hp[block[t]][hpOf[t][d]]
                          /\ <<t, hpOf[t][d]>> \in pinned => <<t, hpOf[t][d]>> \in pinned'
    BY <2>1, <2>2, <2>3
  <2> QED
    BY <2>4, GuardKept
<1> QED
  BY <1>2, <1>3

LEMMA GuardOwnReset ==
  ASSUME HInv, NEW t \in Thread, Step(t), NEW g \in GuardId, ResetGuard(t, g), block' = block,
         \A d \in GuardId \ {g} : ~Busy(t, d)
  PROVE  \A d \in GuardId : GuardOK(t, d)'
<1>1. TypeOK
  BY DEF HInv
<1>2. /\ ReleaseHp(t, hpOf[t][g])
      /\ \A d \in GuardId : ptr'[t][d] = IF d = g THEN Null ELSE ptr[t][d]
      /\ \A d \in GuardId : hpOf'[t][d] = IF d = g THEN 0 ELSE hpOf[t][d]
  BY <1>1 DEF ResetGuard, TypeOK
<1>3. GuardOK(t, g)'
  BY <1>2 DEF GuardOK
<1>4. ASSUME NEW d \in GuardId \ {g} PROVE GuardOK(t, d)'
  BY <1>2, <1>4, GuardsBesides
<1> QED
  BY <1>3, <1>4

LEMMA GuardOwnGuarding ==
  ASSUME HInv, NEW t \in Thread, Step(t), NEW g \in GuardId, Guarding(t, g), gd'[t] = g
  PROVE  \A d \in GuardId : GuardOK(t, d)'
<1> USE DEF Goto, global, nodes
<1>0. TypeOK /\ HpsOK(t)
  BY DEF HInv
<1>1. pc[t] = "idle" /\ ptr' = ptr /\ UNCHANGED <<hp, block, pinned>>
  BY DEF Guarding, EnsureHp
<1>2. \A d \in GuardId \ {g} : hpOf'[t][d] = hpOf[t][d]
  BY <1>0 DEF Guarding, EnsureHp, TypeOK
<1>3. \A d \in GuardId : ~Busy(t, d)
  BY <1>1 DEF Busy
<1>4. ASSUME NEW d \in GuardId \ {g} PROVE GuardOK(t, d)'
  BY <1>1, <1>2, <1>3, GuardKept
<1>5. CASE hpOf' = hpOf
  BY <1>1, <1>3, <1>4, <1>5, GuardKept
<1>6. CASE hpOf[t][g] = 0
  <2>1. ptr[t][g] = Null
    BY <1>6, GuardNull
  <2>2. GuardOK(t, g)'
    BY <1>1, <2>1 DEF GuardOK
  <2> QED
    BY <1>4, <2>2
<1> QED
  BY <1>5, <1>6 DEF Guarding, EnsureHp

LEMMA GuardOwnGuardStep ==
  ASSUME HInv, NEW t \in Thread, GuardStep(t)
  PROVE  \A d \in GuardId : GuardOK(t, d)'
<1> USE DEF Goto, own, global
<1>0. TypeOK /\ HpsOK(t) /\ Step(t)
  BY DEF HInv, Step
<1>1. ASSUME NEW g \in GuardId, Reset(t, g) PROVE \A d \in GuardId : GuardOK(t, d)'
  <2>1. \A d \in GuardId : ~Busy(t, d)
    BY <1>1 DEF Reset, Busy
  <2> QED
    BY <1>0, <1>1, <2>1, GuardOwnReset DEF Reset, ResetOnly
<1>2. ASSUME NEW f \in GuardId, NEW g \in GuardId, Move(t, f, g) PROVE \A d \in GuardId : GuardOK(t, d)'
  <2>1. /\ \A d \in GuardId : ~Busy(t, d)
        /\ ReleaseHp(t, hpOf[t][g]) /\ block' = block /\ f # g
    BY <1>2 DEF Move, ResetOnly, Busy
  <2>2. /\ \A d \in GuardId : ptr'[t][d] = IF d = f THEN Null ELSE IF d = g THEN ptr[t][f] ELSE ptr[t][d]
        /\ \A d \in GuardId : hpOf'[t][d] = IF d = f THEN 0 ELSE IF d = g THEN hpOf[t][f] ELSE hpOf[t][d]
    BY <1>0, <1>2 DEF Move, TypeOK
  <2>3. GuardOK(t, f)'
    BY <2>2 DEF GuardOK
  <2>4. GuardOK(t, g)'
    <3>1. ptr'[t][g] = ptr[t][f] /\ hpOf'[t][g] = hpOf[t][f]
      BY <2>1, <2>2
    <3> QED
      BY <1>0, <2>1, <3>1, GuardsBesides
  <2>5. ASSUME NEW d \in GuardId \ {f, g} PROVE GuardOK(t, d)'
    <3>1. ptr'[t][d] = ptr[t][d] /\ hpOf'[t][d] = hpOf[t][d]
      BY <2>2
    <3> QED
      BY <1>0, <2>1, <3>1, GuardsBesides
  <2> QED
    BY <2>3, <2>4, <2>5
<1>3. ASSUME NEW f \in GuardId, NEW g \in GuardId, Swap(t, f, g) PROVE \A d \in GuardId : GuardOK(t, d)'
  <2>1. (\A d \in GuardId : ~Busy(t, d)) /\ UNCHANGED <<hp, pinned, block>>
    BY <1>3 DEF Swap, ResetOnly, Busy
  <2>2. \A d \in GuardId : \E e \in GuardId : ptr'[t][d] = ptr[t][e] /\ hpOf'[t][d] = hpOf[t][e]
    <3>1. /\ \A d \in GuardId : ptr'[t][d] = IF d = f THEN ptr[t][g] ELSE IF d = g THEN ptr[t][f] ELSE ptr[t][d]
          /\ \A d \in GuardId : hpOf'[t][d] = IF d = f THEN hpOf[t][g] ELSE IF d = g THEN hpOf[t][f] ELSE hpOf[t][d]
      BY <1>0, <1>3 DEF Swap, TypeOK
    <3> QED
      BY <3>1
  <2>3. ASSUME NEW d \in GuardId, NEW e \in GuardId, ptr'[t][d] = ptr[t][e], hpOf'[t][d] = hpOf[t][e]
        PROVE  GuardOK(t, d)'
    BY <1>0, <2>1, <2>3, GuardKept
  <2> QED
    BY <2>2, <2>3
<1>4. ASSUME NEW g \in GuardId, NEW o, NEW c, NEW n, Call(t, o, g, c, n), Guarding(t, g)
      PROVE  \A d \in GuardId : GuardOK(t, d)'
  BY <1>0, <1>4, GuardOwnGuarding DEF Call, TypeOK
<1>5. ASSUME pc[t] = "idle", UNCHANGED <<hp, pinned, block, ptr, hpOf>>
      PROVE  \A d \in GuardId : GuardOK(t, d)'
  BY <1>0, <1>5, GuardKept DEF Busy
<1>6. ASSUME NEW g \in GuardId, NEW c \in Cell, Unlink(t, g, c) PROVE \A d \in GuardId : GuardOK(t, d)'
  BY <1>5, <1>6 DEF Unlink
<1>7. ASSUME NEW c \in Cell, NEW n \in Node, Insert(t, c, n) PROVE \A d \in GuardId : GuardOK(t, d)'
  BY <1>5, <1>7 DEF Insert
<1> QED
  BY <1>1, <1>2, <1>3, <1>4, <1>6, <1>7 DEF GuardStep, Copy, Acquire, AcquireIfEqual

LEMMA GuardOwnAcquireStep ==
  ASSUME HInv, NEW t \in Thread, AcquireStep(t)
  PROVE  \A d \in GuardId : GuardOK(t, d)'
<1> USE DEF Goto, own, global
<1>0. TypeOK /\ HpsOK(t) /\ CallOK(t) /\ CellOK /\ BlocksOK(t) /\ Step(t) /\ copies' = copies
  BY CopiesSame DEF HInv, Step
<1>1. ASSUME ~Ready(t), ptr' = ptr PROVE \A d \in GuardId : GuardOK(t, d)'
  <2>1. \A d \in GuardId : hpOf[t][d] = 0
    BY <1>0, <1>1 DEF HpsOK
  <2>2. \A d \in GuardId : ptr[t][d] = Null
    BY <2>1, GuardNull
  <2> QED
    BY <1>1, <2>2 DEF GuardOK
<1>2. CASE AdoptEntry(t) \/ Initialize(t) \/ \E b \in Block : AddEntry(t, b)
  BY <1>0, <1>1, <1>2 DEF AdoptEntry, Initialize, AddEntry, Ready, BlocksOK
<1>3. ASSUME Publish(t), NEW i, i = hpOf[t][gd[t]], NEW g, g = gd[t] PROVE \A d \in GuardId : GuardOK(t, d)'
  <2>1. g \in GuardId /\ i \in 1..K /\ block[t] \in Block /\ p1[t] \in Node \union {Null} /\ i # 0
    BY <1>0, <1>3, SlotFacts DEF Publish, CallOK, TypeOK
  <2>2. SetObject(t, i, p1[t]) /\ UNCHANGED <<block, hpOf>> /\ pc[t] = "publish"
    BY <1>3 DEF Publish
  <2>3. /\ hp'[block[t]][i] = p1[t]
        /\ \A j \in 1..K \ {i} : hp'[block[t]][j] = hp[block[t]][j]
        /\ \A h \in pinned : h # <<t, i>> => h \in pinned'
    <3>1. ASSUME NEW j \in 1..K, NEW n \in Node \union {Null}, SetObject(t, j, n)
          PROVE  /\ hp'[block[t]][j] = n
                 /\ \A k \in 1..K \ {j} : hp'[block[t]][k] = hp[block[t]][k]
                 /\ \A h \in pinned : h # <<t, j>> => h \in pinned'
      BY <1>0, <2>1, <3>1 DEF SetObject, TypeOK
    <3> QED
      BY <2>1, <2>2, <3>1
  <2>4. ASSUME NEW d \in GuardId \ {g} PROVE GuardOK(t, d)'
    <3>1. ptr'[t][d] = ptr[t][d] /\ ~Busy(t, d)
      BY <1>0, <1>3, <2>1 DEF Publish, Busy, TypeOK
    <3>2. hpOf[t][d] # 0 => hpOf[t][d] \in 1..K \ {i}
      BY <1>0, <1>3, <2>1, SlotFacts DEF HpsOK
    <3> QED
      BY <1>0, <2>2, <2>3, <3>1, <3>2, GuardKept
  <2>5. CASE op[t] = "copy"
    <3>1. copies /\ ptr'[t][g] = p1[t]
      BY <1>0, <1>3, <2>1, <2>5 DEF Publish, CallOK, TypeOK
    <3>2. GuardOK(t, g)'
      BY <1>0, <1>3, <2>1, <2>2, <2>3, <3>1 DEF GuardOK
    <3> QED
      BY <2>4, <3>2
  <2>6. CASE op[t] # "copy"
    <3>1. pc'[t] = "validate" /\ gd'[t] = g
      BY <1>0, <1>3, <2>6 DEF Publish, call, TypeOK
    <3>2. GuardOK(t, g)'
      BY <1>3, <2>1, <2>2, <3>1 DEF GuardOK, Busy
    <3> QED
      BY <2>4, <3>2
  <2> QED
    BY <2>5, <2>6
<1>4. ASSUME Validate(t), NEW i, i = hpOf[t][gd[t]], NEW g, g = gd[t] PROVE \A d \in GuardId : GuardOK(t, d)'
  <2>1. /\ g \in GuardId /\ i # 0 /\ hp[block[t]][i] = p1[t] /\ p1[t] \in Node /\ src[t] \in Cell
        /\ op[t] # "copy" /\ block' = block /\ pc[t] = "validate" /\ UNCHANGED <<cell, status>>
    BY <1>0, <1>4 DEF Validate, CallOK, ResetOnly, nodes
  <2>2. \A d \in GuardId \ {g} : ~Busy(t, d)
    BY <1>4 DEF Busy
  <2>3. CASE ResetGuard(t, gd[t])
    BY <1>0, <1>4, <2>1, <2>2, <2>3, GuardOwnReset
  <2>4. CASE /\ cell[src[t]] = p1[t] /\ ptr' = [ptr EXCEPT ![t][gd[t]] = cell[src[t]]]
             /\ UNCHANGED <<hp, hint, hpOf, pinned>>
    <3>1. status[p1[t]] = "live" /\ ptr'[t][g] = p1[t] /\ \A d \in GuardId \ {g} : ptr'[t][d] = ptr[t][d]
      BY <1>0, <1>4, <2>1, <2>4, HPNullAssumption DEF CellOK, TypeOK
    <3>2. GuardOK(t, g)'
      BY <1>4, <2>1, <2>4, <3>1 DEF GuardOK
    <3>3. ASSUME NEW d \in GuardId \ {g} PROVE GuardOK(t, d)'
      BY <1>0, <2>1, <2>2, <2>4, <3>1, GuardKept
    <3> QED
      BY <3>2, <3>3
  <2>5. CASE pc' = [pc EXCEPT ![t] = "publish"] /\ UNCHANGED <<hp, hint, hpOf, ptr, pinned, op, gd, src>>
    <3>1. GuardOK(t, g)'
      BY <1>0, <1>4, <2>1, <2>5 DEF GuardOK, Busy, TypeOK
    <3>2. ASSUME NEW d \in GuardId \ {g} PROVE GuardOK(t, d)'
      BY <1>0, <2>1, <2>2, <2>5, GuardKept
    <3> QED
      BY <3>1, <3>2
  <2> QED
    BY <1>4, <2>3, <2>4, <2>5 DEF Validate
<1> QED
  BY <1>2, <1>3, <1>4 DEF AcquireStep

LEMMA GuardOwnReclaimStep ==
  ASSUME HInv, NEW t \in Thread, ReclaimStep(t) \/ ExitStep(t)
  PROVE  \A d \in GuardId : GuardOK(t, d)'
<1> USE DEF Goto, own, global
<1>0. TypeOK /\ CallOK(t) /\ ExitOK(t) /\ Step(t)
  BY DEF HInv, Step
<1>1. \A d \in GuardId : ~Busy(t, d)
  BY DEF ReclaimStep, ExitStep, ReclaimReset, Retire, ScanAdopt, ScanBegin, ScanEntry, ScanSlot,
     ScanSlotUpTo, ScanTake, ScanReturn, ScanDelete, Exit, Abandon, SubtractHps, ReleaseEntry, Busy
<1>2. CASE ReclaimReset(t)
  <2>1. gd[t] \in GuardId /\ ResetGuard(t, gd[t]) /\ block' = block
    BY <1>0, <1>2 DEF ReclaimReset, ResetOnly, CallOK
  <2> QED
    BY <1>0, <1>1, <2>1, GuardOwnReset
<1>3. CASE ReleaseEntry(t)
  <2>1. \A d \in GuardId : hpOf[t][d] = 0
    BY <1>0, <1>3 DEF ReleaseEntry, ExitOK
  <2>2. \A d \in GuardId : ptr[t][d] = Null
    BY <2>1, GuardNull
  <2> QED
    BY <1>3, <2>2 DEF ReleaseEntry, GuardOK
<1>4. CASE ~ReclaimReset(t) /\ ~ReleaseEntry(t)
  <2>1. UNCHANGED <<hp, hpOf, ptr, block>>
    BY <1>4 DEF ReclaimStep, ExitStep, Retire, ScanAdopt, ScanBegin, ScanEntry, ScanSlot,
       ScanSlotUpTo, ScanTake, ScanReturn, ScanDelete, Exit, Abandon, SubtractHps
  <2>2. pinned \subseteq pinned'
    BY <1>4 DEF ReclaimStep, ExitStep, Retire, ScanAdopt, ScanBegin, ScanEntry, ScanSlot,
       ScanSlotUpTo, ScanTake, ScanReturn, ScanDelete, Exit, Abandon, SubtractHps
  <2> QED
    BY <1>0, <1>1, <2>1, <2>2, GuardKept
<1> QED
  BY <1>2, <1>3, <1>4

LEMMA GuardNext ==
  ASSUME HInv, NEW t \in Thread, Step(t)
  PROVE  \A u \in Thread : \A g \in GuardId : GuardOK(u, g)'
BY GuardElsewhere, GuardOwnGuardStep, GuardOwnAcquireStep, GuardOwnReclaimStep DEF Step

-----------------------------------------------------------------------------
(* The operations under way                                                *)

LEMMA CallElsewhere ==
  ASSUME HInv, NEW t \in Thread, Step(t), NEW u \in Thread \ {t}
  PROVE  CallOK(u)' /\ ExitOK(u)'
<1>0. CallOK(u) /\ ExitOK(u) /\ copies' = copies /\ Same(u)
  BY OthersSame, CopiesSame DEF HInv
<1>1. /\ pc'[u] = pc[u] /\ gd'[u] = gd[u] /\ op'[u] = op[u] /\ src'[u] = src[u] /\ p1'[u] = p1[u]
      /\ hpOf'[u] = hpOf[u] /\ block'[u] = block[u] /\ after'[u] = after[u]
  BY <1>0 DEF Same, SameCall, SameGuards, SameScan
<1>2. pc[u] = "validate" => hp'[block[u]] = hp[block[u]]
  BY HpUntouched DEF HInv, BlocksOK
<1> QED
  BY <1>0, <1>1, <1>2 DEF CallOK, ExitOK

LEMMA CallGuardStep ==
  ASSUME HInv, NEW t \in Thread, GuardStep(t)
  PROVE  CallOK(t)'
<1> USE DEF Goto
<1>0. TypeOK /\ CallOK(t) /\ HpsOK(t) /\ Null \notin Node
  BY HPNullAssumption DEF HInv
<1>1. ASSUME NEW g \in GuardId, NEW o \in {"acquire", "if_equal", "copy"}, NEW c, NEW n,
             Call(t, o, g, c, n), Guarding(t, g),
             o # "copy" => c \in Cell /\ n \in Node, o = "copy" => copies
      PROVE  CallOK(t)'
  <2>1. op'[t] = o /\ gd'[t] = g /\ src'[t] = c /\ p1'[t] = n /\ copies' = copies
    BY <1>0, <1>1 DEF Call, Guarding, TypeOK
  <2>2. pc'[t] \in {"publish", "entry"}
    BY <1>0, <1>1 DEF Guarding, EnsureHp, TypeOK
  <2>3. pc'[t] = "publish" => hpOf'[t][g] # 0
    <3>1. CASE hpOf[t][g] # 0
      BY <1>1, <3>1 DEF Guarding, EnsureHp
    <3>2. ASSUME hpOf[t][g] = 0, block[t] # Null, hint[t] # << >>,
                 NEW i, i = Head(hint[t]), hpOf' = [hpOf EXCEPT ![t][g] = i]
          PROVE  hpOf'[t][g] # 0
      <4>1. i \in 1..K
        BY <1>0, <3>2, HeadTail DEF TypeOK
      <4>2. hpOf'[t][g] = i
        BY <1>0, <3>2 DEF TypeOK
      <4> QED
        BY <4>1, <4>2, KAssumption
    <3>3. CASE pc' = [pc EXCEPT ![t] = "entry"]
      BY <1>0, <3>3 DEF TypeOK
    <3> QED
      BY <1>1, <3>1, <3>2, <3>3 DEF Guarding, EnsureHp
  <2> QED
    BY <1>1, <2>1, <2>2, <2>3 DEF CallOK
<1>2. ASSUME NEW f \in GuardId, NEW g \in GuardId, Copy(t, f, g) PROVE CallOK(t)'
  BY <1>1, <1>2 DEF Copy
<1>3. ASSUME NEW g \in GuardId, NEW c \in Cell, Acquire(t, g, c) \/ AcquireIfEqual(t, g, c)
      PROVE  CallOK(t)'
  <2>1. cell[c] \in Node
    BY <1>0, <1>3 DEF Acquire, AcquireIfEqual, TypeOK
  <2> QED
    BY <1>1, <1>3, <2>1 DEF Acquire, AcquireIfEqual
<1>4. ASSUME NEW g \in GuardId, NEW c \in Cell, Unlink(t, g, c) PROVE CallOK(t)'
  BY <1>0, <1>4 DEF Unlink, Call, CallOK, TypeOK
<1>5. ASSUME pc[t] = "idle", pc' = [pc EXCEPT ![t] = "idle"] PROVE CallOK(t)'
  BY <1>0, <1>5 DEF CallOK, TypeOK
<1> QED
  BY <1>2, <1>3, <1>4, <1>5 DEF GuardStep, Reset, Move, Swap, Insert

LEMMA CallAcquireStep ==
  ASSUME HInv, NEW t \in Thread, AcquireStep(t)
  PROVE  CallOK(t)'
<1> USE DEF Goto, call
<1>0. TypeOK /\ CallOK(t) /\ Step(t) /\ copies' = copies
  BY CopiesSame DEF HInv, Step
<1>1. CASE AdoptEntry(t) \/ \E b \in Block : AddEntry(t, b)
  <2>1. /\ pc[t] = "entry" /\ UNCHANGED <<op, gd, src, p1>>
        /\ \E x \in {"entry", "initialize"} : pc' = [pc EXCEPT ![t] = x]
    BY <1>1 DEF AdoptEntry, AddEntry
  <2> QED
    BY <1>0, <2>1 DEF CallOK, TypeOK
<1>2. CASE Initialize(t)
  <2>1. pc'[t] = "publish" /\ pc[t] = "initialize" /\ UNCHANGED <<op, gd, src, p1>> /\ gd[t] \in GuardId
    BY <1>0, <1>2 DEF Initialize, CallOK, TypeOK
  <2>2. hpOf'[t][gd[t]] = 1
    BY <1>0, <1>2, <2>1 DEF Initialize, TypeOK
  <2> QED
    BY <1>0, <2>1, <2>2 DEF CallOK
<1>3. ASSUME Publish(t), NEW i, i = hpOf[t][gd[t]] PROVE CallOK(t)'
  <2>1. gd[t] \in GuardId /\ i \in 1..K /\ block[t] \in Block /\ p1[t] \in Node \union {Null} /\ pc[t] = "publish"
    BY <1>0, <1>3, SlotFacts DEF Publish, CallOK, TypeOK
  <2>2. hp'[block[t]][i] = p1[t] /\ UNCHANGED <<block, hpOf>>
    <3>1. hp' = [hp EXCEPT ![block[t]][i] = p1[t]] /\ UNCHANGED <<block, hpOf>>
      BY <1>3 DEF Publish, SetObject
    <3>2. hp \in [Block -> [1..K -> Node \union {Null, Link}]]
      BY <1>0 DEF TypeOK
    <3> QED
      BY <2>1, <3>1, <3>2
  <2>3. CASE op[t] = "copy"
    BY <1>0, <1>3, <2>3 DEF Publish, CallOK, TypeOK
  <2>4. CASE op[t] # "copy"
    <3>1. pc'[t] = "validate" /\ UNCHANGED <<op, gd, src, p1>>
      BY <1>0, <1>3, <2>4 DEF Publish, TypeOK
    <3> QED
      BY <1>0, <1>3, <2>1, <2>2, <2>4, <3>1 DEF CallOK
  <2> QED
    BY <2>3, <2>4
<1>4. CASE Validate(t)
  <2>1. CASE pc' = [pc EXCEPT ![t] = "idle"]
    BY <1>0, <2>1 DEF CallOK, TypeOK
  <2>2. CASE /\ cell[src[t]] # Null /\ pc' = [pc EXCEPT ![t] = "publish"]
             /\ p1' = [p1 EXCEPT ![t] = cell[src[t]]]
             /\ UNCHANGED <<hp, hint, hpOf, ptr, pinned, op, gd, src>>
    <3>1. pc[t] = "validate" /\ src[t] \in Cell
      BY <1>0, <1>4 DEF Validate, CallOK
    <3>2. pc'[t] = "publish" /\ p1'[t] = cell[src[t]] /\ cell[src[t]] \in Node
      BY <1>0, <2>2, <3>1 DEF TypeOK
    <3> QED
      BY <1>0, <2>2, <3>1, <3>2 DEF CallOK
  <2> QED
    BY <1>4, <2>1, <2>2 DEF Validate
<1> QED
  BY <1>1, <1>2, <1>3, <1>4 DEF AcquireStep

LEMMA CallReclaimStep ==
  ASSUME HInv, NEW t \in Thread, ReclaimStep(t) \/ ExitStep(t)
  PROVE  CallOK(t)'
<1> USE DEF Goto
<1>0. TypeOK
  BY DEF HInv
<1>1. pc'[t] \notin {"entry", "initialize", "publish", "validate", "reset"}
  <2>1. CASE ScanReturn(t)
    BY <1>0, <2>1 DEF ScanReturn, TypeOK
  <2>2. ASSUME NEW n \in Node, ScanDelete(t, n) PROVE pc'[t] \notin {"entry", "initialize", "publish", "validate", "reset"}
    BY <2>2 DEF ScanDelete
  <2>3. ASSUME ~ScanReturn(t), ~\E n \in Node : ScanDelete(t, n)
        PROVE  \E x \in {"retire", "scan", "idle", "begin", "block", "slot", "take", "delete",
                         "subtract", "release"} : pc' = [pc EXCEPT ![t] = x]
    BY <2>3 DEF ReclaimStep, ExitStep, ReclaimReset, Retire, ScanAdopt, ScanBegin, ScanEntry, ScanSlot,
       ScanSlotUpTo, NextEntry, ScanTake, Exit, Abandon, SubtractHps, ReleaseEntry
  <2> QED
    BY <1>0, <2>1, <2>2, <2>3 DEF TypeOK
<1> QED
  BY <1>1 DEF CallOK

LEMMA ExitOwn ==
  ASSUME HInv, NEW t \in Thread, Step(t)
  PROVE  ExitOK(t)'
<1> USE DEF Goto, own, scanning
<1>0. TypeOK /\ ExitOK(t)
  BY DEF HInv
<1>1. CASE GuardStep(t)
  <2>1. ASSUME NEW g \in GuardId, Guarding(t, g)
        PROVE  pc[t] = "idle" /\ \E x \in {"publish", "entry"} : pc' = [pc EXCEPT ![t] = x]
    BY <2>1 DEF Guarding, EnsureHp
  <2>2. pc[t] = "idle" /\ \E x \in {"idle", "publish", "entry", "reset"} : pc' = [pc EXCEPT ![t] = x]
    BY <1>1, <2>1 DEF GuardStep, Reset, Copy, Move, Swap, Acquire, AcquireIfEqual, Unlink, Insert
  <2>3. after' = after
    BY <1>1 DEF GuardStep, Reset, Copy, Move, Swap, Acquire, AcquireIfEqual, Unlink, Insert, ResetOnly, Guarding
  <2> QED
    BY <1>0, <2>2, <2>3 DEF ExitOK, TypeOK
<1>2. CASE AcquireStep(t)
  <2>1. /\ pc[t] \in {"entry", "initialize", "publish", "validate"}
        /\ \E x \in {"entry", "initialize", "publish", "validate", "idle"} : pc' = [pc EXCEPT ![t] = x]
    BY <1>2 DEF AcquireStep, AdoptEntry, AddEntry, Initialize, Publish, Validate
  <2>2. after' = after
    BY <1>2 DEF AcquireStep, AdoptEntry, AddEntry, Initialize, Publish, Validate, ResetOnly
  <2> QED
    BY <1>0, <2>1, <2>2 DEF ExitOK, TypeOK
<1>3. CASE ReclaimStep(t)
  <2>1. CASE ReclaimReset(t) \/ Retire(t)
    <3>1. /\ pc[t] \in {"reset", "retire"} /\ after' = after
          /\ \E x \in {"retire", "scan", "idle"} : pc' = [pc EXCEPT ![t] = x]
      BY <2>1 DEF ReclaimReset, ResetOnly, Retire
    <3> QED
      BY <1>0, <3>1 DEF ExitOK, TypeOK
  <2>2. CASE ScanAdopt(t) \/ ScanBegin(t) \/ ScanEntry(t) \/ ScanSlot(t) \/ ScanTake(t)
    <3>1. /\ pc[t] \in {"scan", "begin", "block", "slot", "take"} /\ UNCHANGED <<after, hpOf>>
          /\ \E x \in {"begin", "block", "slot", "take", "delete"} : pc' = [pc EXCEPT ![t] = x]
      BY <2>2 DEF ScanAdopt, ScanBegin, ScanEntry, ScanSlot, ScanSlotUpTo, NextEntry, ScanTake
    <3> QED
      BY <1>0, <3>1 DEF ExitOK, TypeOK
  <2>3. CASE \E n \in Node : ScanDelete(t, n)
    BY <1>0, <2>3 DEF ScanDelete, ExitOK
  <2>4. CASE ScanReturn(t)
    <3>1. after'[t] = "idle" /\ pc'[t] = after[t] /\ hpOf' = hpOf
      BY <1>0, <2>4 DEF ScanReturn, TypeOK
    <3>2. after[t] \in {"idle", "abandon"}
      BY <1>0 DEF TypeOK
    <3> QED
      BY <1>0, <3>1, <3>2 DEF ExitOK
  <2> QED
    BY <1>3, <2>1, <2>2, <2>3, <2>4 DEF ReclaimStep
<1>4. CASE ExitStep(t)
  <2>1. CASE Exit(t)
    <3>1. (\A g \in GuardId : hpOf[t][g] = 0) /\ hpOf' = hpOf /\ pc'[t] \in {"scan", "subtract"}
      BY <1>0, <2>1 DEF Exit, TypeOK
    <3>2. after'[t] = "abandon" => pc'[t] = "scan"
      <4>1. pc[t] = "idle"
        BY <2>1 DEF Exit
      <4> QED
        BY <1>0, <2>1, <4>1 DEF Exit, ExitOK, TypeOK
    <3> QED
      BY <3>1, <3>2 DEF ExitOK
  <2>2. CASE Abandon(t) \/ SubtractHps(t) \/ ReleaseEntry(t)
    <3>1. /\ pc[t] \in {"abandon", "subtract", "release"} /\ UNCHANGED <<after, hpOf>>
          /\ \E x \in {"subtract", "release", "idle"} : pc' = [pc EXCEPT ![t] = x]
      BY <2>2 DEF Abandon, SubtractHps, ReleaseEntry
    <3> QED
      BY <1>0, <3>1 DEF ExitOK, TypeOK
  <2> QED
    BY <1>4, <2>1, <2>2 DEF ExitStep
<1> QED
  BY <1>1, <1>2, <1>3, <1>4 DEF Step

LEMMA CallNext ==
  ASSUME HInv, NEW t \in Thread, Step(t)
  PROVE  \A u \in Thread : CallOK(u)' /\ ExitOK(u)'
<1>1. CallOK(t)'
  BY CallGuardStep, CallAcquireStep, CallReclaimStep DEF Step
<1> QED
  BY <1>1, ExitOwn, CallElsewhere

-----------------------------------------------------------------------------
(* The invariance of HInv                                                  *)

LEMMA HInvInit == Init => HInv
<1> SUFFICES ASSUME Init PROVE HInv
  OBVIOUS
<1> USE DEF Init
<1>1. TypeOK
  BY TypeInit
<1>2. UnusedOK /\ PinnedOK /\ CellOK /\ KeptOK
  BY HPNullAssumption DEF UnusedOK, PinnedOK, CellOK, KeptOK, Keeps
<1>3. CountOK
  <2>1. Counted = {}
    BY DEF Counted
  <2>2. IsFiniteSet({}) /\ Cardinality({}) = 0 /\ K * 0 = 0
    BY FS_EmptySet, KAssumption
  <2> QED
    BY <2>1, <2>2 DEF CountOK
<1>4. ASSUME NEW t \in Thread
      PROVE  /\ BlocksOK(t) /\ HpsOK(t) /\ ClaimOK(t) /\ EmptyOK(t)
             /\ ScanOK(t) /\ CallOK(t) /\ ExitOK(t)
             /\ \A g \in GuardId : GuardOK(t, g)
  <2>1. Len(<< >>) = 0 /\ 1..0 = {}
    OBVIOUS
  <2>2. BlocksOK(t)
    BY <2>1 DEF BlocksOK
  <2>3. HpsOK(t) /\ ClaimOK(t) /\ EmptyOK(t) /\ ScanOK(t) /\ CallOK(t) /\ ExitOK(t)
    BY DEF HpsOK, Ready, ClaimOK, ClaimPC, EmptyOK, ScanOK, CallOK, ExitOK
  <2>4. \A g \in GuardId : GuardOK(t, g)
    BY DEF GuardOK
  <2> QED
    BY <2>2, <2>3, <2>4
<1> QED
  BY <1>1, <1>2, <1>3, <1>4 DEF HInv

LEMMA HInvNext == HInv /\ [Next]_vars => HInv'
<1> SUFFICES ASSUME HInv, [Next]_vars PROVE HInv'
  OBVIOUS
<1>1. ASSUME NEW t \in Thread, Step(t) PROVE HInv'
  <2>1. TypeOK'
    BY <1>1, TypeNext
  <2>2. UnusedOK' /\ PinnedOK' /\ CountOK' /\ CellOK' /\ KeptOK'
    BY <1>1, UnusedNext, PinnedNext, CountNext, CellNext, KeptNext
  <2>3. \A u \in Thread : BlocksOK(u)' /\ HpsOK(u)' /\ ClaimOK(u)' /\ EmptyOK(u)'
    BY <1>1, BlocksNext, HpsNext, CellNext, EmptyNext
  <2>4. \A u \in Thread : ScanOK(u)' /\ CallOK(u)' /\ ExitOK(u)' /\ \A g \in GuardId : GuardOK(u, g)'
    BY <1>1, ScanNext, CallNext, GuardNext
  <2> QED
    BY <2>1, <2>2, <2>3, <2>4 DEF HInv
<1>2. CASE UNCHANGED vars
  <2> USE <1>2 DEF vars, nodes, global, own, scanning, call
  <2>1. TypeOK' /\ UnusedOK' /\ PinnedOK' /\ CountOK' /\ CellOK' /\ KeptOK'
    BY DEF HInv, TypeOK, UnusedOK, PinnedOK, CountOK, Counted, Ready, CellOK, KeptOK, Keeps
  <2>2. ASSUME NEW t \in Thread
        PROVE  BlocksOK(t)' /\ HpsOK(t)' /\ ClaimOK(t)' /\ EmptyOK(t)'
    BY DEF HInv, BlocksOK, InBlocks, HpsOK, Ready, InHint, Held, ClaimOK, ClaimPC, EmptyOK
  <2>3. ASSUME NEW t \in Thread
        PROVE  ScanOK(t)' /\ CallOK(t)' /\ ExitOK(t)' /\ \A g \in GuardId : GuardOK(t, g)'
    BY DEF HInv, ScanOK, HeldBy, Ahead, CallOK, ExitOK, GuardOK, Busy
  <2> QED
    BY <2>1, <2>2, <2>3 DEF HInv
<1> QED
  BY <1>1, <1>2 DEF Next, Step

\* The inductive invariant: control blocks and hazard pointers have one owner,
\* a retired node is in one place, every hazard pointer that keeps a node is
\* seen by every scan that looks at the node, and the node of a guard is there
\* (acquire, set_object, scan, reclaim_nodes, thread_block_list).
THEOREM Invariance == Spec => []HInv
<1> QED
  BY HInvInit, HInvNext, PTL DEF Spec

\* Every reachable state is one of the type the model declares.
THEOREM TypeCorrect == Spec => []TypeOK
<1>1. HInv => TypeOK
  BY DEF HInv
<1> QED
  BY <1>1, Invariance, PTL

-----------------------------------------------------------------------------
(* The safety properties                                                   *)

LEMMA Singleton ==
  ASSUME NEW x
  PROVE  /\ IsFiniteSet({x}) /\ Cardinality({x}) = 1
         /\ IsFiniteSet({}) /\ Cardinality({}) = 0
BY FS_EmptySet, FS_Singleton

LEMMA ExclusiveLemma == HInv => BlockExclusive
<1> SUFFICES ASSUME HInv, NEW t \in Thread, block[t] # Null
             PROVE  /\ \E i \in DOMAIN blocks : blocks[i] = block[t]
                    /\ state[block[t]] = "active"
                    /\ \A u \in Thread \ {t} : block[u] # block[t]
  BY DEF BlockExclusive
<1>1. TypeOK /\ BlocksOK(t)
  BY DEF HInv
<1>2. DOMAIN blocks = 1..Len(blocks)
  BY <1>1, LenProperties DEF TypeOK
<1> QED
  BY <1>1, <1>2 DEF BlocksOK, InBlocks

\* No two threads own one control block, and every block in use can be found
\* by a scan (acquire_entry, add_entry, release_entry).
THEOREM BlocksAreExclusive == Spec => []BlockExclusive
BY Invariance, ExclusiveLemma, PTL

LEMMA AccountedLemma == HInv => HpsAccounted
<1> SUFFICES ASSUME HInv PROVE HpsAccounted
  OBVIOUS
<1>1. TypeOK /\ CountOK
  BY DEF HInv
<1>2. ASSUME NEW t \in Thread, Ready(t), NEW i \in 1..K
      PROVE  Cardinality({j \in DOMAIN hint[t] : hint[t][j] = i})
                + Cardinality({g \in GuardId : hpOf[t][g] = i}) = 1
  <2>1. HpsOK(t) /\ DOMAIN hint[t] = 1..Len(hint[t]) /\ i # 0
    BY <1>1, LenProperties, KAssumption DEF HInv, TypeOK
  <2>2. CASE Held(t, i)
    <3>1. PICK g \in GuardId : hpOf[t][g] = i
      BY <2>2 DEF Held
    <3>2. {d \in GuardId : hpOf[t][d] = i} = {g}
      BY <2>1, <3>1 DEF HpsOK
    <3>3. {j \in DOMAIN hint[t] : hint[t][j] = i} = {}
      BY <1>2, <2>1, <2>2 DEF HpsOK, InHint
    <3>4. Cardinality({d \in GuardId : hpOf[t][d] = i}) = 1
      BY <3>2, Singleton
    <3>5. Cardinality({j \in DOMAIN hint[t] : hint[t][j] = i}) = 0
      BY <3>3, Singleton
    <3> QED
      BY <3>4, <3>5
  <2>3. CASE ~Held(t, i)
    <3>1. InHint(t, i)
      BY <1>2, <2>1, <2>3 DEF HpsOK
    <3>2. PICK k \in 1..Len(hint[t]) : hint[t][k] = i
      BY <3>1 DEF InHint
    <3>3. {j \in DOMAIN hint[t] : hint[t][j] = i} = {k}
      BY <1>2, <2>1, <3>2 DEF HpsOK
    <3>4. {d \in GuardId : hpOf[t][d] = i} = {}
      BY <2>3 DEF Held
    <3>5. Cardinality({j \in DOMAIN hint[t] : hint[t][j] = i}) = 1
      BY <3>3, Singleton
    <3>6. Cardinality({d \in GuardId : hpOf[t][d] = i}) = 0
      BY <3>4, Singleton
    <3> QED
      BY <3>5, <3>6
  <2> QED
    BY <2>2, <2>3
<1> QED
  BY <1>1, <1>2 DEF HpsAccounted, Ready, CountOK, Counted

\* Every hazard pointer of a thread is unused or in one guard, never both, and
\* number_of_active_hps counts them (alloc_hazard_pointer, initialize, abandon).
THEOREM HpsAreAccounted == Spec => []HpsAccounted
BY Invariance, AccountedLemma, PTL

LEMMA OnceLemma == HInv => RetiredOnce
<1> SUFFICES ASSUME HInv, NEW n \in Node
             PROVE  Cardinality(Spots(n)) = (IF status[n] = "retired" THEN 1 ELSE 0)
  BY DEF RetiredOnce
<1>1. KeptOK
  BY DEF HInv
<1>2. \A x : x \in Spots(n) <=> \/ \E t \in Thread : n \in retired[t] /\ x = <<"retired", t>>
                                \/ \E t \in Thread : n \in adopted[t] /\ x = <<"adopted", t>>
                                \/ \E t \in Thread : n \in pending[t] /\ x = <<"pending", t>>
                                \/ n \in abandoned /\ x = <<"abandoned", Null>>
  BY DEF Spots
<1>3. CASE status[n] # "retired"
  <2>1. n \notin abandoned /\ \A t \in Thread : n \notin retired[t] /\ n \notin adopted[t] /\ n \notin pending[t]
    BY <1>1, <1>3 DEF KeptOK, Keeps
  <2>2. Spots(n) = {}
    BY <1>2, <2>1
  <2> QED
    BY <1>3, <2>2, Singleton
<1>4. CASE status[n] = "retired"
  <2>1. CASE n \in abandoned
    <3>1. \A t \in Thread : n \notin retired[t] /\ n \notin adopted[t] /\ n \notin pending[t]
      BY <1>1, <2>1 DEF KeptOK, Keeps
    <3>2. Spots(n) = {<<"abandoned", Null>>}
      BY <1>2, <2>1, <3>1
    <3> QED
      BY <1>4, <3>2, Singleton
  <2>2. ASSUME NEW t \in Thread, n \in Keeps(t)
        PROVE  Cardinality(Spots(n)) = (IF status[n] = "retired" THEN 1 ELSE 0)
    <3>1. /\ n \notin abandoned
          /\ \A u \in Thread : u # t => n \notin retired[u] /\ n \notin adopted[u] /\ n \notin pending[u]
          /\ n \notin retired[t] \intersect adopted[t] /\ n \notin retired[t] \intersect pending[t]
          /\ n \notin adopted[t] \intersect pending[t]
      BY <1>1, <2>2 DEF KeptOK, Keeps
    <3>2. CASE n \in retired[t]
      <4>1. Spots(n) = {<<"retired", t>>}
        BY <1>2, <3>1, <3>2
      <4> QED
        BY <1>4, <4>1, Singleton
    <3>3. CASE n \in adopted[t]
      <4>1. Spots(n) = {<<"adopted", t>>}
        BY <1>2, <3>1, <3>3
      <4> QED
        BY <1>4, <4>1, Singleton
    <3>4. CASE n \in pending[t]
      <4>1. Spots(n) = {<<"pending", t>>}
        BY <1>2, <3>1, <3>4
      <4> QED
        BY <1>4, <4>1, Singleton
    <3> QED
      BY <2>2, <3>2, <3>3, <3>4 DEF Keeps
  <2> QED
    BY <1>1, <1>4, <2>1, <2>2 DEF KeptOK
<1> QED
  BY <1>3, <1>4

\* No retired node is lost, and none is deleted twice (add_retired_node,
\* abandon_retired_nodes, adopt_abandoned_retired_nodes, reclaim_nodes).
THEOREM NodesRetiredOnce == Spec => []RetiredOnce
BY Invariance, OnceLemma, PTL

-----------------------------------------------------------------------------
(* Deletion waits for the guards                                           *)

LEMMA StatusSteps ==
  ASSUME NEW t \in Thread, Step(t)
  PROVE  \/ UNCHANGED status
         \/ \E c \in Cell, n \in Node : Insert(t, c, n)
         \/ Retire(t)
         \/ \E n \in Node : ScanDelete(t, n)
BY NoClientStep DEF ClientStep, Unlink

\* Only a scan deletes, and a node it deletes is kept by no hazard pointer.
LEMMA DeletionStep ==
  ASSUME HInv, NEW t \in Thread, Step(t), NEW n \in Node, status[n] = "retired", status'[n] = "free"
  PROVE  \A u \in Thread, i \in 1..K : ~HeldBy(u, i, n)
<1> USE DEF nodes
<1>0. TypeOK /\ ScanOK(t)
  BY DEF HInv
<1>1. ASSUME NEW c \in Cell, NEW m \in Node, Insert(t, c, m) PROVE FALSE
  BY <1>0, <1>1 DEF Insert, TypeOK
<1>2. ASSUME Retire(t) PROVE FALSE
  BY <1>0, <1>2 DEF Retire, TypeOK
<1>3. ASSUME NEW m \in Node, ScanDelete(t, m) PROVE n \in pending[t]
  BY <1>0, <1>3 DEF ScanDelete, TypeOK
<1>4. n \in pending[t]
  BY <1>1, <1>2, <1>3, StatusSteps
<1> QED
  BY <1>0, <1>4 DEF ScanOK

LEMMA OwnedHeld ==
  ASSUME HInv, ~copies, NEW n \in Node, status[n] = "retired", Owned(n)
  PROVE  \E u \in Thread, i \in 1..K : HeldBy(u, i, n)
<1>1. PICK u \in Thread, g \in GuardId : ptr[u][g] = n /\ ~Busy(u, g)
  BY DEF Owned, Busy
<1>2. ptr[u][g] # Null /\ GuardOK(u, g)
  BY <1>1, HPNullAssumption DEF HInv
<1>3. HeldBy(u, hpOf[u][g], n) /\ hpOf[u][g] # 0
  BY <1>1, <1>2 DEF GuardOK, HeldBy
<1> QED
  BY <1>3, SlotFacts

\* The deleter of a node does not run while a guard owns the node, unless
\* clients copy guards (guard_ptr::reclaim, scan).
THEOREM DeletersWait == Spec => DeleterWaits
<1>1. HInv /\ [Next]_vars =>
         [\A n \in Node : status[n] = "retired" /\ status'[n] = "free" => copies \/ ~Owned(n)]_vars
  <2> SUFFICES ASSUME HInv, Next, NEW n \in Node, status[n] = "retired", status'[n] = "free", ~copies, Owned(n)
               PROVE  FALSE
    OBVIOUS
  <2>1. PICK t \in Thread : Step(t)
    BY DEF Next, Step
  <2> QED
    BY <2>1, DeletionStep, OwnedHeld
<1> QED
  BY <1>1, Invariance, PTL DEF Spec, DeleterWaits

-----------------------------------------------------------------------------
(* The promise of module Reclaimer                                         *)

\* The slots of Reclaimer, as the model maps them
MSlot(u, i) == IF block[u] # Null /\ hp[block[u]][i] \in Node THEN hp[block[u]][i] ELSE Null
MSlots == [t \in Thread |-> [i \in 1..K |->
             IF block[t] # Null /\ hp[block[t]][i] \in Node THEN hp[block[t]][i] ELSE Null]]

LEMMA MSlotsFacts ==
  /\ MSlots = [t \in Thread |-> [i \in 1..K |-> MSlot(t, i)]]
  /\ \A t \in Thread, i \in 1..K : MSlots[t][i] = MSlot(t, i)
BY DEF MSlots, MSlot

LEMMA MSlotsNext ==
  MSlots' = [t \in Thread |-> [i \in 1..K |-> MSlot(t, i)']]
BY DEF MSlots, MSlot

LEMMA SlotElsewhere ==
  ASSUME HInv, NEW t \in Thread, Step(t), NEW u \in Thread \ {t}, NEW i \in 1..K
  PROVE  MSlot(u, i)' = MSlot(u, i)
<1>1. block'[u] = block[u]
  BY OthersSame DEF Same, SameGuards
<1>2. block[u] # Null => hp'[block[u]] = hp[block[u]]
  BY HpUntouched
<1> QED
  BY <1>1, <1>2 DEF MSlot

LEMMA SlotsSame ==
  ASSUME HInv, NEW t \in Thread, Step(t), \A i \in 1..K : MSlot(t, i)' = MSlot(t, i)
  PROVE  MSlots' = MSlots
<1>1. \A u \in Thread, i \in 1..K : MSlot(u, i)' = MSlot(u, i)
  BY SlotElsewhere
<1> QED
  BY <1>1, MSlotsFacts, MSlotsNext

LEMMA SlotsUpdate ==
  ASSUME HInv, NEW t \in Thread, Step(t), NEW i \in 1..K, NEW n, MSlot(t, i)' = n,
         \A j \in 1..K \ {i} : MSlot(t, j)' = MSlot(t, j)
  PROVE  /\ MSlots' = [MSlots EXCEPT ![t][i] = n]
         /\ MSlots' = [MSlots EXCEPT ![t] = [j \in 1..K |-> IF j \in {i} THEN n ELSE MSlots[t][j]]]
<1>1. \A u \in Thread, j \in 1..K : MSlot(u, j)' = IF u = t /\ j = i THEN n ELSE MSlot(u, j)
  BY SlotElsewhere
<1>2. MSlots' = [u \in Thread |-> [j \in 1..K |-> IF u = t /\ j = i THEN n ELSE MSlot(u, j)]]
  BY <1>1, MSlotsNext
<1> QED
  BY <1>2, MSlotsFacts

\* Setting a hazard pointer publishes its node, or nothing; a step that only
\* resets a guard releases its slot.
LEMMA PublishMaps ==
  ASSUME HInv, NEW t \in Thread, Publish(t)
  PROVE  Promised!RNext
<1>0. TypeOK /\ CallOK(t) /\ PinnedOK /\ Step(t) /\ Null \notin Node
  BY HPNullAssumption DEF HInv, Step, AcquireStep
<1>1. /\ gd[t] \in GuardId /\ hpOf[t][gd[t]] \in 1..K /\ block[t] \in Block /\ block[t] # Null
      /\ p1[t] \in Node \union {Null}
  BY <1>0, SlotFacts DEF Publish, CallOK, Ready, TypeOK
<1>2. ASSUME NEW i \in 1..K, NEW n \in Node \union {Null}, SetObject(t, i, n), block' = block, status' = status
      PROVE  Promised!RNext
  <2>1. /\ hp'[block[t]][i] = n
        /\ \A j \in 1..K \ {i} : hp'[block[t]][j] = hp[block[t]][j]
    <3>1. hp' = [hp EXCEPT ![block[t]][i] = n]
      BY <1>2 DEF SetObject
    <3>2. hp \in [Block -> [1..K -> Node \union {Null, Link}]]
      BY <1>0 DEF TypeOK
    <3> QED
      BY <1>1, <3>1, <3>2
  <2>2. pinned' = IF hp[block[t]][i] = n THEN pinned ELSE pinned \ {<<t, i>>}
    BY <1>2 DEF SetObject
  <2>3. MSlot(t, i)' = n /\ \A j \in 1..K \ {i} : MSlot(t, j)' = MSlot(t, j)
    BY <1>0, <1>1, <1>2, <2>1 DEF MSlot
  <2>4. /\ MSlots' = [MSlots EXCEPT ![t][i] = n]
        /\ MSlots' = [MSlots EXCEPT ![t] = [j \in 1..K |-> IF j \in {i} THEN n ELSE MSlots[t][j]]]
    BY <1>0, <2>3, SlotsUpdate
  <2>5. CASE n \in Node
    <3>1. hp[block[t]][i] = n <=> MSlots[t][i] = n
      BY <1>0, <1>1, <2>5, MSlotsFacts DEF MSlot
    <3>2. Promised!Publish(t, i, n)
      BY <2>2, <2>4, <3>1 DEF Promised!Publish, MSlots
    <3> QED
      BY <1>2, <2>5, <3>2 DEF Promised!RNext
  <2>6. CASE n = Null
    <3>1. hp[block[t]][i] = Null => <<t, i>> \notin pinned
      BY <1>0 DEF PinnedOK
    <3>2. pinned' = pinned \ ({t} \X {i})
      <4>1. {t} \X {i} = {<<t, i>>}
        OBVIOUS
      <4> QED
        BY <2>2, <2>6, <3>1, <4>1
    <3>3. Promised!Release(t, {i})
      BY <2>4, <2>6, <3>2 DEF Promised!Release, MSlots
    <3>4. {i} \in SUBSET (1..K)
      OBVIOUS
    <3> QED
      BY <1>2, <3>3, <3>4 DEF Promised!RNext
  <2> QED
    BY <2>5, <2>6
<1> QED
  BY <1>1, <1>2 DEF Publish, nodes

LEMMA ReleaseMaps ==
  ASSUME HInv, NEW t \in Thread, Step(t), ResetOnly, NEW g \in GuardId, hpOf[t][g] # 0, ReleaseHp(t, hpOf[t][g])
  PROVE  Promised!RNext
<1>0. TypeOK /\ Null \notin Node /\ Link \notin Node /\ block' = block /\ status' = status
  BY HPNullAssumption DEF HInv, ResetOnly, nodes
<1>1. hpOf[t][g] \in 1..K /\ block[t] \in Block
  BY SlotFacts
<1>2. ASSUME NEW i \in 1..K, ReleaseHp(t, i) PROVE Promised!RNext
  <2>1. /\ hp'[block[t]][i] = Link
        /\ \A j \in 1..K \ {i} : hp'[block[t]][j] = hp[block[t]][j]
        /\ pinned' = pinned \ {<<t, i>>}
    BY <1>0, <1>1, <1>2, ReleaseHpEffect
  <2>2. MSlot(t, i)' = Null /\ \A j \in 1..K \ {i} : MSlot(t, j)' = MSlot(t, j)
    BY <1>0, <2>1 DEF MSlot
  <2>3. MSlots' = [MSlots EXCEPT ![t] = [j \in 1..K |-> IF j \in {i} THEN Null ELSE MSlots[t][j]]]
    BY <2>2, SlotsUpdate
  <2>4. {t} \X {i} = {<<t, i>>} /\ {i} \in SUBSET (1..K)
    OBVIOUS
  <2>5. Promised!Release(t, {i})
    BY <2>1, <2>3, <2>4 DEF Promised!Release, MSlots
  <2> QED
    BY <1>0, <2>4, <2>5 DEF Promised!RNext
<1> QED
  BY <1>1, <1>2

LEMMA RetireMaps ==
  ASSUME HInv, NEW t \in Thread, Retire(t)
  PROVE  Promised!RNext
<1>0. TypeOK /\ ClaimOK(t) /\ Step(t) /\ Null \notin Node
  BY HPNullAssumption DEF HInv, Step, ReclaimStep
<1>1. p1[t] \in Node /\ status[p1[t]] = "live" /\ UNCHANGED <<hp, block>>
  BY <1>0 DEF Retire, Goto, ClaimOK, ClaimPC, global
<1>2. MSlots' = MSlots
  BY <1>1 DEF MSlots
<1>3. ASSUME NEW n \in Node, n = p1[t] PROVE Promised!RNext
  <2>1. /\ status' = [status EXCEPT ![n] = "retired"]
        /\ pinned' = pinned \union {h \in Thread \X (1..K) : block[h[1]] # Null /\ hp[block[h[1]]][h[2]] = n}
    BY <1>3 DEF Retire
  <2>2. \A h \in Thread \X (1..K) : h[1] \in Thread /\ h[2] \in 1..K
    OBVIOUS
  <2>3. \A h \in Thread \X (1..K) : (block[h[1]] # Null /\ hp[block[h[1]]][h[2]] = n) <=> MSlots[h[1]][h[2]] = n
    BY <1>0, <2>2, MSlotsFacts DEF MSlot
  <2>4. pinned' = pinned \union {h \in Thread \X (1..K) : MSlots[h[1]][h[2]] = n}
    BY <2>1, <2>3
  <2>5. Promised!Retire(n)
    BY <1>1, <1>3, <2>1, <2>4 DEF Promised!Retire, Promised!Holders, Promised!Guard, MSlots
  <2> QED
    BY <1>2, <2>5 DEF Promised!RNext, MSlots
<1> QED
  BY <1>1, <1>3

LEMMA DeleteMaps ==
  ASSUME HInv, NEW t \in Thread, NEW n \in Node, ScanDelete(t, n)
  PROVE  Promised!RNext
<1>0. TypeOK /\ ScanOK(t) /\ KeptOK /\ Null \notin Node
  BY HPNullAssumption DEF HInv
<1>1. /\ n \in pending[t] /\ status' = [status EXCEPT ![n] = "free"] /\ UNCHANGED <<hp, block, pinned>>
  BY DEF ScanDelete, own, global
<1>2. status[n] = "retired"
  BY <1>0, <1>1 DEF KeptOK, Keeps
<1>3. MSlots' = MSlots
  BY <1>1 DEF MSlots
<1>4. \A h \in Thread \X (1..K) : MSlots[h[1]][h[2]] = n => h \notin pinned
  <2> SUFFICES ASSUME NEW u \in Thread, NEW i \in 1..K, MSlots[u][i] = n, <<u, i>> \in pinned PROVE FALSE
    OBVIOUS
  <2>1. hp[block[u]][i] = n
    BY <1>0, MSlotsFacts DEF MSlot
  <2> QED
    BY <1>0, <1>1, <2>1 DEF ScanOK, HeldBy
<1>5. {h \in Thread \X (1..K) : MSlots[h[1]][h[2]] = n} \intersect pinned = {}
  BY <1>4
<1>6. Promised!Reclaim(n)
  BY <1>1, <1>2, <1>5 DEF Promised!Reclaim, Promised!Holders, Promised!Guard, MSlots
<1> QED
  BY <1>1, <1>3, <1>6 DEF Promised!RNext, MSlots

\* No step that takes or gives back a control block publishes or withdraws.
LEMMA BlockStepMaps ==
  ASSUME HInv, NEW t \in Thread, Step(t), BlockStep(t)
  PROVE  MSlots' = MSlots /\ UNCHANGED <<status, pinned>>
<1> USE DEF Goto
<1>0. TypeOK /\ UnusedOK /\ BlocksOK(t) /\ UnusedOK' /\ (\A u \in Thread : BlocksOK(u)') /\ TypeOK'
      /\ \A u \in Thread : BlocksOK(u)
  BY UnusedNext, BlocksNext, TypeNext DEF HInv, Next, Step
<1>1. UNCHANGED <<status, pinned>>
  BY DEF BlockStep, AdoptEntry, Initialize, SubtractHps, ReleaseEntry, AddEntry, nodes
<1>2. ASSUME ~Ready(t) PROVE \A i \in 1..K : MSlot(t, i) = Null
  <2> SUFFICES ASSUME NEW i \in 1..K, block[t] # Null, hp[block[t]][i] \in Node PROVE FALSE
    BY DEF MSlot
  <2>1. PICK u \in Thread : block[u] = block[t] /\ Ready(u)
    BY <1>0 DEF UnusedOK, TypeOK
  <2>2. u = t
    BY <1>0, <2>1 DEF BlocksOK
  <2> QED
    BY <1>2, <2>1, <2>2
<1>3. ASSUME ~Ready(t)' PROVE \A i \in 1..K : MSlot(t, i)' = Null
  <2> SUFFICES ASSUME NEW i \in 1..K, block'[t] # Null, hp'[block'[t]][i] \in Node PROVE FALSE
    BY DEF MSlot
  <2>1. PICK u \in Thread : block'[u] = block'[t] /\ Ready(u)'
    BY <1>0 DEF UnusedOK, TypeOK
  <2>2. u = t
    BY <1>0, <2>1 DEF BlocksOK
  <2> QED
    BY <1>3, <2>1, <2>2
<1>4. CASE AdoptEntry(t) \/ \E b \in Block : AddEntry(t, b)
  <2>1. ~Ready(t) /\ ~Ready(t)'
    <3>1. ~Ready(t) /\ pc[t] = "entry"
      BY <1>0, <1>4 DEF AdoptEntry, AddEntry, BlocksOK, Ready
    <3>2. \/ pc' = [pc EXCEPT ![t] = "initialize"]
          \/ block' = block
      BY <1>4 DEF AdoptEntry, AddEntry
    <3>3. pc' = [pc EXCEPT ![t] = "initialize"] => pc'[t] = "initialize"
      BY <1>0 DEF TypeOK
    <3>4. block[t] = Null
      BY <1>0, <3>1 DEF BlocksOK
    <3> QED
      BY <3>1, <3>2, <3>3, <3>4 DEF Ready
  <2> QED
    BY <1>1, <1>2, <1>3, <2>1, SlotsSame
<1>5. CASE Initialize(t)
  <2>1. ~Ready(t) /\ \A i \in 1..K : hp'[block[t]][i] = Link
    BY <1>0, <1>5 DEF Initialize, Ready, BlocksOK, TypeOK
  <2>2. block' = block
    BY <1>5 DEF Initialize
  <2>3. \A i \in 1..K : MSlot(t, i)' = Null
    BY <2>1, <2>2, HPNullAssumption DEF MSlot
  <2> QED
    BY <1>1, <1>2, <2>1, <2>3, SlotsSame
<1>6. CASE SubtractHps(t)
  BY <1>1, <1>6 DEF SubtractHps, own, MSlots
<1>7. CASE ReleaseEntry(t)
  <2>1. \A i \in 1..K : MSlot(t, i) = Null
    BY <1>7, ReleasedEmpty DEF MSlot
  <2>2. ~Ready(t)'
    BY <1>0, <1>7 DEF ReleaseEntry, Ready, TypeOK
  <2> QED
    BY <1>1, <1>3, <2>1, <2>2, SlotsSame
<1> QED
  BY <1>4, <1>5, <1>6, <1>7 DEF BlockStep

LEMMA PromiseInit == Init => Promised!RInit
<1> SUFFICES ASSUME Init PROVE Promised!RInit
  OBVIOUS
<1>1. \A u \in Thread, i \in 1..K : MSlot(u, i) = Null
  BY DEF Init, MSlot
<1>2. MSlots = [t \in Thread |-> [i \in 1..K |-> Null]]
  BY <1>1, MSlotsFacts
<1> QED
  BY <1>2 DEF Init, Promised!RInit, MSlots

LEMMA PromiseStep == HInv /\ [Next]_vars => [Promised!RNext]_Promised!rvars
<1> SUFFICES ASSUME HInv, [Next]_vars
             PROVE  Promised!RNext \/ (MSlots' = MSlots /\ UNCHANGED <<status, pinned>>)
  BY DEF Promised!rvars, MSlots
<1>1. ASSUME NEW t \in Thread, Step(t)
      PROVE  Promised!RNext \/ (MSlots' = MSlots /\ UNCHANGED <<status, pinned>>)
  <2>1. CASE BlockStep(t)
    BY <1>1, <2>1, BlockStepMaps
  <2>2. CASE Retire(t)
    BY <2>2, RetireMaps
  <2>3. CASE Publish(t)
    BY <2>3, PublishMaps
  <2>4. CASE ResetOnly /\ \E g \in GuardId : hpOf[t][g] # 0 /\ ReleaseHp(t, hpOf[t][g])
    BY <1>1, <2>4, ReleaseMaps
  <2>5. CASE UNCHANGED <<hp, pinned>> /\ ~BlockStep(t)
    <3>1. MSlots' = MSlots
      BY <1>1, <2>5, NoBlockStep DEF MSlots
    <3>2. CASE UNCHANGED status
      BY <2>5, <3>1, <3>2
    <3>3. ASSUME NEW c \in Cell, NEW n \in Node, Insert(t, c, n) PROVE Promised!RNext
      <4>1. Promised!Allocate(n)
        BY <3>3 DEF Insert, Promised!Allocate
      <4> QED
        BY <2>5, <3>1, <4>1 DEF Promised!RNext, MSlots
    <3> QED
      BY <1>1, <2>2, <3>2, <3>3, DeleteMaps, StatusSteps
  <2> QED
    BY <1>1, <2>1, <2>2, <2>3, <2>4, <2>5, HpSteps DEF BlockStep
<1>2. CASE UNCHANGED vars
  BY <1>2 DEF vars, nodes, global, own, MSlots
<1> QED
  BY <1>1, <1>2 DEF Next, Step

\* Hazard pointers keep what Reclaimer promises to the structures built on
\* them: a node is not deleted while a hazard pointer holds it that has held
\* it since before the node was retired (guard_ptr::reclaim, scan).
THEOREM PromiseKept == Spec => Promise
BY PromiseInit, PromiseStep, Invariance, PTL DEF Spec, Promise, Promised!RSpec

=============================================================================
