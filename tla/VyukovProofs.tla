---------------------------- MODULE VyukovProofs ----------------------------
(***************************************************************************)
(* Proofs about VyukovBoundedQueue, for any number of threads and cells.   *)
(* A cell can only be claimed when its sequence number equals the position *)
(* that is claimed, and positions with the same cell are Size apart: while *)
(* one of them is worked on, the counters cannot get to the other.  The    *)
(* ring implements BoundedFifo: every step is a step of the abstract queue *)
(* or changes nothing that its users can see.  A push takes effect with    *)
(* its CAS on enqueue_pos, before its value is in the cell, and a pop with *)
(* its CAS on dequeue_pos, before the value is moved out.                  *)
(***************************************************************************)
EXTENDS VyukovBoundedQueue, SequenceTheorems, TLAPS

-----------------------------------------------------------------------------
(* Positions and cells                                                     *)

\* p \div Size is the round of position p, and cell(p) its place in the round.
LEMMA Division ==
    ASSUME NEW p \in Nat
    PROVE  /\ p \div Size \in Int /\ cell(p) \in Cell
           /\ p = Size * (p \div Size) + cell(p)
BY SizeAssumption DEF cell, Cell

\* A later round begins at least Size positions later.
LEMMA Rounds ==
    ASSUME NEW a \in Int, NEW b \in Int, a < b
    PROVE  Size * b >= Size * a + Size
<1>1. b - a - 1 \in Nat
  OBVIOUS
<1>2. Size * (b - a - 1) >= 0
  BY <1>1, SizeAssumption
<1>3. Size * (b - a - 1) = Size * b - Size * a - Size
  BY SizeAssumption
<1> QED
  BY <1>2, <1>3, SizeAssumption

\* Round and place determine each other's position.
LEMMA Unique ==
    ASSUME NEW a \in Int, NEW b \in Int, NEW i \in Cell, NEW j \in Cell,
           Size * a + i = Size * b + j
    PROVE  a = b /\ i = j
<1> USE SizeAssumption DEF Cell
<1>1. Size * a \in Int /\ Size * b \in Int
  OBVIOUS
<1>2. ~(a < b)
  BY <1>1, Rounds
<1>3. ~(b < a)
  BY <1>1, Rounds
<1> QED
  BY <1>2, <1>3

\* Positions fewer than Size apart have different cells.
LEMMA CellDiffers ==
    ASSUME NEW p \in Nat, NEW q \in Nat, p < q, q < p + Size
    PROVE  cell(p) # cell(q)
<1> SUFFICES ASSUME cell(p) = cell(q) PROVE FALSE
  OBVIOUS
<1> DEFINE a == p \div Size  b == q \div Size
<1>1. a \in Int /\ b \in Int /\ cell(p) \in Int
  BY Division, SizeAssumption DEF Cell
<1>2. p = Size * a + cell(p) /\ q = Size * b + cell(p)
  BY Division
<1> HIDE DEF a, b
<1>3. Size * a \in Int /\ Size * b \in Int
  BY <1>1, SizeAssumption
<1>4. CASE a < b
  BY <1>1, <1>2, <1>3, <1>4, Rounds, SizeAssumption
<1>5. CASE b < a
  BY <1>1, <1>2, <1>3, <1>5, Rounds, SizeAssumption
<1>6. CASE a = b
  BY <1>1, <1>2, <1>3, <1>6
<1> QED
  BY <1>1, <1>4, <1>5, <1>6

\* The position one round later has the same cell.
LEMMA NextRound ==
    ASSUME NEW p \in Nat
    PROVE  cell(p + Size) = cell(p)
<1> DEFINE a == p \div Size  b == (p + Size) \div Size
<1>1. p + Size \in Nat /\ a + 1 \in Int
  BY SizeAssumption, Division
<1>2. p = Size * a + cell(p) /\ p + Size = Size * b + cell(p + Size)
  BY <1>1, Division
<1>3. a \in Int /\ b \in Int /\ cell(p) \in Cell /\ cell(p + Size) \in Cell
  BY <1>1, Division
<1> HIDE DEF a, b
<1>4. Size * (a + 1) = Size * a + Size
  BY <1>3, SizeAssumption
<1>5. Size * (a + 1) + cell(p) = Size * b + cell(p + Size)
  BY <1>2, <1>3, <1>4, SizeAssumption DEF Cell
<1> QED
  BY <1>1, <1>3, <1>5, Unique

\* Two positions of one window of Size positions with the same cell are the same.
LEMMA SameCell ==
    ASSUME NEW p \in Nat, NEW q \in Nat, cell(p) = cell(q), p < q + Size, q < p + Size
    PROVE  p = q
BY CellDiffers

-----------------------------------------------------------------------------
(* The invariant is inductive                                              *)

LEMMA InitInv == Init => IInv
<1> SUFFICES ASSUME Init PROVE IInv
  OBVIOUS
<1>1. TypeOK
  BY SizeAssumption DEF Init, TypeOK, Cell
<1>2. FreeOK
  <2> SUFFICES ASSUME NEW p \in 0..(Size - 1) PROVE sequence[cell(p)] = p
    BY SizeAssumption DEF Init, FreeOK
  <2>1. cell(p) \in Cell
    BY Division, SizeAssumption
  <2>2. cell(p) = p
    BY <2>1, SizeAssumption, SameCell, CellDiffers DEF cell, Cell
  <2> QED
    BY <2>1, <2>2 DEF Init
<1>3. ClaimedOK /\ \A t \in Thread : ThreadOK(t)
  BY SizeAssumption DEF Init, ClaimedOK, ThreadOK, PushOwnerOK, PopOwnerOK, PushReadOK, PopReadOK,
     PushOwns, PopOwns, PushPC, PopPC
<1> QED
  BY <1>1, <1>2, <1>3 DEF IInv

\* Steps that change nothing but the locals of thread t, whose claim they keep.
LEMMA LocalStep ==
    ASSUME IInv, NEW t \in Thread, TypeOK',
           UNCHANGED <<sequence, enqueue_pos, dequeue_pos>>,
           \A u \in Thread \ {t} : pc'[u] = pc[u] /\ pos'[u] = pos[u],
           pc'[t] \in PushOwns => pc[t] \in PushOwns /\ pos'[t] = pos[t],
           pc'[t] \in PopOwns => pc[t] \in PopOwns /\ pos'[t] = pos[t],
           PushReadOK(t)', PopReadOK(t)'
    PROVE  IInv'
<1>1. ClaimedOK' /\ FreeOK'
  BY DEF IInv, ClaimedOK, FreeOK
<1>2. ASSUME NEW u \in Thread PROVE PushOwnerOK(u)' /\ PopOwnerOK(u)'
  BY <1>2 DEF IInv, ThreadOK, PushOwnerOK, PopOwnerOK
<1>3. ASSUME NEW u \in Thread PROVE PushReadOK(u)' /\ PopReadOK(u)'
  BY <1>3 DEF IInv, ThreadOK, PushReadOK, PopReadOK
<1> QED
  BY <1>1, <1>2, <1>3 DEF IInv, ThreadOK

\* The steps of do_try_push before a position is claimed, and the assignment.
LEMMA PushLocal ==
    ASSUME IInv, NEW t \in Thread,
           \/ \E v \in Value, w \in BOOLEAN : TryPush(t, v, w)
           \/ PushSeq(t) \/ PushCasFails(t) \/ PushReload(t) \/ PushPos2(t) \/ PushFull(t)
           \/ PushAssign(t)
    PROVE  IInv'
<1> USE DEF TryPush, PushSeq, PushCasFails, PushReload, PushPos2, PushFull, PushAssign,
            Goto, SetPos, Stay, Return, shared
<1>0. TypeOK /\ PushReadOK(t) /\ PopReadOK(t)
  BY DEF IInv, ThreadOK
<1>1. pos[t] \in Nat /\ cell(pos[t]) \in Cell /\ enqueue_pos \in Nat
  BY <1>0, Division, SizeAssumption DEF TypeOK
<1>2. TypeOK'
  <2>1. sequence' \in [Cell -> Nat] /\ dequeue_pos' \in Nat
        /\ enqueue_pos' \in dequeue_pos'..(dequeue_pos' + Size)
    BY <1>0 DEF TypeOK
  <2>2. value' \in [Cell -> Value \union {NoValue}]
    BY <1>0, <1>1 DEF TypeOK
  <2>3. pc' \in [Thread -> {"idle"} \union PushPC \union PopPC]
    BY <1>0 DEF TypeOK, PushPC, PopPC
  <2>4. weak' \in [Thread -> BOOLEAN]
    BY <1>0 DEF TypeOK
  <2>5. pos' \in [Thread -> Nat]
    BY <1>0, <1>1 DEF TypeOK
  <2>6. val' \in [Thread -> Value \union {NoValue}]
    BY <1>0, <1>1 DEF TypeOK
  <2> QED
    BY <2>1, <2>2, <2>3, <2>4, <2>5, <2>6 DEF TypeOK
<1>3. PushReadOK(t)' /\ PopReadOK(t)'
  BY <1>0, <1>1 DEF TypeOK, PushReadOK, PopReadOK, PushPC, PopPC
<1>4. /\ UNCHANGED <<sequence, enqueue_pos, dequeue_pos>>
      /\ \A u \in Thread \ {t} : pc'[u] = pc[u] /\ pos'[u] = pos[u]
      /\ pc'[t] \in PushOwns => pc[t] \in PushOwns /\ pos'[t] = pos[t]
      /\ pc'[t] \in PopOwns => pc[t] \in PopOwns /\ pos'[t] = pos[t]
  BY <1>0 DEF TypeOK, PushOwns, PopOwns
<1> QED
  BY <1>2, <1>3, <1>4, LocalStep

\* The steps of do_try_pop before a position is claimed, and the move.
LEMMA PopLocal ==
    ASSUME IInv, NEW t \in Thread,
           \/ \E w \in BOOLEAN : TryPop(t, w)
           \/ PopSeq(t) \/ PopCasFails(t) \/ PopReload(t) \/ PopPos2(t) \/ PopEmpty(t)
           \/ PopMove(t)
    PROVE  IInv'
<1> USE DEF TryPop, PopSeq, PopCasFails, PopReload, PopPos2, PopEmpty, PopMove,
            Goto, SetPos, Stay, Return, shared
<1>0. TypeOK /\ PushReadOK(t) /\ PopReadOK(t)
  BY DEF IInv, ThreadOK
<1>1. pos[t] \in Nat /\ cell(pos[t]) \in Cell /\ enqueue_pos \in Nat
  BY <1>0, Division, SizeAssumption DEF TypeOK
<1>2. TypeOK'
  <2>1. sequence' \in [Cell -> Nat] /\ dequeue_pos' \in Nat
        /\ enqueue_pos' \in dequeue_pos'..(dequeue_pos' + Size)
    BY <1>0 DEF TypeOK
  <2>2. value' \in [Cell -> Value \union {NoValue}]
    BY <1>0, <1>1 DEF TypeOK
  <2>3. pc' \in [Thread -> {"idle"} \union PushPC \union PopPC]
    BY <1>0 DEF TypeOK, PushPC, PopPC
  <2>4. weak' \in [Thread -> BOOLEAN]
    BY <1>0 DEF TypeOK
  <2>5. pos' \in [Thread -> Nat]
    BY <1>0, <1>1 DEF TypeOK
  <2>6. val' \in [Thread -> Value \union {NoValue}]
    BY <1>0, <1>1 DEF TypeOK
  <2> QED
    BY <2>1, <2>2, <2>3, <2>4, <2>5, <2>6 DEF TypeOK
<1>3. PushReadOK(t)' /\ PopReadOK(t)'
  BY <1>0, <1>1 DEF TypeOK, PushReadOK, PopReadOK, PushPC, PopPC
<1>4. /\ UNCHANGED <<sequence, enqueue_pos, dequeue_pos>>
      /\ \A u \in Thread \ {t} : pc'[u] = pc[u] /\ pos'[u] = pos[u]
      /\ pc'[t] \in PushOwns => pc[t] \in PushOwns /\ pos'[t] = pos[t]
      /\ pc'[t] \in PopOwns => pc[t] \in PopOwns /\ pos'[t] = pos[t]
  BY <1>0 DEF TypeOK, PushOwns, PopOwns
<1> QED
  BY <1>2, <1>3, <1>4, LocalStep

\* What TypeOK says of the numbers.
LEMMA Numbers ==
    ASSUME TypeOK
    PROVE  /\ enqueue_pos \in Nat /\ dequeue_pos \in Nat
           /\ dequeue_pos <= enqueue_pos /\ enqueue_pos <= dequeue_pos + Size
           /\ \A t \in Thread : pos[t] \in Nat /\ cell(pos[t]) \in Cell
BY Division, SizeAssumption DEF TypeOK

\* The CAS on enqueue_pos: the queue is not full, because the cell of the oldest
\* claimed position does not have this sequence number.
LEMMA PushCasStep ==
    ASSUME IInv, NEW t \in Thread, PushCas(t)
    PROVE  IInv'
<1> USE DEF PushCas, Goto
<1>1. TypeOK /\ ClaimedOK /\ FreeOK /\ \A u \in Thread : ThreadOK(u)
  BY DEF IInv
<1>2. /\ enqueue_pos \in Nat /\ dequeue_pos \in Nat
      /\ dequeue_pos <= enqueue_pos /\ enqueue_pos <= dequeue_pos + Size
      /\ \A u \in Thread : pos[u] \in Nat /\ cell(pos[u]) \in Cell
  BY <1>1, Numbers
<1>3. pos[t] = enqueue_pos /\ sequence[cell(enqueue_pos)] = enqueue_pos
  BY <1>1 DEF ThreadOK, PushReadOK
<1>4. enqueue_pos < dequeue_pos + Size
  <2> SUFFICES ASSUME enqueue_pos = dequeue_pos + Size PROVE FALSE
    BY <1>2, SizeAssumption
  <2>1. sequence[cell(dequeue_pos)] \in {dequeue_pos, dequeue_pos + 1}
    BY <1>1, <1>2, SizeAssumption DEF ClaimedOK
  <2>2. cell(dequeue_pos) = cell(enqueue_pos)
    BY <1>2, NextRound
  <2> QED
    BY <2>1, <2>2, <1>2, <1>3, SizeAssumption
<1>5. TypeOK'
  BY <1>1, <1>2, <1>4, SizeAssumption DEF TypeOK, PushPC
<1>6. ClaimedOK' /\ FreeOK'
  BY <1>1, <1>2, <1>3, SizeAssumption DEF ClaimedOK, FreeOK
<1>7. /\ pc'[t] = "p_assign"
      /\ \A u \in Thread \ {t} : pc'[u] = pc[u]
      /\ UNCHANGED <<pos, sequence, dequeue_pos>> /\ enqueue_pos' = enqueue_pos + 1
  BY <1>1 DEF TypeOK
<1>8. ASSUME NEW u \in Thread PROVE PushOwnerOK(u)'
  BY <1>1, <1>2, <1>3, <1>7 DEF ThreadOK, PushOwnerOK, PushOwns
<1>9. ASSUME NEW u \in Thread PROVE PopOwnerOK(u)'
  <2> SUFFICES ASSUME pc'[u] \in PopOwns PROVE PopOwnerOK(u)'
    BY DEF PopOwnerOK
  <2>1. u # t /\ PopOwnerOK(u) /\ pc[u] \in PopOwns
    BY <1>1, <1>7 DEF ThreadOK, PopOwns
  <2>2. pos[u] + Size # enqueue_pos
    <3> SUFFICES ASSUME pos[u] + Size = enqueue_pos PROVE FALSE
      OBVIOUS
    <3>1. cell(pos[u]) = cell(enqueue_pos)
      BY <1>2, NextRound
    <3> QED
      BY <2>1, <3>1, <1>2, <1>3, SizeAssumption DEF PopOwnerOK
  <2> QED
    BY <2>1, <2>2, <1>2, <1>7, SizeAssumption DEF PopOwnerOK, PopOwns
<1>10. ASSUME NEW u \in Thread PROVE PushReadOK(u)' /\ PopReadOK(u)'
  BY <1>1, <1>2, <1>3, <1>7 DEF ThreadOK, PushReadOK, PopReadOK, PushPC, PopPC
<1> QED
  BY <1>5, <1>6, <1>8, <1>9, <1>10 DEF IInv, ThreadOK

\* The CAS on dequeue_pos: the queue is not empty, because the cell of the next
\* position to be claimed by a push does not have this sequence number.
LEMMA PopCasStep ==
    ASSUME IInv, NEW t \in Thread, PopCas(t)
    PROVE  IInv'
<1> USE DEF PopCas, Goto
<1>1. TypeOK /\ ClaimedOK /\ FreeOK /\ \A u \in Thread : ThreadOK(u)
  BY DEF IInv
<1>2. /\ enqueue_pos \in Nat /\ dequeue_pos \in Nat
      /\ dequeue_pos <= enqueue_pos /\ enqueue_pos <= dequeue_pos + Size
      /\ \A u \in Thread : pos[u] \in Nat /\ cell(pos[u]) \in Cell
  BY <1>1, Numbers
<1>3. pos[t] = dequeue_pos /\ sequence[cell(dequeue_pos)] = dequeue_pos + 1
  BY <1>1 DEF ThreadOK, PopReadOK
<1>4. dequeue_pos < enqueue_pos
  BY <1>1, <1>2, <1>3, SizeAssumption DEF FreeOK
<1>5. TypeOK'
  BY <1>1, <1>2, <1>4, SizeAssumption DEF TypeOK, PopPC
<1>6. ClaimedOK'
  BY <1>1, <1>2, SizeAssumption DEF ClaimedOK
<1>7. FreeOK'
  <2> SUFFICES ASSUME NEW p \in enqueue_pos..(dequeue_pos + Size)
               PROVE  sequence[cell(p)] \in {p, p + 1 - Size}
    BY <1>2, SizeAssumption DEF FreeOK
  <2>1. CASE p = dequeue_pos + Size
    BY <2>1, <1>2, <1>3, NextRound, SizeAssumption
  <2>2. CASE p # dequeue_pos + Size
    BY <2>2, <1>1, <1>2, SizeAssumption DEF FreeOK
  <2> QED
    BY <2>1, <2>2
<1>8. /\ pc'[t] = "o_move"
      /\ \A u \in Thread \ {t} : pc'[u] = pc[u]
      /\ UNCHANGED <<pos, sequence, enqueue_pos>> /\ dequeue_pos' = dequeue_pos + 1
  BY <1>1 DEF TypeOK
<1>9. ASSUME NEW u \in Thread PROVE PopOwnerOK(u)'
  BY <1>1, <1>2, <1>3, <1>8, SizeAssumption DEF ThreadOK, PopOwnerOK, PopOwns
<1>10. ASSUME NEW u \in Thread PROVE PushOwnerOK(u)'
  <2> SUFFICES ASSUME pc'[u] \in PushOwns PROVE PushOwnerOK(u)'
    BY DEF PushOwnerOK
  <2>1. u # t /\ PushOwnerOK(u) /\ pc[u] \in PushOwns
    BY <1>1, <1>8 DEF ThreadOK, PushOwns
  <2>2. pos[u] # dequeue_pos
    BY <2>1, <1>2, <1>3 DEF PushOwnerOK
  <2> QED
    BY <2>1, <2>2, <1>2, <1>8 DEF PushOwnerOK, PushOwns
<1>11. ASSUME NEW u \in Thread PROVE PushReadOK(u)' /\ PopReadOK(u)'
  BY <1>1, <1>2, <1>3, <1>8 DEF ThreadOK, PushReadOK, PopReadOK, PushPC, PopPC
<1> QED
  BY <1>5, <1>6, <1>7, <1>9, <1>10, <1>11 DEF IInv, ThreadOK

\* A push stores the sequence of its cell: the only claimed position of that cell
\* is its own, and none of the free ones is.
LEMMA PushPublishStep ==
    ASSUME IInv, NEW t \in Thread, PushPublish(t)
    PROVE  IInv'
<1> USE DEF PushPublish, Return, Goto
<1>1. TypeOK /\ ClaimedOK /\ FreeOK /\ \A u \in Thread : ThreadOK(u)
  BY DEF IInv
<1>2. /\ enqueue_pos \in Nat /\ dequeue_pos \in Nat
      /\ dequeue_pos <= enqueue_pos /\ enqueue_pos <= dequeue_pos + Size
      /\ \A u \in Thread : pos[u] \in Nat /\ cell(pos[u]) \in Cell
  BY <1>1, Numbers
<1>3. /\ dequeue_pos <= pos[t] /\ pos[t] < enqueue_pos /\ sequence[cell(pos[t])] = pos[t]
      /\ \A u \in Thread : pc[u] \in PushOwns /\ pos[u] = pos[t] => u = t
  BY <1>1 DEF ThreadOK, PushOwnerOK, PushOwns
<1>4. TypeOK'
  <2>1. sequence' \in [Cell -> Nat] /\ dequeue_pos' \in Nat
        /\ enqueue_pos' \in dequeue_pos'..(dequeue_pos' + Size)
    BY <1>1, <1>2, SizeAssumption DEF TypeOK
  <2>2. value' \in [Cell -> Value \union {NoValue}]
        /\ val' \in [Thread -> Value \union {NoValue}]
    BY <1>1 DEF TypeOK
  <2>3. pc' \in [Thread -> {"idle"} \union PushPC \union PopPC] /\ pos' \in [Thread -> Nat]
    BY <1>1 DEF TypeOK
  <2>4. weak' \in [Thread -> BOOLEAN]
    BY <1>1 DEF TypeOK
  <2> QED
    BY <2>1, <2>2, <2>3, <2>4 DEF TypeOK
<1>5. /\ pc'[t] = "idle"
      /\ \A u \in Thread \ {t} : pc'[u] = pc[u] /\ pos'[u] = pos[u]
      /\ UNCHANGED <<enqueue_pos, dequeue_pos>>
      /\ sequence'[cell(pos[t])] = pos[t] + 1
      /\ \A i \in Cell \ {cell(pos[t])} : sequence'[i] = sequence[i]
  BY <1>1, <1>2 DEF TypeOK
<1>6. ClaimedOK'
  <2> SUFFICES ASSUME NEW p \in dequeue_pos..(enqueue_pos - 1)
               PROVE  sequence'[cell(p)] \in {p, p + 1}
    BY <1>5 DEF ClaimedOK
  <2>1. p \in Nat /\ cell(p) \in Cell
    BY <1>2, Division
  <2>2. cell(p) = cell(pos[t]) => p = pos[t]
    BY <2>1, <1>2, <1>3, SameCell, CellDiffers, SizeAssumption
  <2> QED
    BY <2>1, <2>2, <1>1, <1>5 DEF ClaimedOK
<1>7. FreeOK'
  <2> SUFFICES ASSUME NEW p \in enqueue_pos..(dequeue_pos + Size - 1)
               PROVE  sequence'[cell(p)] \in {p, p + 1 - Size}
    BY <1>5 DEF FreeOK
  <2>1. p \in Nat /\ cell(p) \in Cell
    BY <1>2, Division, SizeAssumption
  <2>2. cell(p) # cell(pos[t])
    BY <2>1, <1>2, <1>3, CellDiffers, SizeAssumption
  <2> QED
    BY <2>1, <2>2, <1>1, <1>5 DEF FreeOK
<1>8. ASSUME NEW u \in Thread PROVE PushOwnerOK(u)'
  <2> SUFFICES ASSUME pc'[u] \in PushOwns PROVE PushOwnerOK(u)'
    BY DEF PushOwnerOK
  <2>1. u # t /\ PushOwnerOK(u) /\ pc[u] \in PushOwns
    BY <1>1, <1>5 DEF ThreadOK, PushOwns
  <2>2. cell(pos[u]) # cell(pos[t])
    <3>1. pos[u] # pos[t]
      BY <2>1, <1>3
    <3>2. pos[u] < pos[t] + Size /\ pos[t] < pos[u] + Size
      BY <2>1, <1>2, <1>3, SizeAssumption DEF PushOwnerOK
    <3> QED
      BY <3>1, <3>2, <1>2, SameCell
  <2> QED
    BY <2>1, <2>2, <1>2, <1>5 DEF PushOwnerOK, PushOwns
<1>9. ASSUME NEW u \in Thread PROVE PopOwnerOK(u)'
  <2> SUFFICES ASSUME pc'[u] \in PopOwns PROVE PopOwnerOK(u)'
    BY DEF PopOwnerOK
  <2>1. u # t /\ PopOwnerOK(u) /\ pc[u] \in PopOwns
    BY <1>1, <1>5 DEF ThreadOK, PopOwns
  <2>2. cell(pos[u]) # cell(pos[t])
    BY <2>1, <1>2, <1>3, CellDiffers, SizeAssumption DEF PopOwnerOK
  <2> QED
    BY <2>1, <2>2, <1>2, <1>5 DEF PopOwnerOK, PopOwns
<1>10. ASSUME NEW u \in Thread PROVE PushReadOK(u)' /\ PopReadOK(u)'
  <2> SUFFICES ASSUME u # t PROVE PushReadOK(u)' /\ PopReadOK(u)'
    BY <1>5 DEF PushReadOK, PopReadOK, PushPC, PopPC
  <2>1. PushReadOK(u) /\ PopReadOK(u)
    BY <1>1 DEF ThreadOK
  <2>2. ASSUME pos[u] = enqueue_pos, sequence[cell(pos[u])] = pos[u]
        PROVE  cell(pos[u]) # cell(pos[t])
    BY <2>2, <1>2, <1>3
  <2>3. ASSUME pos[u] = dequeue_pos, sequence[cell(pos[u])] = pos[u] + 1
        PROVE  cell(pos[u]) # cell(pos[t])
    BY <2>3, <1>2, <1>3, CellDiffers, SizeAssumption
  <2>4. PushReadOK(u)'
    BY <2>1, <2>2, <1>2, <1>5 DEF PushReadOK
  <2>5. PopReadOK(u)'
    BY <2>1, <2>3, <1>2, <1>5 DEF PopReadOK
  <2> QED
    BY <2>4, <2>5
<1> QED
  BY <1>4, <1>6, <1>7, <1>8, <1>9, <1>10 DEF IInv, ThreadOK

\* A pop stores the sequence of its cell: the only free position of that cell is
\* the one of the next round, and none of the claimed ones is.
LEMMA PopPublishStep ==
    ASSUME IInv, NEW t \in Thread, PopPublish(t)
    PROVE  IInv'
<1> USE DEF PopPublish, Return, Goto
<1>1. TypeOK /\ ClaimedOK /\ FreeOK /\ \A u \in Thread : ThreadOK(u)
  BY DEF IInv
<1>2. /\ enqueue_pos \in Nat /\ dequeue_pos \in Nat
      /\ dequeue_pos <= enqueue_pos /\ enqueue_pos <= dequeue_pos + Size
      /\ \A u \in Thread : pos[u] \in Nat /\ cell(pos[u]) \in Cell
  BY <1>1, Numbers
<1>3. /\ pos[t] < dequeue_pos /\ enqueue_pos <= pos[t] + Size
      /\ sequence[cell(pos[t])] = pos[t] + 1
      /\ \A u \in Thread : pc[u] \in PopOwns /\ pos[u] = pos[t] => u = t
  BY <1>1 DEF ThreadOK, PopOwnerOK, PopOwns
<1>4. TypeOK'
  <2>1. sequence' \in [Cell -> Nat] /\ dequeue_pos' \in Nat
        /\ enqueue_pos' \in dequeue_pos'..(dequeue_pos' + Size)
    BY <1>1, <1>2, SizeAssumption DEF TypeOK
  <2>2. value' \in [Cell -> Value \union {NoValue}]
        /\ val' \in [Thread -> Value \union {NoValue}]
    BY <1>1 DEF TypeOK
  <2>3. pc' \in [Thread -> {"idle"} \union PushPC \union PopPC] /\ pos' \in [Thread -> Nat]
    BY <1>1 DEF TypeOK
  <2>4. weak' \in [Thread -> BOOLEAN]
    BY <1>1 DEF TypeOK
  <2> QED
    BY <2>1, <2>2, <2>3, <2>4 DEF TypeOK
<1>5. /\ pc'[t] = "idle"
      /\ \A u \in Thread \ {t} : pc'[u] = pc[u] /\ pos'[u] = pos[u]
      /\ UNCHANGED <<enqueue_pos, dequeue_pos>>
      /\ sequence'[cell(pos[t])] = pos[t] + Size
      /\ \A i \in Cell \ {cell(pos[t])} : sequence'[i] = sequence[i]
  BY <1>1, <1>2 DEF TypeOK
<1>6. ClaimedOK'
  <2> SUFFICES ASSUME NEW p \in dequeue_pos..(enqueue_pos - 1)
               PROVE  sequence'[cell(p)] \in {p, p + 1}
    BY <1>5 DEF ClaimedOK
  <2>1. p \in Nat /\ cell(p) \in Cell
    BY <1>2, Division
  <2>2. cell(p) # cell(pos[t])
    BY <2>1, <1>2, <1>3, SameCell, CellDiffers, SizeAssumption
  <2> QED
    BY <2>1, <2>2, <1>1, <1>5 DEF ClaimedOK
<1>7. FreeOK'
  <2> SUFFICES ASSUME NEW p \in enqueue_pos..(dequeue_pos + Size - 1)
               PROVE  sequence'[cell(p)] \in {p, p + 1 - Size}
    BY <1>5 DEF FreeOK
  <2>1. p \in Nat /\ cell(p) \in Cell
    BY <1>2, Division, SizeAssumption
  <2>2. cell(p) = cell(pos[t]) => p = pos[t] + Size
    <3> SUFFICES ASSUME cell(p) = cell(pos[t]) PROVE p = pos[t] + Size
      OBVIOUS
    <3>1. cell(p) = cell(pos[t] + Size) /\ pos[t] + Size \in Nat
      BY <1>2, NextRound, SizeAssumption
    <3> QED
      BY <3>1, <2>1, <1>2, <1>3, SameCell, SizeAssumption
  <2> QED
    BY <2>1, <2>2, <1>1, <1>5 DEF FreeOK
<1>8. ASSUME NEW u \in Thread PROVE PushOwnerOK(u)'
  <2> SUFFICES ASSUME pc'[u] \in PushOwns PROVE PushOwnerOK(u)'
    BY DEF PushOwnerOK
  <2>1. u # t /\ PushOwnerOK(u) /\ pc[u] \in PushOwns
    BY <1>1, <1>5 DEF ThreadOK, PushOwns
  <2>2. cell(pos[u]) # cell(pos[t])
    BY <2>1, <1>2, <1>3, CellDiffers, SizeAssumption DEF PushOwnerOK
  <2> QED
    BY <2>1, <2>2, <1>2, <1>5 DEF PushOwnerOK, PushOwns
<1>9. ASSUME NEW u \in Thread PROVE PopOwnerOK(u)'
  <2> SUFFICES ASSUME pc'[u] \in PopOwns PROVE PopOwnerOK(u)'
    BY DEF PopOwnerOK
  <2>1. u # t /\ PopOwnerOK(u) /\ pc[u] \in PopOwns
    BY <1>1, <1>5 DEF ThreadOK, PopOwns
  <2>2. cell(pos[u]) # cell(pos[t])
    <3>1. pos[u] # pos[t]
      BY <2>1, <1>3
    <3>2. pos[u] < pos[t] + Size /\ pos[t] < pos[u] + Size
      BY <2>1, <1>2, <1>3, SizeAssumption DEF PopOwnerOK
    <3> QED
      BY <3>1, <3>2, <1>2, SameCell
  <2> QED
    BY <2>1, <2>2, <1>2, <1>5 DEF PopOwnerOK, PopOwns
<1>10. ASSUME NEW u \in Thread PROVE PushReadOK(u)' /\ PopReadOK(u)'
  <2> SUFFICES ASSUME u # t PROVE PushReadOK(u)' /\ PopReadOK(u)'
    BY <1>5 DEF PushReadOK, PopReadOK, PushPC, PopPC
  <2>1. PushReadOK(u) /\ PopReadOK(u)
    BY <1>1 DEF ThreadOK
  <2>2. ASSUME pos[u] = enqueue_pos, sequence[cell(pos[u])] = pos[u]
        PROVE  cell(pos[u]) # cell(pos[t])
    BY <2>2, <1>2, <1>3, CellDiffers, SizeAssumption
  <2>3. ASSUME pos[u] = dequeue_pos, sequence[cell(pos[u])] = pos[u] + 1
        PROVE  cell(pos[u]) # cell(pos[t])
    BY <2>3, <1>2, <1>3
  <2>4. PushReadOK(u)'
    BY <2>1, <2>2, <1>2, <1>5 DEF PushReadOK
  <2>5. PopReadOK(u)'
    BY <2>1, <2>3, <1>2, <1>5 DEF PopReadOK
  <2> QED
    BY <2>4, <2>5
<1> QED
  BY <1>4, <1>6, <1>7, <1>8, <1>9, <1>10 DEF IInv, ThreadOK

LEMMA StepInv == IInv /\ [Next]_vars => IInv'
<1> SUFFICES ASSUME IInv, [Next]_vars PROVE IInv'
  OBVIOUS
<1>1. ASSUME NEW t \in Thread, \E v \in Value, w \in BOOLEAN : TryPush(t, v, w) PROVE IInv'
  BY <1>1, PushLocal
<1>2. ASSUME NEW t \in Thread, \E w \in BOOLEAN : TryPop(t, w) PROVE IInv'
  BY <1>2, PopLocal
<1>3. ASSUME NEW t \in Thread, PushStep(t) PROVE IInv'
  BY <1>3, PushLocal, PushCasStep, PushPublishStep DEF PushStep
<1>4. ASSUME NEW t \in Thread, PopStep(t) PROVE IInv'
  BY <1>4, PopLocal, PopCasStep, PopPublishStep DEF PopStep
<1>5. CASE UNCHANGED vars
  BY <1>5 DEF vars, shared, IInv, TypeOK, ClaimedOK, FreeOK, ThreadOK,
     PushOwnerOK, PopOwnerOK, PushReadOK, PopReadOK
<1> QED
  BY <1>1, <1>2, <1>3, <1>4, <1>5 DEF Next

\* The inductive invariant holds in every reachable state.
THEOREM Invariance == Spec => []IInv
BY InitInv, StepInv, PTL DEF Spec

\* Every variable keeps its type; in particular dequeue_pos never overtakes
\* enqueue_pos, and enqueue_pos is never more than Size ahead of it.
THEOREM TypeCorrect == Spec => []TypeOK
<1>1. IInv => TypeOK
  BY DEF IInv
<1> QED
  BY <1>1, Invariance, PTL

\* No two threads ever work on the same cell: value needs no other protection
\* than the sequence numbers, however many threads there are.
THEOREM NoRaceOnValue == Spec => []Exclusive
<1>1. IInv => Exclusive
  <2> SUFFICES ASSUME IInv, NEW t \in Thread, NEW u \in Thread, Owner(t), Owner(u),
                      cell(pos[t]) = cell(pos[u])
               PROVE  t = u
    BY DEF Exclusive
  <2>1. /\ enqueue_pos \in Nat /\ dequeue_pos \in Nat
        /\ dequeue_pos <= enqueue_pos /\ enqueue_pos <= dequeue_pos + Size
        /\ pos[t] \in Nat /\ pos[u] \in Nat
    BY Numbers DEF IInv
  <2>2. PushOwnerOK(t) /\ PushOwnerOK(u) /\ PopOwnerOK(t) /\ PopOwnerOK(u)
    BY DEF IInv, ThreadOK
  <2>3. CASE pc[t] \in PushOwns /\ pc[u] \in PushOwns
    <3>1. pos[t] < pos[u] + Size /\ pos[u] < pos[t] + Size
      BY <2>1, <2>2, <2>3, SizeAssumption DEF PushOwnerOK
    <3>2. pos[t] = pos[u]
      BY <3>1, <2>1, SameCell
    <3> QED
      BY <3>2, <2>2, <2>3 DEF PushOwnerOK
  <2>4. CASE pc[t] \in PopOwns /\ pc[u] \in PopOwns
    <3>1. pos[t] < pos[u] + Size /\ pos[u] < pos[t] + Size
      BY <2>1, <2>2, <2>4, SizeAssumption DEF PopOwnerOK
    <3>2. pos[t] = pos[u]
      BY <3>1, <2>1, SameCell
    <3> QED
      BY <3>2, <2>2, <2>4 DEF PopOwnerOK
  <2>5. CASE pc[t] \in PushOwns /\ pc[u] \in PopOwns
    BY <2>1, <2>2, <2>5, CellDiffers, SizeAssumption DEF PushOwnerOK, PopOwnerOK
  <2>6. CASE pc[t] \in PopOwns /\ pc[u] \in PushOwns
    BY <2>1, <2>2, <2>6, CellDiffers, SizeAssumption DEF PushOwnerOK, PopOwnerOK
  <2> QED
    BY <2>3, <2>4, <2>5, <2>6 DEF Owner
<1> QED
  BY <1>1, Invariance, PTL

-----------------------------------------------------------------------------
(* The invariant of the refinement                                         *)

\* A cell that is not handed on yet is somebody's: a claimed position without
\* its value has a push that is not done, and a free one whose cell is not
\* empty yet has a pop that is not done.
ClaimedOwned ==
    \A p \in dequeue_pos..(enqueue_pos - 1) :
       sequence[cell(p)] = p => \E u \in Thread : pc[u] \in PushOwns /\ pos[u] = p
FreeOwned ==
    \A p \in enqueue_pos..(dequeue_pos + Size - 1) :
       sequence[cell(p)] # p => \E u \in Thread : pc[u] \in PopOwns /\ pos[u] + Size = p

\* The sequence number that a thread reads is below the one it waits for only
\* as long as the counter has not passed its position.
PushLoadOK(t) ==
    pc[t] \in PushPC \ PushOwns /\ pos[t] < enqueue_pos => sequence[cell(pos[t])] >= pos[t]
PopLoadOK(t) ==
    pc[t] \in PopPC \ PopOwns /\ pos[t] < dequeue_pos => sequence[cell(pos[t])] > pos[t]

Owned == ClaimedOwned /\ FreeOwned
Loads == \A t \in Thread : PushLoadOK(t) /\ PopLoadOK(t)
RInv == IInv /\ Owned /\ Loads

-----------------------------------------------------------------------------
(* The invariant is inductive                                              *)

\* The facts the steps keep needing, of the invariant and its numbers.
LEMMA Facts ==
    ASSUME IInv
    PROVE  /\ TypeOK
           /\ enqueue_pos \in Nat /\ dequeue_pos \in Nat
           /\ dequeue_pos <= enqueue_pos /\ enqueue_pos <= dequeue_pos + Size
           /\ \A t \in Thread : /\ pos[t] \in Nat /\ cell(pos[t]) \in Cell
                                /\ sequence[cell(pos[t])] \in Nat
                                /\ PushOwnerOK(t) /\ PopOwnerOK(t)
                                /\ PushReadOK(t) /\ PopReadOK(t)
BY Numbers DEF IInv, ThreadOK, TypeOK

\* The steps of t that store no sequence number and claim no position.
Quiet(t) == \/ \E w \in BOOLEAN : TryPop(t, w) \/ \E v \in Value : TryPush(t, v, w)
            \/ PushSeq(t) \/ PushCasFails(t) \/ PushReload(t) \/ PushPos2(t) \/ PushFull(t)
            \/ PushAssign(t)
            \/ PopSeq(t) \/ PopCasFails(t) \/ PopReload(t) \/ PopPos2(t) \/ PopEmpty(t)
            \/ PopMove(t)

LEMMA StepCases ==
    ASSUME Next
    PROVE  \E t \in Thread : \/ Quiet(t) \/ PushCas(t) \/ PopCas(t)
                             \/ PushPublish(t) \/ PopPublish(t)
BY DEF Next, Quiet, PushStep, PopStep

LEMMA QuietInv ==
    ASSUME RInv, NEW t \in Thread, Quiet(t)
    PROVE  Owned' /\ Loads'
<1> USE DEF Quiet, TryPop, TryPush, PushSeq, PushCasFails, PushReload, PushPos2, PushFull,
            PushAssign, PopSeq, PopCasFails, PopReload, PopPos2, PopEmpty, PopMove,
            Goto, SetPos, Stay, Return, shared
<1>1. IInv /\ Owned /\ Loads
  BY DEF RInv
<1>2. /\ TypeOK /\ enqueue_pos \in Nat /\ dequeue_pos \in Nat
  BY <1>1, Facts
<1>3. /\ UNCHANGED <<sequence, enqueue_pos, dequeue_pos>>
      /\ \A u \in Thread \ {t} : pc'[u] = pc[u] /\ pos'[u] = pos[u]
  BY <1>2 DEF TypeOK
<1>4. /\ pc[t] \in PushOwns => pc'[t] \in PushOwns /\ pos'[t] = pos[t]
      /\ pc[t] \in PopOwns => pc'[t] \in PopOwns /\ pos'[t] = pos[t]
  BY <1>2 DEF TypeOK, PushOwns, PopOwns
<1>5. pc'[t] \in PushPC \ PushOwns =>
         pos'[t] = enqueue_pos \/ (pc[t] \in PushPC \ PushOwns /\ pos'[t] = pos[t])
  BY <1>2 DEF TypeOK, PushPC, PushOwns
<1>6. pc'[t] \in PopPC \ PopOwns =>
         pos'[t] = dequeue_pos \/ (pc[t] \in PopPC \ PopOwns /\ pos'[t] = pos[t])
  BY <1>2 DEF TypeOK, PopPC, PopOwns
<1>7. ClaimedOwned'
  BY <1>1, <1>3, <1>4 DEF Owned, ClaimedOwned
<1>8. FreeOwned'
  BY <1>1, <1>3, <1>4 DEF Owned, FreeOwned
<1>9. ASSUME NEW u \in Thread PROVE PushLoadOK(u)' /\ PopLoadOK(u)'
  BY <1>1, <1>2, <1>3, <1>5, <1>6 DEF Loads, PushLoadOK, PopLoadOK
<1> QED
  BY <1>7, <1>8, <1>9 DEF Owned, Loads

\* A push claims a position: its cell has exactly that sequence number.
LEMMA PushCasOwned ==
    ASSUME RInv, NEW t \in Thread, PushCas(t)
    PROVE  Owned' /\ Loads'
<1> USE DEF PushCas, Goto
<1>1. IInv /\ Owned /\ Loads
  BY DEF RInv
<1>2. /\ TypeOK /\ enqueue_pos \in Nat /\ dequeue_pos \in Nat
      /\ \A u \in Thread : pos[u] \in Nat /\ sequence[cell(pos[u])] \in Nat
  BY <1>1, Facts
<1>3. pos[t] = enqueue_pos /\ sequence[cell(enqueue_pos)] = enqueue_pos
  BY <1>1, Facts DEF PushReadOK
<1>4. /\ pc'[t] = "p_assign"
      /\ \A u \in Thread \ {t} : pc'[u] = pc[u]
      /\ UNCHANGED <<pos, sequence, dequeue_pos>> /\ enqueue_pos' = enqueue_pos + 1
  BY <1>2 DEF TypeOK
<1>5. \A u \in Thread : pc[u] \in PushOwns => pc'[u] \in PushOwns
  BY <1>4 DEF PushOwns
<1>6. \A u \in Thread : pc[u] \in PopOwns => pc'[u] \in PopOwns
  BY <1>4 DEF PopOwns
<1>7. ClaimedOwned'
  <2> SUFFICES ASSUME NEW p \in dequeue_pos..enqueue_pos, sequence[cell(p)] = p
               PROVE  \E u \in Thread : pc'[u] \in PushOwns /\ pos[u] = p
    BY <1>2, <1>4 DEF ClaimedOwned
  <2>1. CASE p = enqueue_pos
    BY <2>1, <1>3, <1>4 DEF PushOwns
  <2>2. CASE p # enqueue_pos
    BY <2>2, <1>1, <1>2, <1>5 DEF Owned, ClaimedOwned
  <2> QED
    BY <2>1, <2>2
<1>8. FreeOwned'
  BY <1>1, <1>2, <1>4, <1>6, SizeAssumption DEF Owned, FreeOwned
<1>9. ASSUME NEW u \in Thread PROVE PushLoadOK(u)' /\ PopLoadOK(u)'
  <2>1. pos[u] < enqueue_pos + 1 => pos[u] < enqueue_pos \/ pos[u] = enqueue_pos
    BY <1>2
  <2>2. PushLoadOK(u)'
    BY <2>1, <1>1, <1>2, <1>3, <1>4 DEF Loads, PushLoadOK, PushOwns
  <2>3. PopLoadOK(u)'
    BY <1>1, <1>2, <1>4 DEF Loads, PopLoadOK, PopPC
  <2> QED
    BY <2>2, <2>3
<1> QED
  BY <1>7, <1>8, <1>9 DEF Owned, Loads

\* A pop claims a position: its cell has been handed on by the push.
LEMMA PopCasOwned ==
    ASSUME RInv, NEW t \in Thread, PopCas(t)
    PROVE  Owned' /\ Loads'
<1> USE DEF PopCas, Goto
<1>1. IInv /\ Owned /\ Loads
  BY DEF RInv
<1>2. /\ TypeOK /\ enqueue_pos \in Nat /\ dequeue_pos \in Nat
      /\ \A u \in Thread : pos[u] \in Nat /\ sequence[cell(pos[u])] \in Nat
  BY <1>1, Facts
<1>3. pos[t] = dequeue_pos /\ sequence[cell(dequeue_pos)] = dequeue_pos + 1
  BY <1>1, Facts DEF PopReadOK
<1>4. /\ pc'[t] = "o_move"
      /\ \A u \in Thread \ {t} : pc'[u] = pc[u]
      /\ UNCHANGED <<pos, sequence, enqueue_pos>> /\ dequeue_pos' = dequeue_pos + 1
  BY <1>2 DEF TypeOK
<1>5. \A u \in Thread : pc[u] \in PushOwns => pc'[u] \in PushOwns
  BY <1>4 DEF PushOwns
<1>6. ClaimedOwned'
  BY <1>1, <1>2, <1>4, <1>5 DEF Owned, ClaimedOwned
<1>7. FreeOwned'
  <2> SUFFICES ASSUME NEW p \in enqueue_pos..(dequeue_pos + Size), sequence[cell(p)] # p
               PROVE  \E u \in Thread : pc'[u] \in PopOwns /\ pos[u] + Size = p
    BY <1>2, <1>4, SizeAssumption DEF FreeOwned
  <2>1. CASE p = dequeue_pos + Size
    BY <2>1, <1>3, <1>4 DEF PopOwns
  <2>2. CASE p # dequeue_pos + Size
    <3>1. p \in enqueue_pos..(dequeue_pos + Size - 1)
      BY <2>2, <1>2, SizeAssumption
    <3> QED
      BY <3>1, <1>1, <1>4 DEF Owned, FreeOwned, PopOwns
  <2> QED
    BY <2>1, <2>2
<1>8. ASSUME NEW u \in Thread PROVE PushLoadOK(u)' /\ PopLoadOK(u)'
  <2>1. pos[u] < dequeue_pos + 1 => pos[u] < dequeue_pos \/ pos[u] = dequeue_pos
    BY <1>2
  <2>2. PopLoadOK(u)'
    BY <2>1, <1>1, <1>2, <1>3, <1>4 DEF Loads, PopLoadOK, PopOwns
  <2>3. PushLoadOK(u)'
    BY <1>1, <1>2, <1>4 DEF Loads, PushLoadOK, PushPC
  <2> QED
    BY <2>2, <2>3
<1> QED
  BY <1>6, <1>7, <1>8 DEF Owned, Loads

\* A cell is handed on: the sequence number only grows, and the one that was
\* owed is there now.
LEMMA PublishOwned ==
    ASSUME RInv, NEW t \in Thread, PushPublish(t) \/ PopPublish(t)
    PROVE  Owned' /\ Loads'
<1> DEFINE c == cell(pos[t])
<1>1. IInv /\ Owned /\ Loads
  BY DEF RInv
<1>2. /\ TypeOK /\ enqueue_pos \in Nat /\ dequeue_pos \in Nat
      /\ dequeue_pos <= enqueue_pos /\ enqueue_pos <= dequeue_pos + Size
      /\ \A u \in Thread : /\ pos[u] \in Nat /\ sequence[cell(pos[u])] \in Nat
                           /\ cell(pos[u]) \in Cell
  BY <1>1, Facts
<1>3. /\ PushPublish(t) => /\ pc[t] = "p_publish" /\ sequence[c] = pos[t]
                           /\ dequeue_pos <= pos[t] /\ pos[t] < enqueue_pos
      /\ PopPublish(t) => /\ pc[t] = "o_publish" /\ sequence[c] = pos[t] + 1
                          /\ pos[t] < dequeue_pos /\ enqueue_pos <= pos[t] + Size
  BY <1>1, Facts DEF PushOwnerOK, PopOwnerOK, PushOwns, PopOwns, PushPublish, PopPublish, Return, Goto
<1>4. /\ pc'[t] = "idle"
      /\ \A u \in Thread \ {t} : pc'[u] = pc[u] /\ pos'[u] = pos[u]
      /\ UNCHANGED <<enqueue_pos, dequeue_pos>>
      /\ \A i \in Cell \ {c} : sequence'[i] = sequence[i]
      /\ PushPublish(t) => sequence'[c] = pos[t] + 1
      /\ PopPublish(t) => sequence'[c] = pos[t] + Size
  BY <1>2 DEF TypeOK, PushPublish, PopPublish, Return, Goto
<1>5. sequence'[c] > sequence[c] /\ sequence'[c] \in Int
  BY <1>2, <1>3, <1>4, SizeAssumption
<1> HIDE DEF c
<1>6. ClaimedOwned'
  <2> SUFFICES ASSUME NEW p \in dequeue_pos..(enqueue_pos - 1), sequence'[cell(p)] = p
               PROVE  \E u \in Thread : pc'[u] \in PushOwns /\ pos'[u] = p
    BY <1>4 DEF ClaimedOwned
  <2>1. p \in Nat /\ cell(p) \in Cell /\ sequence[cell(p)] \in {p, p + 1}
    BY <1>1, <1>2, Division DEF IInv, ClaimedOK
  <2>2. cell(p) # c
    BY <2>1, <1>2, <1>5
  <2>3. sequence[cell(p)] = p
    BY <2>1, <2>2, <1>4
  <2>4. PICK u \in Thread : pc[u] \in PushOwns /\ pos[u] = p
    BY <2>3, <1>1 DEF Owned, ClaimedOwned
  <2>5. u # t
    BY <2>2, <2>4 DEF c
  <2> QED
    BY <2>4, <2>5, <1>4
<1>7. FreeOwned'
  <2> SUFFICES ASSUME NEW p \in enqueue_pos..(dequeue_pos + Size - 1), sequence'[cell(p)] # p
               PROVE  \E u \in Thread : pc'[u] \in PopOwns /\ pos'[u] + Size = p
    BY <1>4 DEF FreeOwned
  <2>1. p \in Nat /\ cell(p) \in Cell
    BY <1>2, Division, SizeAssumption
  <2>2. cell(p) # c
    <3> SUFFICES ASSUME cell(p) = c PROVE FALSE
      OBVIOUS
    <3>1. CASE PushPublish(t)
      BY <3>1, <2>1, <1>2, <1>3, CellDiffers, SizeAssumption DEF c
    <3>2. CASE PopPublish(t)
      <4>1. cell(p) = cell(pos[t] + Size) /\ pos[t] + Size \in Nat
        BY <1>2, NextRound, SizeAssumption DEF c
      <4>2. p = pos[t] + Size
        BY <4>1, <3>2, <2>1, <1>2, <1>3, SameCell, SizeAssumption
      <4> QED
        BY <4>2, <3>2, <1>4
    <3> QED
      BY <3>1, <3>2
  <2>3. sequence[cell(p)] # p
    BY <2>1, <2>2, <1>4
  <2>4. PICK u \in Thread : pc[u] \in PopOwns /\ pos[u] + Size = p
    BY <2>3, <1>1 DEF Owned, FreeOwned
  <2>5. cell(pos[u] + Size) = cell(pos[u])
    BY <1>2, NextRound
  <2>6. u # t
    BY <2>2, <2>4, <2>5 DEF c
  <2> QED
    BY <2>4, <2>6, <1>4
<1>8. ASSUME NEW u \in Thread PROVE PushLoadOK(u)' /\ PopLoadOK(u)'
  <2>1. CASE u = t
    BY <2>1, <1>4 DEF PushLoadOK, PopLoadOK, PushPC, PopPC
  <2>2. CASE u # t
    <3>1. PushLoadOK(u) /\ PopLoadOK(u) /\ pc'[u] = pc[u] /\ pos'[u] = pos[u]
      BY <2>2, <1>1, <1>4 DEF Loads
    <3>2. sequence'[cell(pos[u])] >= sequence[cell(pos[u])] /\ sequence'[cell(pos[u])] \in Int
      BY <1>2, <1>4, <1>5
    <3> QED
      BY <3>1, <3>2, <1>2, <1>4 DEF PushLoadOK, PopLoadOK
  <2> QED
    BY <2>1, <2>2
<1> QED
  BY <1>6, <1>7, <1>8 DEF Owned, Loads

LEMMA RInvInit == Init => RInv
<1> SUFFICES ASSUME Init PROVE RInv
  OBVIOUS
<1>1. IInv
  BY InitInv
<1>2. ClaimedOwned
  BY DEF Init, ClaimedOwned
<1>3. FreeOwned
  <2> SUFFICES ASSUME NEW p \in 0..(Size - 1) PROVE sequence[cell(p)] = p
    BY SizeAssumption DEF Init, FreeOwned
  <2>1. cell(p) \in Cell
    BY Division, SizeAssumption
  <2>2. cell(p) = p
    BY <2>1, SizeAssumption, SameCell, CellDiffers DEF cell, Cell
  <2> QED
    BY <2>1, <2>2 DEF Init
<1>4. Loads
  BY DEF Init, Loads, PushLoadOK, PopLoadOK, PushPC, PopPC
<1> QED
  BY <1>1, <1>2, <1>3, <1>4 DEF RInv, Owned

LEMMA RInvNext == RInv /\ [Next]_vars => RInv'
<1> SUFFICES ASSUME RInv, [Next]_vars PROVE RInv'
  OBVIOUS
<1>1. IInv'
  BY StepInv DEF RInv
<1>2. ASSUME Next PROVE Owned' /\ Loads'
  BY <1>2, StepCases, QuietInv, PushCasOwned, PopCasOwned, PublishOwned
<1>3. ASSUME UNCHANGED vars PROVE Owned' /\ Loads'
  BY <1>3 DEF vars, shared, RInv, Owned, Loads, ClaimedOwned, FreeOwned, PushLoadOK, PopLoadOK
<1> QED
  BY <1>1, <1>2, <1>3 DEF RInv

\* The invariant of the refinement holds in every reachable state.
THEOREM OwnersInvariance == Spec => []RInv
BY RInvInit, RInvNext, PTL DEF Spec

-----------------------------------------------------------------------------
(* What the mapped state is                                                *)

Held == Value \union {NoValue}

\* Item(p) is in the cell, unless a push has still to put it there.
ItemIs ==
    \A p \in Nat :
       /\ (\A u \in Thread : ~(pc[u] = "p_assign" /\ pos[u] = p)) => Item(p) = value[cell(p)]
       /\ \A t \in Thread :
            /\ pc[t] = "p_assign" /\ pos[t] = p
            /\ \A u \in Thread : pc[u] = "p_assign" /\ pos[u] = p => u = t
            => Item(p) = val[t]

LEMMA ItemFacts == ItemIs
<1> SUFFICES ASSUME NEW p \in Nat
             PROVE  /\ (\A u \in Thread : ~(pc[u] = "p_assign" /\ pos[u] = p)) => Item(p) = value[cell(p)]
                    /\ \A t \in Thread :
                         /\ pc[t] = "p_assign" /\ pos[t] = p
                         /\ \A u \in Thread : pc[u] = "p_assign" /\ pos[u] = p => u = t
                         => Item(p) = val[t]
  BY DEF ItemIs
<1> DEFINE Late == {t \in Thread : pc[t] = "p_assign" /\ pos[t] = p}
<1>1. Item(p) = IF Late = {} THEN value[cell(p)] ELSE val[CHOOSE t \in Late : TRUE]
  BY DEF Item
<1>2. ASSUME \A u \in Thread : ~(pc[u] = "p_assign" /\ pos[u] = p) PROVE Item(p) = value[cell(p)]
  BY <1>1, <1>2
<1>3. ASSUME NEW t \in Thread, pc[t] = "p_assign", pos[t] = p,
             \A u \in Thread : pc[u] = "p_assign" /\ pos[u] = p => u = t
      PROVE  Item(p) = val[t]
  <2>1. Late = {t}
    BY <1>3
  <2>2. (CHOOSE u \in Late : TRUE) = t
    BY <2>1
  <2> QED
    BY <1>1, <2>1, <2>2
<1> QED
  BY <1>2, <1>3

LEMMA ItemFactsNext == ItemIs'
BY ItemFacts, PTL

\* The items are those of the claimed positions.
ItemsAre ==
    /\ Items \in Seq(Held)
    /\ Len(Items) = enqueue_pos - dequeue_pos
    /\ \A p \in dequeue_pos..(enqueue_pos - 1) : Items[p - dequeue_pos + 1] = Item(p)

LEMMA ItemsFacts == IInv => ItemsAre
<1> SUFFICES ASSUME IInv PROVE ItemsAre
  OBVIOUS
<1> DEFINE n == enqueue_pos - dequeue_pos
<1>1. /\ TypeOK /\ n \in Nat /\ dequeue_pos \in Nat /\ enqueue_pos \in Nat
      /\ \A t \in Thread : PushOwnerOK(t)
  BY Facts
<1>2. ASSUME NEW i \in 1..n PROVE Item(dequeue_pos + i - 1) \in Held
  <2> DEFINE p == dequeue_pos + i - 1
  <2>1. p \in Nat /\ cell(p) \in Cell
    BY <1>1, Division
  <2> HIDE DEF p
  <2>2. ASSUME \A u \in Thread : ~(pc[u] = "p_assign" /\ pos[u] = p) PROVE Item(p) \in Held
    <3>1. Item(p) = value[cell(p)]
      BY <2>1, <2>2, ItemFacts DEF ItemIs
    <3>2. value \in [Cell -> Held]
      BY <1>1 DEF TypeOK, Held
    <3> QED
      BY <3>1, <3>2, <2>1
  <2>3. ASSUME NEW t \in Thread, pc[t] = "p_assign", pos[t] = p PROVE Item(p) \in Held
    <3>1. Item(p) = val[t]
      BY <2>1, <2>3, <1>1, ItemFacts DEF ItemIs, PushOwnerOK, PushOwns
    <3> QED
      BY <3>1, <1>1 DEF TypeOK, Held
  <2> QED
    BY <2>2, <2>3 DEF p
<1>3. Items \in [1..n -> Held]
  BY <1>2 DEF Items
<1>4. Items \in Seq(Held)
  BY <1>1, <1>3, SeqDef
<1>5. Len(Items) = n
  <2>1. DOMAIN Items = 1..n /\ DOMAIN Items = 1..Len(Items) /\ Len(Items) \in Nat
    BY <1>3, <1>4, LenProperties
  <2> HIDE DEF n
  <2> HIDE DEF n
  <2>2. \A m, k \in Nat : 1..m = 1..k => m = k
    <3> SUFFICES ASSUME NEW m \in Nat, NEW k \in Nat, 1..m = 1..k PROVE m = k
      OBVIOUS
    <3>1. m \in 1..m \/ m = 0
      OBVIOUS
    <3>2. k \in 1..k \/ k = 0
      OBVIOUS
    <3> QED
      BY <3>1, <3>2
  <2> QED
    BY <2>1, <2>2, <1>1
<1>6. ASSUME NEW p \in dequeue_pos..(enqueue_pos - 1)
      PROVE  Items[p - dequeue_pos + 1] = Item(p)
  <2>1. /\ p - dequeue_pos + 1 \in 1..n
        /\ dequeue_pos + (p - dequeue_pos + 1) - 1 = p
    BY <1>1
  <2>2. Items[p - dequeue_pos + 1] = Item(dequeue_pos + (p - dequeue_pos + 1) - 1)
    BY <2>1 DEF Items
  <2> QED
    BY <2>1, <2>2
<1> QED
  BY <1>4, <1>5, <1>6 DEF ItemsAre

LEMMA ItemsFactsNext == IInv' => ItemsAre'
BY ItemsFacts, PTL

\* What op is of a thread with program counter x.
OpOf(x) == CASE x = "idle" -> "idle"
             [] x \in PushOwns -> "pushed"
             [] x \in PushPC \ PushOwns -> "push"
             [] x \in PopOwns -> "popped"
             [] x \in PopPC \ PopOwns -> "pop"

LEMMA OpValues ==
    /\ OpOf("idle") = "idle"
    /\ \A x \in PushOwns : OpOf(x) = "pushed"
    /\ \A x \in PushPC \ PushOwns : OpOf(x) = "push"
    /\ \A x \in PopOwns : OpOf(x) = "popped"
    /\ \A x \in PopPC \ PopOwns : OpOf(x) = "pop"
<1> USE DEF OpOf, PushPC, PushOwns, PopPC, PopOwns
<1>1. OpOf("idle") = "idle"
  OBVIOUS
<1>2. OpOf("p_assign") = "pushed" /\ OpOf("p_publish") = "pushed"
  OBVIOUS
<1>3. \A x \in PushPC \ PushOwns : OpOf(x) = "push"
  OBVIOUS
<1>4. OpOf("o_move") = "popped" /\ OpOf("o_publish") = "popped"
  OBVIOUS
<1>5. \A x \in PopPC \ PopOwns : OpOf(x) = "pop"
  OBVIOUS
<1> QED
  BY <1>1, <1>2, <1>3, <1>4, <1>5

LEMMA OpIs ==
    /\ Op = [u \in Thread |-> Op[u]]
    /\ \A u \in Thread : Op[u] = OpOf(pc[u])
<1>1. Op = [u \in Thread |-> OpOf(pc[u])]
  BY DEF Op, OpOf
<1> QED
  BY <1>1

LEMMA OpStep ==
    ASSUME TypeOK, NEW t \in Thread, NEW x, pc' = [pc EXCEPT ![t] = x]
    PROVE  Op' = [Op EXCEPT ![t] = OpOf(x)]
<1>1. Op = [u \in Thread |-> OpOf(pc[u])]
  BY DEF Op, OpOf
<1>2. Op' = [u \in Thread |-> OpOf(pc'[u])]
  BY DEF Op, OpOf
<1> QED
  BY <1>1, <1>2 DEF TypeOK

\* The threads but t keep what they push or have taken.
LEMMA ArgStep ==
    ASSUME NEW t \in Thread,
           \A u \in Thread \ {t} : /\ pc'[u] = pc[u] /\ pos'[u] = pos[u] /\ val'[u] = val[u]
                                   /\ pc[u] = "o_move" => value'[cell(pos[u])] = value[cell(pos[u])]
    PROVE  Arg' = [Arg EXCEPT ![t] = Arg'[t]]
<1>1. ASSUME NEW u \in Thread \ {t} PROVE Arg'[u] = Arg[u]
  BY <1>1 DEF Arg
<1>2. DOMAIN Arg = Thread /\ DOMAIN Arg' = Thread /\ Arg = [u \in Thread |-> Arg[u]]
  BY DEF Arg
<1>3. Arg' = [u \in Thread |-> Arg'[u]]
  BY DEF Arg
<1> QED
  BY <1>1, <1>2, <1>3

\* An item stays if its cell and its push do.
LEMMA ItemKept ==
    ASSUME IInv, NEW p \in Nat, value'[cell(p)] = value[cell(p)],
           \A u \in Thread : /\ (pc'[u] = "p_assign" /\ pos'[u] = p) <=> (pc[u] = "p_assign" /\ pos[u] = p)
                             /\ pc[u] = "p_assign" /\ pos[u] = p => val'[u] = val[u]
    PROVE  Item(p)' = Item(p)
<1>1. CASE \A u \in Thread : ~(pc[u] = "p_assign" /\ pos[u] = p)
  <2>1. Item(p) = value[cell(p)]
    BY <1>1, ItemFacts DEF ItemIs
  <2>2. Item(p)' = value'[cell(p)]
    BY <1>1, ItemFactsNext DEF ItemIs
  <2> QED
    BY <2>1, <2>2
<1>2. ASSUME NEW t \in Thread, pc[t] = "p_assign", pos[t] = p PROVE Item(p)' = Item(p)
  <2>1. \A u \in Thread : pc[u] = "p_assign" /\ pos[u] = p => u = t
    BY <1>2, Facts DEF PushOwnerOK, PushOwns
  <2>2. Item(p) = val[t]
    BY <1>2, <2>1, ItemFacts DEF ItemIs
  <2>3. Item(p)' = val'[t]
    BY <1>2, <2>1, ItemFactsNext DEF ItemIs
  <2> QED
    BY <1>2, <2>2, <2>3
<1> QED
  BY <1>1, <1>2

LEMMA ItemsKept ==
    ASSUME IInv, UNCHANGED <<enqueue_pos, dequeue_pos>>,
           \A p \in dequeue_pos..(enqueue_pos - 1) : Item(p)' = Item(p)
    PROVE  Items' = Items
<1> DEFINE n == enqueue_pos - dequeue_pos
<1>1. dequeue_pos \in Nat /\ enqueue_pos \in Nat
  BY Facts
<1>2. ASSUME NEW i \in 1..n PROVE Item(dequeue_pos + i - 1)' = Item(dequeue_pos + i - 1)
  <2>1. dequeue_pos + i - 1 \in dequeue_pos..(enqueue_pos - 1)
    BY <1>1
  <2> QED
    BY <2>1
<1> QED
  BY <1>2 DEF Items

\* Steps that neither assign nor move a value: the visible state of no other
\* thread changes, nor do the items.
LEMMA PlainStep ==
    ASSUME IInv, NEW t \in Thread, UNCHANGED <<value, enqueue_pos, dequeue_pos>>,
           \A u \in Thread \ {t} : pc'[u] = pc[u] /\ pos'[u] = pos[u] /\ val'[u] = val[u],
           pc[t] \notin {"p_assign", "o_move"}, pc'[t] \notin {"p_assign", "o_move"}
    PROVE  /\ Items' = Items
           /\ Arg[t] = val[t]
           /\ Arg' = [Arg EXCEPT ![t] = val'[t]]
<1>1. ASSUME NEW p \in dequeue_pos..(enqueue_pos - 1) PROVE Item(p)' = Item(p)
  <2>1. p \in Nat
    BY Facts
  <2>2. \A u \in Thread : /\ (pc'[u] = "p_assign" /\ pos'[u] = p) <=> (pc[u] = "p_assign" /\ pos[u] = p)
                          /\ pc[u] = "p_assign" /\ pos[u] = p => val'[u] = val[u]
    OBVIOUS
  <2> QED
    BY <2>1, <2>2, ItemKept
<1>2. Items' = Items
  BY <1>1, ItemsKept
<1>3. Arg' = [Arg EXCEPT ![t] = Arg'[t]]
  BY ArgStep
<1>4. Arg[t] = val[t] /\ Arg'[t] = val'[t]
  BY DEF Arg
<1> QED
  BY <1>2, <1>3, <1>4

-----------------------------------------------------------------------------
(* Every step is a step of BoundedFifo                                     *)

LEMMA MapInit == Init => Fifo!BInit
<1> SUFFICES ASSUME Init PROVE Fifo!BInit
  OBVIOUS
<1>1. Items = << >>
  <2>1. ItemsAre
    BY InitInv, ItemsFacts
  <2> QED
    BY <2>1, EmptySeq DEF ItemsAre, Init
<1>2. Op = [t \in Thread |-> "idle"]
  BY OpIs, OpValues DEF Init
<1>3. Arg = [t \in Thread |-> NoValue]
  BY DEF Init, Arg
<1> QED
  BY <1>1, <1>2, <1>3 DEF Init, Fifo!BInit

\* What an operation does before it claims a position and while it looks for one.
LEMMA MapQuiet ==
    ASSUME RInv, NEW t \in Thread,
           \/ PushSeq(t) /\ ~Return(t, "p_seq")
           \/ PushCasFails(t) \/ PushReload(t) \/ PushPos2(t)
           \/ PushFull(t) /\ ~Return(t, "p_full")
           \/ PopSeq(t) /\ ~Return(t, "o_seq")
           \/ PopCasFails(t) \/ PopReload(t) \/ PopPos2(t)
           \/ PopEmpty(t) /\ ~Return(t, "o_empty")
    PROVE  UNCHANGED <<Items, Op, Arg, weak>>
<1> USE DEF PushSeq, PushCasFails, PushReload, PushPos2, PushFull, PopSeq, PopCasFails,
            PopReload, PopPos2, PopEmpty, Goto, SetPos, Stay, shared
<1>1. TypeOK /\ IInv
  BY Facts DEF RInv
<1>2. /\ UNCHANGED <<value, enqueue_pos, dequeue_pos, val, weak>>
      /\ \A u \in Thread \ {t} : pc'[u] = pc[u] /\ pos'[u] = pos[u]
  BY <1>1 DEF TypeOK
<1>3. PICK x : pc' = [pc EXCEPT ![t] = x] /\ OpOf(x) = OpOf(pc[t])
               /\ x \notin {"p_assign", "o_move"} /\ pc[t] \notin {"p_assign", "o_move"}
  BY <1>1 DEF OpOf, PushPC, PopPC, PushOwns, PopOwns
<1>4. Op' = Op
  <2>1. Op' = [Op EXCEPT ![t] = OpOf(pc[t])]
    BY <1>1, <1>3, OpStep
  <2> QED
    BY <2>1, OpIs
<1>5. pc'[t] = x
  BY <1>1, <1>3 DEF TypeOK
<1>6. Items' = Items /\ Arg[t] = val[t] /\ Arg' = [Arg EXCEPT ![t] = val'[t]]
  BY <1>1, <1>2, <1>3, <1>5, PlainStep
<1>7. Arg = [u \in Thread |-> Arg[u]]
  BY DEF Arg
<1> QED
  BY <1>2, <1>4, <1>6, <1>7

LEMMA MapTryPush ==
    ASSUME RInv, NEW t \in Thread, NEW v \in Value, NEW w \in BOOLEAN, TryPush(t, v, w)
    PROVE  Fifo!CallPush(t, v, w)
<1> USE DEF TryPush, Goto, shared
<1>1. TypeOK /\ IInv
  BY Facts DEF RInv
<1>2. Op[t] = "idle" /\ Op' = [Op EXCEPT ![t] = "push"]
  <2>1. Op' = [Op EXCEPT ![t] = OpOf("p_seq")]
    BY <1>1, OpStep
  <2>2. OpOf("p_seq") = "push" /\ Op[t] = "idle"
    BY OpIs, OpValues DEF PushPC, PushOwns
  <2> QED
    BY <2>1, <2>2
<1>3. /\ UNCHANGED <<value, enqueue_pos, dequeue_pos>>
      /\ \A u \in Thread \ {t} : pc'[u] = pc[u] /\ pos'[u] = pos[u] /\ val'[u] = val[u]
      /\ pc[t] = "idle" /\ pc'[t] = "p_seq" /\ val'[t] = v
  BY <1>1 DEF TypeOK
<1>4. Items' = Items /\ Arg' = [Arg EXCEPT ![t] = v]
  BY <1>1, <1>3, PlainStep
<1> QED
  BY <1>2, <1>4 DEF Fifo!CallPush

LEMMA MapTryPop ==
    ASSUME RInv, NEW t \in Thread, NEW w \in BOOLEAN, TryPop(t, w)
    PROVE  Fifo!CallPop(t, w)
<1> USE DEF TryPop, Goto, shared
<1>1. TypeOK /\ IInv
  BY Facts DEF RInv
<1>2. Op[t] = "idle" /\ Op' = [Op EXCEPT ![t] = "pop"]
  <2>1. Op' = [Op EXCEPT ![t] = OpOf("o_seq")]
    BY <1>1, OpStep
  <2>2. OpOf("o_seq") = "pop" /\ Op[t] = "idle"
    BY OpIs, OpValues DEF PopPC, PopOwns
  <2> QED
    BY <2>1, <2>2
<1>3. /\ UNCHANGED <<value, enqueue_pos, dequeue_pos>>
      /\ \A u \in Thread \ {t} : pc'[u] = pc[u] /\ pos'[u] = pos[u] /\ val'[u] = val[u]
      /\ pc[t] = "idle" /\ pc'[t] = "o_seq" /\ val'[t] = val[t]
  BY <1>1 DEF TypeOK
<1>4. Items' = Items /\ Arg' = Arg
  <2>1. Items' = Items /\ Arg[t] = val[t] /\ Arg' = [Arg EXCEPT ![t] = val'[t]]
    BY <1>1, <1>3, PlainStep
  <2>2. Arg = [u \in Thread |-> Arg[u]]
    BY DEF Arg
  <2> QED
    BY <1>3, <2>1, <2>2
<1> QED
  BY <1>2, <1>4 DEF Fifo!CallPop

\* An operation ends, with its value published or moved out, or with nothing done.
LEMMA MapReturn ==
    ASSUME RInv, NEW t \in Thread, NEW x, Return(t, x), x \notin {"idle", "p_assign", "o_move"},
           UNCHANGED <<value, enqueue_pos, dequeue_pos>>
    PROVE  Fifo!Fail(t)
<1> USE DEF Return, Goto
<1>1. TypeOK /\ IInv
  BY Facts DEF RInv
<1>2. Op' = [Op EXCEPT ![t] = "idle"]
  BY <1>1, OpStep, OpValues
<1>3. /\ \A u \in Thread \ {t} : pc'[u] = pc[u] /\ pos'[u] = pos[u] /\ val'[u] = val[u]
      /\ pc[t] = x /\ pc'[t] = "idle" /\ val'[t] = NoValue
  BY <1>1 DEF TypeOK
<1>4. Items' = Items /\ Arg' = [Arg EXCEPT ![t] = NoValue]
  BY <1>1, <1>3, PlainStep
<1> QED
  BY <1>2, <1>4 DEF Fifo!Fail

LEMMA MapPublish ==
    ASSUME RInv, NEW t \in Thread, PushPublish(t) \/ PopPublish(t)
    PROVE  Fifo!Return(t)
<1>1. \E x \in {"p_publish", "o_publish"} : Return(t, x) /\ UNCHANGED <<value, enqueue_pos, dequeue_pos>>
  BY DEF PushPublish, PopPublish
<1>2. Fifo!Fail(t)
  BY <1>1, MapReturn
<1>3. Op[t] \in {"pushed", "popped"}
  BY <1>1, OpIs, OpValues DEF Return, Goto, PushOwns, PopOwns
<1> QED
  BY <1>2, <1>3 DEF Fifo!Fail, Fifo!Return

\* try_push returns false: the queue is full, or a weak one has met a cell whose
\* pop is not done.
LEMMA MapFailPush ==
    ASSUME RInv, NEW t \in Thread,
           \/ PushSeq(t) /\ Return(t, "p_seq")
           \/ PushFull(t) /\ Return(t, "p_full")
    PROVE  Fifo!FailPush(t)
<1>1. /\ IInv /\ Owned /\ TypeOK /\ enqueue_pos \in Nat /\ dequeue_pos \in Nat /\ ItemsAre
      /\ enqueue_pos <= dequeue_pos + Size /\ dequeue_pos <= enqueue_pos
      /\ pos[t] \in Nat /\ cell(pos[t]) \in Cell /\ sequence[cell(pos[t])] \in Nat
      /\ PushReadOK(t) /\ PushLoadOK(t)
  BY Facts, ItemsFacts DEF RInv, Loads
<1>2. Op[t] = "push" /\ pos[t] <= enqueue_pos
  BY <1>1, OpIs, OpValues DEF Return, Goto, PushPC, PushOwns, PushReadOK
<1>3. Fifo!Fail(t)
  <2>1. UNCHANGED <<value, enqueue_pos, dequeue_pos>>
    BY DEF PushSeq, PushFull, Return, Goto, Stay, shared
  <2> QED
    BY <2>1, MapReturn
<1>4. CASE PushFull(t) /\ Return(t, "p_full")
  <2>1. dequeue_pos + Size = pos[t]
    BY <1>4, <1>1 DEF PushFull, Return, Goto, TypeOK
  <2>2. Len(Items) = Size
    BY <2>1, <1>1, <1>2, SizeAssumption DEF ItemsAre
  <2> QED
    BY <2>2, <1>2, <1>3 DEF Fifo!FailPush
<1>5. CASE PushSeq(t) /\ Return(t, "p_seq")
  <2>1. sequence[cell(pos[t])] < pos[t] /\ weak[t] /\ pc[t] = "p_seq"
    BY <1>5, <1>1 DEF PushSeq, Return, Goto, TypeOK
  <2>2. pos[t] = enqueue_pos
    BY <2>1, <1>1, <1>2 DEF PushLoadOK, PushPC, PushOwns
  <2>3. CASE enqueue_pos = dequeue_pos + Size
    <3>1. Len(Items) = Size
      BY <2>3, <1>1, SizeAssumption DEF ItemsAre
    <3> QED
      BY <3>1, <1>2, <1>3 DEF Fifo!FailPush
  <2>4. CASE enqueue_pos # dequeue_pos + Size
    <3>1. pos[t] \in enqueue_pos..(dequeue_pos + Size - 1)
      BY <2>2, <2>4, <1>1, SizeAssumption
    <3>2. PICK u \in Thread : pc[u] \in PopOwns
      BY <3>1, <2>1, <1>1 DEF Owned, FreeOwned
    <3>3. Op[u] = "popped"
      BY <3>2, OpIs, OpValues
    <3> QED
      BY <3>3, <2>1, <1>2, <1>3 DEF Fifo!FailPush
  <2> QED
    BY <2>3, <2>4
<1> QED
  BY <1>4, <1>5

\* try_pop returns false: the queue is empty, or a weak one has met a cell whose
\* push is not done.
LEMMA MapFailPop ==
    ASSUME RInv, NEW t \in Thread,
           \/ PopSeq(t) /\ Return(t, "o_seq")
           \/ PopEmpty(t) /\ Return(t, "o_empty")
    PROVE  Fifo!FailPop(t)
<1>1. /\ IInv /\ Owned /\ TypeOK /\ enqueue_pos \in Nat /\ dequeue_pos \in Nat /\ ItemsAre
      /\ enqueue_pos <= dequeue_pos + Size /\ dequeue_pos <= enqueue_pos
      /\ pos[t] \in Nat /\ cell(pos[t]) \in Cell /\ sequence[cell(pos[t])] \in Nat
      /\ PopReadOK(t) /\ PopLoadOK(t)
  BY Facts, ItemsFacts DEF RInv, Loads
<1>2. Op[t] = "pop" /\ pos[t] <= dequeue_pos
  BY <1>1, OpIs, OpValues DEF Return, Goto, PopPC, PopOwns, PopReadOK
<1>3. Fifo!Fail(t)
  <2>1. UNCHANGED <<value, enqueue_pos, dequeue_pos>>
    BY DEF PopSeq, PopEmpty, Return, Goto, Stay, shared
  <2> QED
    BY <2>1, MapReturn
<1>4. ASSUME enqueue_pos = dequeue_pos PROVE Items = << >>
  BY <1>4, <1>1, EmptySeq DEF ItemsAre
<1>5. CASE PopEmpty(t) /\ Return(t, "o_empty")
  <2>1. enqueue_pos = pos[t]
    BY <1>5, <1>1 DEF PopEmpty, Return, Goto, TypeOK
  <2>2. enqueue_pos = dequeue_pos
    BY <2>1, <1>1, <1>2
  <2> QED
    BY <2>2, <1>2, <1>3, <1>4 DEF Fifo!FailPop
<1>6. CASE PopSeq(t) /\ Return(t, "o_seq")
  <2>1. sequence[cell(pos[t])] < pos[t] + 1 /\ weak[t] /\ pc[t] = "o_seq"
    BY <1>6, <1>1 DEF PopSeq, Return, Goto, TypeOK
  <2>2. pos[t] = dequeue_pos
    BY <2>1, <1>1, <1>2 DEF PopLoadOK, PopPC, PopOwns
  <2>3. CASE enqueue_pos = dequeue_pos
    BY <2>3, <1>2, <1>3, <1>4 DEF Fifo!FailPop
  <2>4. CASE enqueue_pos # dequeue_pos
    <3>1. pos[t] \in dequeue_pos..(enqueue_pos - 1)
      BY <2>2, <2>4, <1>1
    <3>2. sequence[cell(pos[t])] = pos[t]
      BY <3>1, <2>1, <1>1 DEF IInv, ClaimedOK
    <3>3. PICK u \in Thread : pc[u] \in PushOwns
      BY <3>1, <3>2, <1>1 DEF Owned, ClaimedOwned
    <3>4. Op[u] = "pushed"
      BY <3>3, OpIs, OpValues
    <3> QED
      BY <3>4, <2>1, <1>2, <1>3 DEF Fifo!FailPop
  <2> QED
    BY <2>3, <2>4
<1> QED
  BY <1>5, <1>6

\* Nobody but its owner sees whether a value is in its cell yet.
LEMMA MapAssign ==
    ASSUME RInv, NEW t \in Thread, PushAssign(t)
    PROVE  UNCHANGED <<Items, Op, Arg, weak>>
<1> DEFINE c == cell(pos[t])
<1> USE DEF PushAssign, Goto
<1>1. /\ IInv /\ TypeOK /\ enqueue_pos \in Nat /\ dequeue_pos \in Nat
      /\ enqueue_pos <= dequeue_pos + Size
      /\ \A u \in Thread : pos[u] \in Nat /\ cell(pos[u]) \in Cell
                           /\ PushOwnerOK(u) /\ PopOwnerOK(u)
  BY Facts DEF RInv
<1>2. /\ pc[t] = "p_assign" /\ pc'[t] = "p_publish" /\ val'[t] = NoValue
      /\ \A u \in Thread \ {t} : pc'[u] = pc[u] /\ val'[u] = val[u]
      /\ value'[c] = val[t] /\ \A i \in Cell \ {c} : value'[i] = value[i]
      /\ UNCHANGED <<pos, weak, enqueue_pos, dequeue_pos>>
  BY <1>1 DEF TypeOK
<1>3. /\ dequeue_pos <= pos[t] /\ pos[t] < enqueue_pos
      /\ \A u \in Thread : pc[u] \in PushOwns /\ pos[u] = pos[t] => u = t
  BY <1>1, <1>2 DEF PushOwnerOK, PushOwns
<1> HIDE DEF c
<1>4. ASSUME NEW p \in dequeue_pos..(enqueue_pos - 1) PROVE Item(p)' = Item(p)
  <2>1. p \in Nat /\ cell(p) \in Cell
    BY <1>1, Division
  <2>2. CASE p = pos[t]
    <3>1. Item(p) = val[t]
      BY <2>1, <2>2, <1>2, <1>3, ItemFacts DEF ItemIs, PushOwns
    <3>2. Item(p)' = value'[cell(p)]
      BY <2>1, <2>2, <1>2, <1>3, ItemFactsNext DEF ItemIs, PushOwns
    <3> QED
      BY <3>1, <3>2, <2>2, <1>2 DEF c
  <2>3. CASE p # pos[t]
    <3>1. cell(p) # c
      BY <2>1, <2>3, <1>1, <1>3, SameCell, SizeAssumption DEF c
    <3>2. value'[cell(p)] = value[cell(p)]
      BY <3>1, <2>1, <1>2
    <3>3. ASSUME NEW u \in Thread
          PROVE  /\ (pc'[u] = "p_assign" /\ pos'[u] = p) <=> (pc[u] = "p_assign" /\ pos[u] = p)
                 /\ pc[u] = "p_assign" /\ pos[u] = p => val'[u] = val[u]
      BY <2>3, <1>2
    <3> QED
      BY <3>2, <3>3, <2>1, <1>1, ItemKept
  <2> QED
    BY <2>2, <2>3
<1>5. Items' = Items
  BY <1>1, <1>2, <1>4, ItemsKept
<1>6. Op' = Op
  <2>1. Op' = [Op EXCEPT ![t] = OpOf("p_publish")]
    BY <1>1, OpStep
  <2> QED
    BY <2>1, <1>2, OpIs, OpValues DEF PushOwns
<1>7. Arg' = Arg
  <2>1. ASSUME NEW u \in Thread, pc[u] = "o_move" PROVE value'[cell(pos[u])] = value[cell(pos[u])]
    <3>1. cell(pos[u]) # c
      BY <2>1, <1>1, <1>3, CellDiffers, SizeAssumption DEF PopOwnerOK, PopOwns, c
    <3> QED
      BY <3>1, <1>1, <1>2
  <2>2. Arg' = [Arg EXCEPT ![t] = Arg'[t]]
    BY <2>1, <1>2, ArgStep
  <2>3. Arg'[t] = Arg[t] /\ Arg = [u \in Thread |-> Arg[u]]
    BY <1>2 DEF Arg
  <2> QED
    BY <2>2, <2>3
<1> QED
  BY <1>2, <1>5, <1>6, <1>7

\* Nobody but its owner sees whether a value has left its cell yet.
LEMMA MapMove ==
    ASSUME RInv, NEW t \in Thread, PopMove(t)
    PROVE  UNCHANGED <<Items, Op, Arg, weak>>
<1> DEFINE c == cell(pos[t])
<1> USE DEF PopMove, Goto
<1>1. /\ IInv /\ TypeOK /\ enqueue_pos \in Nat /\ dequeue_pos \in Nat
      /\ enqueue_pos <= dequeue_pos + Size /\ dequeue_pos <= enqueue_pos
      /\ \A u \in Thread : pos[u] \in Nat /\ cell(pos[u]) \in Cell
                           /\ PushOwnerOK(u) /\ PopOwnerOK(u)
  BY Facts DEF RInv
<1>2. /\ pc[t] = "o_move" /\ pc'[t] = "o_publish" /\ val'[t] = value[c]
      /\ \A u \in Thread \ {t} : pc'[u] = pc[u] /\ val'[u] = val[u]
      /\ \A i \in Cell \ {c} : value'[i] = value[i]
      /\ UNCHANGED <<pos, weak, enqueue_pos, dequeue_pos>>
  BY <1>1 DEF TypeOK
<1>3. /\ pos[t] < dequeue_pos /\ enqueue_pos <= pos[t] + Size
      /\ \A u \in Thread : pc[u] \in PopOwns /\ pos[u] = pos[t] => u = t
  BY <1>1, <1>2 DEF PopOwnerOK, PopOwns
<1> HIDE DEF c
<1>4. ASSUME NEW p \in dequeue_pos..(enqueue_pos - 1) PROVE Item(p)' = Item(p)
  <2>1. p \in Nat /\ cell(p) \in Cell
    BY <1>1, Division
  <2>2. cell(p) # c
    BY <2>1, <1>1, <1>3, CellDiffers, SizeAssumption DEF c
  <2>3. value'[cell(p)] = value[cell(p)]
    BY <2>1, <2>2, <1>2
  <2>4. ASSUME NEW u \in Thread
        PROVE  /\ (pc'[u] = "p_assign" /\ pos'[u] = p) <=> (pc[u] = "p_assign" /\ pos[u] = p)
               /\ pc[u] = "p_assign" /\ pos[u] = p => val'[u] = val[u]
    BY <1>2
  <2> QED
    BY <2>1, <2>3, <2>4, <1>1, ItemKept
<1>5. Items' = Items
  BY <1>1, <1>2, <1>4, ItemsKept
<1>6. Op' = Op
  <2>1. Op' = [Op EXCEPT ![t] = OpOf("o_publish")]
    BY <1>1, OpStep
  <2> QED
    BY <2>1, <1>2, OpIs, OpValues DEF PopOwns
<1>7. Arg' = Arg
  <2>1. ASSUME NEW u \in Thread \ {t}, pc[u] = "o_move"
        PROVE  value'[cell(pos[u])] = value[cell(pos[u])]
    <3>1. pos[u] # pos[t] /\ pos[u] < dequeue_pos /\ enqueue_pos <= pos[u] + Size
      BY <2>1, <1>1, <1>3 DEF PopOwnerOK, PopOwns
    <3>2. cell(pos[u]) # c
      BY <3>1, <1>1, <1>3, SameCell, SizeAssumption DEF c
    <3> QED
      BY <3>2, <1>1, <1>2
  <2>2. Arg' = [Arg EXCEPT ![t] = Arg'[t]]
    BY <2>1, <1>2, ArgStep
  <2>3. Arg'[t] = Arg[t] /\ Arg = [u \in Thread |-> Arg[u]]
    BY <1>2 DEF Arg, c
  <2> QED
    BY <2>2, <2>3
<1> QED
  BY <1>2, <1>5, <1>6, <1>7

\* The CAS on enqueue_pos is the push, whose value the item is from now on.
LEMMA MapPushCas ==
    ASSUME RInv, NEW t \in Thread, PushCas(t)
    PROVE  Fifo!DoPush(t)
<1> USE DEF PushCas, Goto
<1>1. /\ IInv /\ IInv' /\ TypeOK /\ enqueue_pos \in Nat /\ dequeue_pos \in Nat
      /\ enqueue_pos <= dequeue_pos + Size /\ dequeue_pos <= enqueue_pos
      /\ \A u \in Thread : pos[u] \in Nat /\ PushOwnerOK(u)
      /\ ItemsAre /\ ItemsAre'
  BY Facts, PushCasStep, ItemsFacts, ItemsFactsNext DEF RInv
<1>2. /\ pc[t] = "p_cas" /\ pc'[t] = "p_assign" /\ pos[t] = enqueue_pos
      /\ \A u \in Thread \ {t} : pc'[u] = pc[u]
      /\ UNCHANGED <<value, dequeue_pos, weak, pos, val>> /\ enqueue_pos' = enqueue_pos + 1
  BY <1>1 DEF TypeOK
<1>3. \A u \in Thread : pc[u] = "p_assign" => pos[u] # enqueue_pos
  BY <1>1 DEF PushOwnerOK, PushOwns
<1>4. Len(Items) < Size
  <2>1. enqueue_pos + 1 <= dequeue_pos + Size
    BY <1>1, <1>2, SizeAssumption DEF IInv, TypeOK
  <2> QED
    BY <2>1, <1>1, SizeAssumption DEF ItemsAre
<1>5. Op[t] = "push" /\ Op' = [Op EXCEPT ![t] = "pushed"]
  <2>1. Op' = [Op EXCEPT ![t] = OpOf("p_assign")]
    BY <1>1, OpStep
  <2> QED
    BY <2>1, <1>2, OpIs, OpValues DEF PushPC, PushOwns
<1>6. Arg[t] = val[t] /\ Arg' = [Arg EXCEPT ![t] = NoValue]
  <2>1. Arg' = [Arg EXCEPT ![t] = Arg'[t]]
    BY <1>2, ArgStep
  <2>2. Arg[t] = val[t] /\ Arg'[t] = NoValue
    BY <1>2 DEF Arg
  <2> QED
    BY <2>1, <2>2
<1>7. ASSUME NEW p \in dequeue_pos..(enqueue_pos - 1) PROVE Item(p)' = Item(p)
  <2>1. p \in Nat /\ p # enqueue_pos
    BY <1>1
  <2>2. ASSUME NEW u \in Thread
        PROVE  /\ (pc'[u] = "p_assign" /\ pos'[u] = p) <=> (pc[u] = "p_assign" /\ pos[u] = p)
               /\ pc[u] = "p_assign" /\ pos[u] = p => val'[u] = val[u]
    BY <2>1, <1>2
  <2> QED
    BY <2>1, <2>2, <1>1, <1>2, ItemKept
<1>8. ASSUME NEW p \in Nat, p = enqueue_pos PROVE Item(p)' = val[t]
  BY <1>8, <1>2, <1>3, ItemFactsNext DEF ItemIs
<1>9. Items' = Append(Items, val[t])
  <2> DEFINE n == enqueue_pos - dequeue_pos
  <2>1. /\ Items \in Seq(Held) /\ Items' \in Seq(Held) /\ val[t] \in Held
        /\ n \in Nat /\ Len(Items) = n /\ Len(Items') = n + 1
    BY <1>1, <1>2 DEF ItemsAre, TypeOK, Held
  <2>2. /\ Append(Items, val[t]) \in Seq(Held) /\ Len(Append(Items, val[t])) = n + 1
        /\ \A i \in 1..n : Append(Items, val[t])[i] = Items[i]
        /\ Append(Items, val[t])[n + 1] = val[t]
    BY <2>1, AppendProperties
  <2>3. ASSUME NEW p \in dequeue_pos..enqueue_pos
        PROVE  Items'[p - dequeue_pos + 1] = Item(p)'
    BY <1>1, <1>2 DEF ItemsAre
  <2>4. ASSUME NEW p \in dequeue_pos..enqueue_pos
        PROVE  Items'[p - dequeue_pos + 1] = IF p = enqueue_pos THEN val[t] ELSE Item(p)
    <3>1. CASE p = enqueue_pos
      BY <3>1, <2>3, <1>1, <1>8
    <3>2. CASE p # enqueue_pos
      <4>1. p \in dequeue_pos..(enqueue_pos - 1)
        BY <3>2, <1>1
      <4> QED
        BY <3>2, <4>1, <2>3, <1>7
    <3> QED
      BY <3>1, <3>2
  <2>5. ASSUME NEW i \in 1..(n + 1) PROVE Items'[i] = Append(Items, val[t])[i]
    <3> DEFINE p == dequeue_pos + i - 1
    <3>1. p \in dequeue_pos..enqueue_pos /\ p - dequeue_pos + 1 = i /\ p \in Nat
      BY <1>1
    <3> HIDE DEF p
    <3>2. CASE p = enqueue_pos
      <4>1. i = n + 1
        BY <3>1, <3>2, <1>1
      <4> QED
        BY <4>1, <3>1, <3>2, <2>2, <2>4
    <3>3. CASE p # enqueue_pos
      <4>1. p \in dequeue_pos..(enqueue_pos - 1) /\ i \in 1..n
        BY <3>1, <3>3, <1>1
      <4>2. Items[i] = Item(p)
        BY <4>1, <3>1, <1>1 DEF ItemsAre
      <4> QED
        BY <4>1, <4>2, <3>1, <3>3, <2>2, <2>4
    <3> QED
      BY <3>2, <3>3
  <2> HIDE DEF n
  <2> QED
    BY <2>1, <2>2, <2>5, SeqEqual
<1> QED
  BY <1>2, <1>4, <1>5, <1>6, <1>9 DEF Fifo!DoPush

\* The CAS on dequeue_pos is the pop: the value is in the cell, where only its
\* new owner can get at it.
LEMMA MapPopCas ==
    ASSUME RInv, NEW t \in Thread, PopCas(t)
    PROVE  Fifo!DoPop(t)
<1> USE DEF PopCas, Goto
<1>1. /\ IInv /\ IInv' /\ TypeOK /\ enqueue_pos \in Nat /\ dequeue_pos \in Nat
      /\ dequeue_pos <= enqueue_pos
      /\ \A u \in Thread : pos[u] \in Nat /\ PushOwnerOK(u) /\ PopReadOK(u)
      /\ ItemsAre /\ ItemsAre'
  BY Facts, PopCasStep, ItemsFacts, ItemsFactsNext DEF RInv
<1>2. /\ pc[t] = "o_cas" /\ pc'[t] = "o_move" /\ pos[t] = dequeue_pos
      /\ \A u \in Thread \ {t} : pc'[u] = pc[u]
      /\ UNCHANGED <<value, enqueue_pos, weak, pos, val>> /\ dequeue_pos' = dequeue_pos + 1
  BY <1>1 DEF TypeOK
<1>3. dequeue_pos + 1 <= enqueue_pos
  BY <1>1, <1>2, SizeAssumption DEF IInv, TypeOK
<1>4. \A u \in Thread : ~(pc[u] = "p_assign" /\ pos[u] = dequeue_pos)
  BY <1>1, <1>2 DEF PopReadOK, PushOwnerOK, PushOwns
<1>5. Op[t] = "pop" /\ Op' = [Op EXCEPT ![t] = "popped"]
  <2>1. Op' = [Op EXCEPT ![t] = OpOf("o_move")]
    BY <1>1, OpStep
  <2> QED
    BY <2>1, <1>2, OpIs, OpValues DEF PopPC, PopOwns
<1>6. Item(dequeue_pos) = value[cell(dequeue_pos)]
  BY <1>1, <1>4, ItemFacts DEF ItemIs
<1>7. Arg' = [Arg EXCEPT ![t] = Item(dequeue_pos)]
  <2>1. Arg' = [Arg EXCEPT ![t] = Arg'[t]]
    BY <1>2, ArgStep
  <2>2. Arg'[t] = value[cell(dequeue_pos)]
    BY <1>2 DEF Arg
  <2> QED
    BY <2>1, <2>2, <1>6
<1>8. ASSUME NEW p \in (dequeue_pos + 1)..(enqueue_pos - 1) PROVE Item(p)' = Item(p)
  <2>1. p \in Nat
    BY <1>1
  <2>2. ASSUME NEW u \in Thread
        PROVE  /\ (pc'[u] = "p_assign" /\ pos'[u] = p) <=> (pc[u] = "p_assign" /\ pos[u] = p)
               /\ pc[u] = "p_assign" /\ pos[u] = p => val'[u] = val[u]
    BY <2>1, <1>2
  <2> QED
    BY <2>1, <2>2, <1>1, <1>2, ItemKept
<1> DEFINE n == enqueue_pos - dequeue_pos
<1>9. /\ Items \in Seq(Held) /\ Items' \in Seq(Held)
      /\ n \in Nat /\ n >= 1 /\ Len(Items) = n /\ Len(Items') = n - 1
  BY <1>1, <1>2, <1>3 DEF ItemsAre
<1>10. Items # << >> /\ Items[1] = Item(dequeue_pos)
  <2>1. Items # << >>
    BY <1>9, EmptySeq
  <2>2. dequeue_pos \in dequeue_pos..(enqueue_pos - 1) /\ dequeue_pos - dequeue_pos + 1 = 1
    BY <1>1, <1>3
  <2>3. Items[dequeue_pos - dequeue_pos + 1] = Item(dequeue_pos)
    BY <2>2, <1>1 DEF ItemsAre
  <2> QED
    BY <2>1, <2>2, <2>3
<1>11. Items' = Tail(Items)
  <2>1. /\ Tail(Items) \in Seq(Held) /\ Len(Tail(Items)) = n - 1
        /\ \A i \in 1..(n - 1) : Tail(Items)[i] = Items[i + 1]
    BY <1>9, <1>10, HeadTailProperties
  <2>2. ASSUME NEW i \in 1..(n - 1) PROVE Items'[i] = Items[i + 1]
    <3> DEFINE p == dequeue_pos + i
    <3>1. /\ p \in (dequeue_pos + 1)..(enqueue_pos - 1) /\ p \in dequeue_pos..(enqueue_pos - 1)
          /\ p - dequeue_pos + 1 = i + 1 /\ p - (dequeue_pos + 1) + 1 = i
      BY <1>1
    <3> HIDE DEF p
    <3>2. Items[i + 1] = Item(p)
      BY <3>1, <1>1 DEF ItemsAre
    <3>3. ASSUME NEW q \in (dequeue_pos + 1)..(enqueue_pos - 1)
          PROVE  Items'[q - (dequeue_pos + 1) + 1] = Item(q)'
      BY <1>1, <1>2 DEF ItemsAre
    <3>4. ASSUME NEW q \in (dequeue_pos + 1)..(enqueue_pos - 1)
          PROVE  Items'[q - (dequeue_pos + 1) + 1] = Item(q)
      BY <3>3, <1>8
    <3> QED
      BY <3>1, <3>2, <3>4
  <2> HIDE DEF n
  <2> QED
    BY <2>1, <2>2, <1>9, SeqEqual
<1>12. Head(Items) = Item(dequeue_pos)
  BY <1>9, <1>10
<1> QED
  BY <1>2, <1>5, <1>7, <1>10, <1>11, <1>12 DEF Fifo!DoPop

LEMMA MapStep == RInv /\ [Next]_vars => [Fifo!BNext]_Fifo!bvars
<1> SUFFICES ASSUME RInv, [Next]_vars PROVE [Fifo!BNext]_Fifo!bvars
  OBVIOUS
<1> DEFINE Stutter == UNCHANGED <<Items, Op, Arg, weak>>
<1>1. ASSUME NEW t \in Thread, PushStep(t)
      PROVE  Stutter \/ Fifo!DoPush(t) \/ Fifo!FailPush(t) \/ Fifo!Return(t)
  BY <1>1, MapQuiet, MapFailPush, MapPushCas, MapAssign, MapPublish DEF PushStep
<1>2. ASSUME NEW t \in Thread, PopStep(t)
      PROVE  Stutter \/ Fifo!DoPop(t) \/ Fifo!FailPop(t) \/ Fifo!Return(t)
  BY <1>2, MapQuiet, MapFailPop, MapPopCas, MapMove, MapPublish DEF PopStep
<1>3. ASSUME UNCHANGED vars PROVE Stutter
  BY <1>3 DEF vars, shared, Items, Item, Op, Arg
<1>4. ASSUME NEW t \in Thread, NEW w \in BOOLEAN,
             TryPop(t, w) \/ \E v \in Value : TryPush(t, v, w)
      PROVE  Fifo!BNext
  BY <1>4, MapTryPush, MapTryPop DEF Fifo!BNext
<1> QED
  BY <1>1, <1>2, <1>3, <1>4 DEF Next, Fifo!BNext, Fifo!bvars

\* try_push and try_pop, weak and strong, are linearizable: the ring of cells
\* behaves like an atomic bounded queue, whatever the threads and the size.
THEOREM QueueIsLinearizable == Spec => Linearizable
BY MapInit, MapStep, OwnersInvariance, PTL DEF Spec, Linearizable, Fifo!BSpec
=============================================================================
