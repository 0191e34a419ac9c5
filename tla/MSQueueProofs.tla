--------------------------- MODULE MSQueueProofs ---------------------------
(***************************************************************************)
(* MSQueue never touches a deleted node, keeps the shape of its list and   *)
(* loses no node, for any number of threads, addresses and values; in the  *)
(* second part, it implements FifoQueue while addresses are reused: a push *)
(* takes effect with the CAS that links its node, a successful try_pop     *)
(* with its CAS on _head, and an unsuccessful one at the moment at which   *)
(* the history variable sawEmpty has recorded it.                          *)
(*                                                                         *)
(* IInv is inductive: TypeNext shows it preserves the types, LocalStep     *)
(* treats the steps that change only what their thread owns, and one lemma *)
(* each treats the steps that change the list or the status of a node.     *)
(***************************************************************************)
EXTENDS MSQueue, SequenceTheorems, TLAPS

-----------------------------------------------------------------------------
(* Types                                                                   *)

LEMMA SlotType ==
  ASSUME TypeOK, NEW t \in Thread
  PROVE  anchor(t) \in Node \union {Null} /\ nextg(t) \in Node \union {Null}
BY SlotAssumption DEF TypeOK, RTypeOK, anchor, nextg

\* A validated anchor is a node: its members may be read.
LEMMA AnchorNode ==
  ASSUME IInv, NEW t \in Thread, pc[t] \in PushAnchorPC \union PopAnchorPC
  PROVE  anchor(t) \in Node
<1>1. Protected(t, "anchor")
  BY DEF IInv, ThreadOK, AnchorOK
<1> QED
  BY <1>1, SlotType DEF Protected, anchor, IInv

LEMMA NextNode ==
  ASSUME IInv, NEW t \in Thread, pc[t] \in {"o_tail", "o_help", "o_cas", "o_value"}
  PROVE  nextg(t) \in Node
<1>1. Protected(t, "next")
  BY DEF IInv, ThreadOK, PopOK
<1> QED
  BY <1>1, SlotType DEF Protected, nextg, IInv

LEMMA TypeInit == Init => TypeOK
BY NullAssumption, ValueAssumption, SlotAssumption DEF Init, TypeOK, RTypeOK, Guard

LEMMA PublishType ==
  ASSUME RTypeOK, NEW t \in Thread, NEW s \in Slot, NEW n \in Node \union {Null}, Publish(t, s, n)
  PROVE  slot' \in [Thread -> [Slot -> Node \union {Null}]] /\ pinned' \in SUBSET Guard
BY DEF RTypeOK, Publish

LEMMA AcquireLoadType ==
  ASSUME TypeOK, NEW t \in Thread, NEW s \in Slot, NEW src \in Node \union {Null}, NEW here,
         NEW publish \in PushPC \union PopPC, NEW done \in PushPC \union PopPC,
         AcquireLoad(t, s, src, here, publish, done)
  PROVE  /\ slot' \in [Thread -> [Slot -> Node \union {Null}]] /\ pinned' \in SUBSET Guard
         /\ cur' \in [Thread -> Node \union {Null}]
         /\ pc' \in [Thread -> {"idle"} \union PushPC \union PopPC \union DonePC]
<1> USE DEF TypeOK, RTypeOK
<1>1. CASE src \in {slot[t][s], Null}
  <2>1. Publish(t, s, src) /\ UNCHANGED cur /\ pc' = [pc EXCEPT ![t] = done]
    BY <1>1 DEF AcquireLoad, Goto
  <2>2. slot' \in [Thread -> [Slot -> Node \union {Null}]] /\ pinned' \in SUBSET Guard
    BY <2>1, PublishType
  <2> QED
    BY <2>1, <2>2
<1>2. CASE src \notin {slot[t][s], Null}
  <2>1. /\ UNCHANGED <<slot, pinned>> /\ cur' = [cur EXCEPT ![t] = src]
        /\ pc' = [pc EXCEPT ![t] = publish]
    BY <1>2 DEF AcquireLoad, Goto
  <2> QED
    BY <2>1
<1> QED
  BY <1>1, <1>2

LEMMA AcquireValidateType ==
  ASSUME TypeOK, NEW t \in Thread, NEW s \in Slot, NEW src \in Node \union {Null}, NEW here,
         NEW publish \in PushPC \union PopPC, NEW done \in PushPC \union PopPC,
         AcquireValidate(t, s, src, here, publish, done)
  PROVE  /\ slot' \in [Thread -> [Slot -> Node \union {Null}]] /\ pinned' \in SUBSET Guard
         /\ cur' \in [Thread -> Node \union {Null}]
         /\ pc' \in [Thread -> {"idle"} \union PushPC \union PopPC \union DonePC]
<1> USE DEF TypeOK, RTypeOK
<1>1. CASE src \in {cur[t], Null}
  <2>1. Publish(t, s, src) /\ cur' = [cur EXCEPT ![t] = Null] /\ pc' = [pc EXCEPT ![t] = done]
    BY <1>1 DEF AcquireValidate, Goto
  <2>2. slot' \in [Thread -> [Slot -> Node \union {Null}]] /\ pinned' \in SUBSET Guard
    BY <2>1, PublishType
  <2> QED
    BY <2>1, <2>2
<1>2. CASE src \notin {cur[t], Null}
  <2>1. /\ UNCHANGED <<slot, pinned>> /\ cur' = [cur EXCEPT ![t] = src]
        /\ pc' = [pc EXCEPT ![t] = publish]
    BY <1>2 DEF AcquireValidate, Goto
  <2> QED
    BY <2>1
<1> QED
  BY <1>1, <1>2

\* The types are preserved, given the rest of the invariant: a thread reads and
\* writes the members of nodes, never those of a null pointer.
LEMMA TypeNext == IInv /\ [Next]_vars => TypeOK'
<1> SUFFICES ASSUME IInv, [Next]_vars PROVE TypeOK'
  OBVIOUS
<1> USE SlotAssumption, ValueAssumption
    DEF TypeOK, RTypeOK, PushPC, PopPC, DonePC, Guard, rvars, shared, locals, Goto
<1>0. TypeOK
  BY DEF IInv
<1>1. ASSUME NEW t \in Thread, NEW n \in Node, NEW v \in Value, Push(t, n, v) PROVE TypeOK'
  BY <1>0, <1>1 DEF Push, Allocate
<1>2. ASSUME NEW t \in Thread, TryPop(t) PROVE TypeOK'
  BY <1>0, <1>2 DEF TryPop
<1>3. ASSUME NEW t \in Thread, PushLoad(t) PROVE TypeOK'
  BY <1>0, <1>3, AcquireLoadType DEF PushLoad
<1>4. ASSUME NEW t \in Thread, PushPublish(t) PROVE TypeOK'
  BY <1>0, <1>4 DEF PushPublish, AcquirePublish, Publish
<1>5. ASSUME NEW t \in Thread, PushValidate(t) PROVE TypeOK'
  BY <1>0, <1>5, AcquireValidateType DEF PushValidate
<1>6. ASSUME NEW t \in Thread, PushNext(t) PROVE TypeOK'
  <2>1. anchor(t) \in Node
    BY <1>6, AnchorNode DEF PushNext, PushAnchorPC
  <2> QED
    BY <1>0, <1>6, <2>1 DEF PushNext
<1>7. ASSUME NEW t \in Thread, PushHelp(t) PROVE TypeOK'
  <2>1. cur[t] # Null
    BY <1>7 DEF PushHelp, IInv, ThreadOK, PushOK
  <2> QED
    BY <1>0, <1>7, <2>1 DEF PushHelp
<1>8. ASSUME NEW t \in Thread, PushHelpFails(t) PROVE TypeOK'
  BY <1>0, <1>8 DEF PushHelpFails
<1>9. ASSUME NEW t \in Thread, PushLink(t) PROVE TypeOK'
  <2>1. anchor(t) \in Node /\ node[t] \in Node
    BY <1>9, AnchorNode DEF PushLink, PushAnchorPC, IInv, PrivateOK, PrivatePC
  <2> QED
    BY <1>0, <1>9, <2>1 DEF PushLink
<1>10. ASSUME NEW t \in Thread, PushLinkFails(t) PROVE TypeOK'
  BY <1>0, <1>10 DEF PushLinkFails
<1>11. ASSUME NEW t \in Thread, PushSwing(t) PROVE TypeOK'
  <2>1. node[t] \in Node
    BY <1>11 DEF PushSwing, IInv, ThreadOK, PushOK
  <2> QED
    BY <1>0, <1>11, <2>1 DEF PushSwing, Release
<1>12. ASSUME NEW t \in Thread, PopLoad(t) PROVE TypeOK'
  BY <1>0, <1>12, AcquireLoadType DEF PopLoad
<1>13. ASSUME NEW t \in Thread, PopPublish(t) PROVE TypeOK'
  BY <1>0, <1>13 DEF PopPublish, AcquirePublish, Publish
<1>14. ASSUME NEW t \in Thread, PopValidate(t) PROVE TypeOK'
  BY <1>0, <1>14, AcquireValidateType DEF PopValidate
<1>15. ASSUME NEW t \in Thread, PopNextLoad(t) PROVE TypeOK'
  <2>1. anchor(t) \in Node
    BY <1>15, AnchorNode DEF PopNextLoad, AcquireLoad, PopAnchorPC
  <2> QED
    BY <1>0, <1>15, <2>1, AcquireLoadType DEF PopNextLoad
<1>16. ASSUME NEW t \in Thread, PopNextPublish(t) PROVE TypeOK'
  BY <1>0, <1>16 DEF PopNextPublish, AcquirePublish, Publish
<1>17. ASSUME NEW t \in Thread, PopNextValidate(t) PROVE TypeOK'
  <2>1. anchor(t) \in Node
    BY <1>17, AnchorNode DEF PopNextValidate, AcquireValidate, PopAnchorPC
  <2> QED
    BY <1>0, <1>17, <2>1, AcquireValidateType DEF PopNextValidate
<1>18. ASSUME NEW t \in Thread, PopStale(t) PROVE TypeOK'
  BY <1>0, <1>18 DEF PopStale, Retry, Release
<1>19. ASSUME NEW t \in Thread, PopEmpty(t) PROVE TypeOK'
  BY <1>0, <1>19 DEF PopEmpty
<1>20. ASSUME NEW t \in Thread, PopCheck(t) PROVE TypeOK'
  BY <1>0, <1>20 DEF PopCheck
<1>21. ASSUME NEW t \in Thread, PopTail(t) PROVE TypeOK'
  BY <1>0, <1>21 DEF PopTail
<1>22. ASSUME NEW t \in Thread, PopHelp(t) PROVE TypeOK'
  <2>1. nextg(t) \in Node
    BY <1>22, NextNode DEF PopHelp, Retry
  <2> QED
    BY <1>0, <1>22, <2>1 DEF PopHelp, Retry, Release
<1>23. ASSUME NEW t \in Thread, PopHelpFails(t) PROVE TypeOK'
  BY <1>0, <1>23 DEF PopHelpFails, Retry, Release
<1>24. ASSUME NEW t \in Thread, PopCas(t) PROVE TypeOK'
  <2>1. nextg(t) \in Node /\ anchor(t) \in Node /\ Len(chain) >= 1
    BY <1>24, NextNode, AnchorNode DEF PopCas, PopAnchorPC, IInv, ListOK
  <2> QED
    BY <1>0, <1>24, <2>1 DEF PopCas
<1>25. ASSUME NEW t \in Thread, PopCasFails(t) PROVE TypeOK'
  BY <1>0, <1>25 DEF PopCasFails, Retry, Release
<1>26. ASSUME NEW t \in Thread, PopValue(t) PROVE TypeOK'
  <2>1. nextg(t) \in Node
    BY <1>26, NextNode DEF PopValue
  <2> QED
    BY <1>0, <1>26, <2>1 DEF PopValue, Release
<1>27. ASSUME NEW t \in Thread, PopRetire(t) PROVE TypeOK'
  BY <1>0, <1>27 DEF PopRetire, Retire, Holders
<1>28. ASSUME NEW t \in Thread, PopReturnFalse(t) PROVE TypeOK'
  BY <1>0, <1>28 DEF PopReturnFalse, Release
<1>29. ASSUME NEW n \in Node, ReclaimNode(n) PROVE TypeOK'
  BY <1>0, <1>29 DEF ReclaimNode, Reclaim
<1>30. CASE Destroy
  BY <1>0, <1>30 DEF Destroy
<1>31. CASE DestroyNode
  <2>1. Len(chain) >= 1
    BY <1>0, <1>31 DEF DestroyNode, IInv, ListOK
  <2> QED
    BY <1>0, <1>31, <2>1 DEF DestroyNode
<1>32. CASE UNCHANGED vars
  BY <1>0, <1>32 DEF vars
<1> QED
  BY <1>1, <1>2, <1>3, <1>4, <1>5, <1>6, <1>7, <1>8, <1>9, <1>10, <1>11, <1>12, <1>13, <1>14, <1>15, <1>16, <1>17, <1>18, <1>19, <1>20, <1>21, <1>22, <1>23, <1>24, <1>25, <1>26, <1>27, <1>28, <1>29, <1>30, <1>31, <1>32 DEF Next, PushStep, PopStep

-----------------------------------------------------------------------------
(* Steps that change only what their thread owns                           *)

\* Such a step may also swing _tail to the last node.
Local(t) ==
    /\ UNCHANGED <<status, next, head, open, chain, old>>
    /\ tail' = tail \/ (next[tail] # Null /\ tail' = next[tail])
    /\ \A u \in Thread \ {t} : /\ pc'[u] = pc[u] /\ node'[u] = node[u]
                               /\ cur'[u] = cur[u] /\ slot'[u] = slot[u]
    /\ \A g \in pinned : g[1] # t => g \in pinned'
    /\ pc[t] \in PrivatePC <=> pc'[t] \in PrivatePC
    /\ pc[t] \in PrivatePC => node'[t] = node[t]
    /\ pc[t] \in OldPC <=> pc'[t] \in OldPC
    /\ open

\* If the tail has a successor, that is the last node of the list.
LEMMA TailForward ==
  ASSUME IInv, open, next[tail] # Null
  PROVE  /\ Len(chain) >= 2 /\ tail = chain[Len(chain) - 1]
         /\ next[tail] = chain[Len(chain)]
         /\ next[tail] # head
<1> DEFINE len == Len(chain)
<1>1. /\ len \in Nat /\ len >= 1 /\ chain[1] = head
      /\ tail = chain[len] \/ (len >= 2 /\ tail = chain[len - 1])
      /\ next[chain[len]] = Null
      /\ \A i \in 1..(len - 1) : next[chain[i]] = chain[i + 1]
      /\ \A i, j \in 1..len : chain[i] = chain[j] => i = j
  BY DEF IInv, TypeOK, RTypeOK, ListOK
<1>2. len >= 2 /\ tail = chain[len - 1]
  BY <1>1
<1>3. len - 1 \in 1..(len - 1) /\ (len - 1) + 1 = len
  BY <1>1, <1>2
<1>4. next[tail] = chain[len]
  BY <1>1, <1>2, <1>3
<1>5. chain[len] # chain[1]
  BY <1>1, <1>2
<1> QED
  BY <1>1, <1>2, <1>4, <1>5

\* It cannot hurt what is known about the list or about another thread.
LEMMA LocalStep ==
  ASSUME IInv, TypeOK', NEW t \in Thread, Local(t), ThreadOK(t)'
  PROVE  IInv'
<1>1. ListOK' /\ RetiredOK'
  BY TailForward DEF IInv, Local, ListOK, RetiredOK
<1>2. NoLeak'
  <2>1. \A u \in Thread : pc[u] \in PrivatePC => pc'[u] \in PrivatePC /\ node'[u] = node[u]
    BY DEF Local
  <2> QED
    BY <2>1 DEF IInv, Local, NoLeak, InList, PrivatePC
<1>3. ASSUME NEW u \in Thread PROVE PrivateOK(u)' /\ OldOK(u)'
  <2>1. \A w \in Thread : /\ pc[w] \in PrivatePC <=> pc'[w] \in PrivatePC
                          /\ pc[w] \in PrivatePC => node'[w] = node[w]
                          /\ pc[w] \in OldPC <=> pc'[w] \in OldPC
    BY DEF Local
  <2>2. PrivateOK(u) /\ OldOK(u)
    BY DEF IInv
  <2> QED
    BY <2>1, <2>2 DEF Local, PrivateOK, OldOK, InList
<1>4. ASSUME NEW u \in Thread PROVE ThreadOK(u)'
  <2>1. CASE u = t
    BY <2>1
  <2>2. CASE u # t
    <3>1. /\ pc'[u] = pc[u] /\ cur'[u] = cur[u] /\ node'[u] = node[u]
          /\ anchor(u)' = anchor(u) /\ nextg(u)' = nextg(u)
      BY <2>2 DEF Local, anchor, nextg
    <3>2. \A s \in {"anchor", "next"} : Protected(u, s) => Protected(u, s)'
      BY <2>2 DEF Local, Protected
    <3>3. ThreadOK(u)
      BY DEF IInv
    <3>4. AcquireOK(u)'
      BY <3>1, <3>3 DEF ThreadOK, AcquireOK
    <3>5. AnchorOK(u)'
      BY <3>1, <3>2, <3>3 DEF ThreadOK, AnchorOK, Local, InList
    <3>6. PushOK(u)'
      BY <3>1, <3>3 DEF ThreadOK, PushOK, Local
    <3>7. PopOK(u)'
      BY <3>1, <3>2, <3>3, TailForward DEF ThreadOK, PopOK, Local
    <3> QED
      BY <3>4, <3>5, <3>6, <3>7 DEF ThreadOK
  <2> QED
    BY <2>1, <2>2
<1> QED
  BY <1>1, <1>2, <1>3, <1>4 DEF IInv

LEMMA PublishEffect ==
  ASSUME TypeOK, NEW t \in Thread, NEW s \in Slot, NEW n \in Node \union {Null}, Publish(t, s, n)
  PROVE  /\ slot'[t][s] = n
         /\ \A x \in Slot \ {s} : /\ slot'[t][x] = slot[t][x]
                                  /\ <<t, x>> \in pinned => <<t, x>> \in pinned'
         /\ \A u \in Thread \ {t} : slot'[u] = slot[u]
         /\ \A g \in pinned : g[1] # t => g \in pinned'
         /\ slot[t][s] = n => pinned' = pinned
BY DEF TypeOK, RTypeOK, Publish

LEMMA ReleaseEffect ==
  ASSUME TypeOK, NEW t \in Thread, NEW S \in SUBSET Slot, Release(t, S)
  PROVE  /\ \A s \in S : slot'[t][s] = Null
         /\ \A x \in Slot \ S : /\ slot'[t][x] = slot[t][x]
                                /\ <<t, x>> \in pinned => <<t, x>> \in pinned'
         /\ \A u \in Thread \ {t} : slot'[u] = slot[u]
         /\ \A g \in pinned : g[1] # t => g \in pinned'
BY DEF TypeOK, RTypeOK, Release

\* What every thread inside an operation may rely on.
LEMMA ListFacts ==
  ASSUME IInv, NEW t \in Thread, pc[t] # "idle"
  PROVE  /\ open
         /\ head \in Node /\ status[head] = "live" /\ InList(head)
         /\ tail \in Node /\ status[tail] = "live" /\ InList(tail)
         /\ Null \notin Node
         /\ \A i \in 2..Len(chain) : chain[i] # head
         /\ \A n \in Node : InList(n) /\ next[n] = Null => n = chain[Len(chain)]
         /\ next[head] # Null => status[next[head]] = "live"
<1> USE DEF IInv, TypeOK, RTypeOK, ListOK
<1>1. open /\ Len(chain) \in Nat /\ Len(chain) >= 1
  OBVIOUS
<1>2. \A i \in 1..Len(chain) : chain[i] \in Node
  OBVIOUS
<1>3. head = chain[1] /\ head \in Node /\ status[head] = "live" /\ InList(head)
  BY <1>1, <1>2 DEF InList
<1>4. tail \in Node /\ status[tail] = "live" /\ InList(tail)
  BY <1>1, <1>2 DEF InList
<1>5. \A i \in 2..Len(chain) : chain[i] # head
  BY <1>1, <1>3
<1>6. \A n \in Node : InList(n) /\ next[n] = Null => n = chain[Len(chain)]
  BY <1>1, <1>2, NullAssumption DEF InList
<1>7. next[head] # Null => status[next[head]] = "live"
  BY <1>1, <1>3
<1> QED
  BY <1>1, <1>3, <1>4, <1>5, <1>6, <1>7, NullAssumption

LEMMA PushNextInv ==
  ASSUME IInv, TypeOK', NEW t \in Thread, PushNext(t)
  PROVE  IInv'
<1>1. TypeOK /\ ThreadOK(t) /\ anchor(t) \in Node \union {Null} /\ nextg(t) \in Node \union {Null}
  BY SlotType DEF IInv
<1>2. open
  BY ListFacts DEF PushNext, Goto
<1>8. Local(t)
  BY <1>1, <1>2 DEF PushNext, Local, TypeOK, RTypeOK, rvars, shared, locals, Goto, PushPC, PopPC, PrivatePC, OldPC, NextPC, PushAnchorPC, PopAnchorPC
<1>9. ThreadOK(t)'
  BY <1>1, ListFacts DEF PushNext, TypeOK, RTypeOK, rvars, shared, locals, Goto, PushPC, PopPC, PrivatePC, OldPC, NextPC, PushAnchorPC, PopAnchorPC, ThreadOK, AcquireOK, AnchorOK, PushOK, PopOK, Protected, InList, anchor, nextg
<1> QED
  BY <1>8, <1>9, LocalStep

LEMMA PushHelpFailsInv ==
  ASSUME IInv, TypeOK', NEW t \in Thread, PushHelpFails(t)
  PROVE  IInv'
<1>1. TypeOK /\ ThreadOK(t) /\ anchor(t) \in Node \union {Null} /\ nextg(t) \in Node \union {Null}
  BY SlotType DEF IInv
<1>2. open
  BY ListFacts DEF PushHelpFails, Goto
<1>8. Local(t)
  BY <1>1, <1>2 DEF PushHelpFails, Local, TypeOK, RTypeOK, rvars, shared, locals, Goto, PushPC, PopPC, PrivatePC, OldPC, NextPC, PushAnchorPC, PopAnchorPC
<1>9. ThreadOK(t)'
  BY <1>1, ListFacts DEF PushHelpFails, TypeOK, RTypeOK, rvars, shared, locals, Goto, PushPC, PopPC, PrivatePC, OldPC, NextPC, PushAnchorPC, PopAnchorPC, ThreadOK, AcquireOK, AnchorOK, PushOK, PopOK, Protected, InList, anchor, nextg
<1> QED
  BY <1>8, <1>9, LocalStep

LEMMA PushLinkFailsInv ==
  ASSUME IInv, TypeOK', NEW t \in Thread, PushLinkFails(t)
  PROVE  IInv'
<1>1. TypeOK /\ ThreadOK(t) /\ anchor(t) \in Node \union {Null} /\ nextg(t) \in Node \union {Null}
  BY SlotType DEF IInv
<1>2. open
  BY ListFacts DEF PushLinkFails, Goto
<1>8. Local(t)
  BY <1>1, <1>2 DEF PushLinkFails, Local, TypeOK, RTypeOK, rvars, shared, locals, Goto, PushPC, PopPC, PrivatePC, OldPC, NextPC, PushAnchorPC, PopAnchorPC
<1>9. ThreadOK(t)'
  BY <1>1, ListFacts DEF PushLinkFails, TypeOK, RTypeOK, rvars, shared, locals, Goto, PushPC, PopPC, PrivatePC, OldPC, NextPC, PushAnchorPC, PopAnchorPC, ThreadOK, AcquireOK, AnchorOK, PushOK, PopOK, Protected, InList, anchor, nextg
<1> QED
  BY <1>8, <1>9, LocalStep

LEMMA PopEmptyInv ==
  ASSUME IInv, TypeOK', NEW t \in Thread, PopEmpty(t)
  PROVE  IInv'
<1>1. TypeOK /\ ThreadOK(t) /\ anchor(t) \in Node \union {Null} /\ nextg(t) \in Node \union {Null}
  BY SlotType DEF IInv
<1>2. open
  BY ListFacts DEF PopEmpty, Goto
<1>8. Local(t)
  BY <1>1, <1>2 DEF PopEmpty, Local, TypeOK, RTypeOK, rvars, shared, locals, Goto, PushPC, PopPC, PrivatePC, OldPC, NextPC, PushAnchorPC, PopAnchorPC
<1>9. ThreadOK(t)'
  BY <1>1, ListFacts DEF PopEmpty, TypeOK, RTypeOK, rvars, shared, locals, Goto, PushPC, PopPC, PrivatePC, OldPC, NextPC, PushAnchorPC, PopAnchorPC, ThreadOK, AcquireOK, AnchorOK, PushOK, PopOK, Protected, InList, anchor, nextg
<1> QED
  BY <1>8, <1>9, LocalStep

LEMMA PopCheckInv ==
  ASSUME IInv, TypeOK', NEW t \in Thread, PopCheck(t)
  PROVE  IInv'
<1>1. TypeOK /\ ThreadOK(t) /\ anchor(t) \in Node \union {Null} /\ nextg(t) \in Node \union {Null}
  BY SlotType DEF IInv
<1>2. open
  BY ListFacts DEF PopCheck, Goto
<1>8. Local(t)
  BY <1>1, <1>2 DEF PopCheck, Local, TypeOK, RTypeOK, rvars, shared, locals, Goto, PushPC, PopPC, PrivatePC, OldPC, NextPC, PushAnchorPC, PopAnchorPC
<1>9. ThreadOK(t)'
  BY <1>1, ListFacts DEF PopCheck, TypeOK, RTypeOK, rvars, shared, locals, Goto, PushPC, PopPC, PrivatePC, OldPC, NextPC, PushAnchorPC, PopAnchorPC, ThreadOK, AcquireOK, AnchorOK, PushOK, PopOK, Protected, InList, anchor, nextg
<1> QED
  BY <1>8, <1>9, LocalStep

LEMMA PopTailInv ==
  ASSUME IInv, TypeOK', NEW t \in Thread, PopTail(t)
  PROVE  IInv'
<1>1. TypeOK /\ ThreadOK(t) /\ anchor(t) \in Node \union {Null} /\ nextg(t) \in Node \union {Null}
  BY SlotType DEF IInv
<1>2. open
  BY ListFacts DEF PopTail, Goto
<1>8. Local(t)
  BY <1>1, <1>2 DEF PopTail, Local, TypeOK, RTypeOK, rvars, shared, locals, Goto, PushPC, PopPC, PrivatePC, OldPC, NextPC, PushAnchorPC, PopAnchorPC
<1>9. ThreadOK(t)'
  BY <1>1, ListFacts DEF PopTail, TypeOK, RTypeOK, rvars, shared, locals, Goto, PushPC, PopPC, PrivatePC, OldPC, NextPC, PushAnchorPC, PopAnchorPC, ThreadOK, AcquireOK, AnchorOK, PushOK, PopOK, Protected, InList, anchor, nextg
<1> QED
  BY <1>8, <1>9, LocalStep

LEMMA TryPopInv ==
  ASSUME IInv, TypeOK', NEW t \in Thread, TryPop(t)
  PROVE  IInv'
<1>1. TypeOK /\ ThreadOK(t) /\ anchor(t) \in Node \union {Null} /\ nextg(t) \in Node \union {Null}
  BY SlotType DEF IInv
<1>2. open
  BY ListFacts DEF TryPop, Goto
<1>8. Local(t)
  BY <1>1, <1>2 DEF TryPop, Local, TypeOK, RTypeOK, rvars, shared, locals, Goto, PushPC, PopPC, PrivatePC, OldPC, NextPC, PushAnchorPC, PopAnchorPC
<1>9. ThreadOK(t)'
  BY <1>1, ListFacts DEF TryPop, TypeOK, RTypeOK, rvars, shared, locals, Goto, PushPC, PopPC, PrivatePC, OldPC, NextPC, PushAnchorPC, PopAnchorPC, ThreadOK, AcquireOK, AnchorOK, PushOK, PopOK, Protected, InList, anchor, nextg
<1> QED
  BY <1>8, <1>9, LocalStep

LEMMA PopStaleInv ==
  ASSUME IInv, TypeOK', NEW t \in Thread, PopStale(t)
  PROVE  IInv'
<1>1. TypeOK /\ ThreadOK(t) /\ anchor(t) \in Node \union {Null} /\ nextg(t) \in Node \union {Null}
  BY SlotType DEF IInv
<1>2. open
  BY ListFacts DEF PopStale, Goto, Retry
<1>3. /\ \A u \in Thread \ {t} : slot'[u] = slot[u]
      /\ \A g \in pinned : g[1] # t => g \in pinned'
      /\ nextg(t)' = Null
  BY <1>1, ReleaseEffect, SlotAssumption DEF PopStale, nextg, Retry
<1>8. Local(t)
  BY <1>1, <1>2, <1>3 DEF PopStale, Local, TypeOK, RTypeOK, rvars, shared, locals, Goto, PushPC, PopPC, PrivatePC, OldPC, NextPC, PushAnchorPC, PopAnchorPC, Retry
<1>9. ThreadOK(t)'
  BY <1>1, <1>3 DEF PopStale, TypeOK, RTypeOK, rvars, shared, locals, Goto, PushPC, PopPC, PrivatePC, OldPC, NextPC, PushAnchorPC, PopAnchorPC, ThreadOK, AcquireOK, AnchorOK, PushOK, PopOK, Retry
<1> QED
  BY <1>8, <1>9, LocalStep

LEMMA PopHelpFailsInv ==
  ASSUME IInv, TypeOK', NEW t \in Thread, PopHelpFails(t)
  PROVE  IInv'
<1>1. TypeOK /\ ThreadOK(t) /\ anchor(t) \in Node \union {Null} /\ nextg(t) \in Node \union {Null}
  BY SlotType DEF IInv
<1>2. open
  BY ListFacts DEF PopHelpFails, Goto, Retry
<1>3. /\ \A u \in Thread \ {t} : slot'[u] = slot[u]
      /\ \A g \in pinned : g[1] # t => g \in pinned'
      /\ nextg(t)' = Null
  BY <1>1, ReleaseEffect, SlotAssumption DEF PopHelpFails, nextg, Retry
<1>8. Local(t)
  BY <1>1, <1>2, <1>3 DEF PopHelpFails, Local, TypeOK, RTypeOK, rvars, shared, locals, Goto, PushPC, PopPC, PrivatePC, OldPC, NextPC, PushAnchorPC, PopAnchorPC, Retry
<1>9. ThreadOK(t)'
  BY <1>1, <1>3 DEF PopHelpFails, TypeOK, RTypeOK, rvars, shared, locals, Goto, PushPC, PopPC, PrivatePC, OldPC, NextPC, PushAnchorPC, PopAnchorPC, ThreadOK, AcquireOK, AnchorOK, PushOK, PopOK, Retry
<1> QED
  BY <1>8, <1>9, LocalStep

LEMMA PopCasFailsInv ==
  ASSUME IInv, TypeOK', NEW t \in Thread, PopCasFails(t)
  PROVE  IInv'
<1>1. TypeOK /\ ThreadOK(t) /\ anchor(t) \in Node \union {Null} /\ nextg(t) \in Node \union {Null}
  BY SlotType DEF IInv
<1>2. open
  BY ListFacts DEF PopCasFails, Goto, Retry
<1>3. /\ \A u \in Thread \ {t} : slot'[u] = slot[u]
      /\ \A g \in pinned : g[1] # t => g \in pinned'
      /\ nextg(t)' = Null
  BY <1>1, ReleaseEffect, SlotAssumption DEF PopCasFails, nextg, Retry
<1>8. Local(t)
  BY <1>1, <1>2, <1>3 DEF PopCasFails, Local, TypeOK, RTypeOK, rvars, shared, locals, Goto, PushPC, PopPC, PrivatePC, OldPC, NextPC, PushAnchorPC, PopAnchorPC, Retry
<1>9. ThreadOK(t)'
  BY <1>1, <1>3 DEF PopCasFails, TypeOK, RTypeOK, rvars, shared, locals, Goto, PushPC, PopPC, PrivatePC, OldPC, NextPC, PushAnchorPC, PopAnchorPC, ThreadOK, AcquireOK, AnchorOK, PushOK, PopOK, Retry
<1> QED
  BY <1>8, <1>9, LocalStep

LEMMA PopReturnFalseInv ==
  ASSUME IInv, TypeOK', NEW t \in Thread, PopReturnFalse(t)
  PROVE  IInv'
<1>1. TypeOK /\ ThreadOK(t) /\ anchor(t) \in Node \union {Null} /\ nextg(t) \in Node \union {Null}
  BY SlotType DEF IInv
<1>2. open
  BY ListFacts DEF PopReturnFalse, Goto
<1>3. /\ \A u \in Thread \ {t} : slot'[u] = slot[u]
      /\ \A g \in pinned : g[1] # t => g \in pinned'
      /\ nextg(t)' = Null
  BY <1>1, ReleaseEffect, SlotAssumption DEF PopReturnFalse, nextg
<1>8. Local(t)
  BY <1>1, <1>2, <1>3 DEF PopReturnFalse, Local, TypeOK, RTypeOK, rvars, shared, locals, Goto, PushPC, PopPC, PrivatePC, OldPC, NextPC, PushAnchorPC, PopAnchorPC
<1>9. ThreadOK(t)'
  BY <1>1, <1>3 DEF PopReturnFalse, TypeOK, RTypeOK, rvars, shared, locals, Goto, PushPC, PopPC, PrivatePC, OldPC, NextPC, PushAnchorPC, PopAnchorPC, ThreadOK, AcquireOK, AnchorOK, PushOK, PopOK
<1> QED
  BY <1>8, <1>9, LocalStep

LEMMA PopValueInv ==
  ASSUME IInv, TypeOK', NEW t \in Thread, PopValue(t)
  PROVE  IInv'
<1>1. TypeOK /\ ThreadOK(t) /\ anchor(t) \in Node \union {Null} /\ nextg(t) \in Node \union {Null}
  BY SlotType DEF IInv
<1>2. open
  BY ListFacts DEF PopValue, Goto
<1>3. /\ \A u \in Thread \ {t} : slot'[u] = slot[u]
      /\ \A g \in pinned : g[1] # t => g \in pinned'
      /\ nextg(t)' = Null
  BY <1>1, ReleaseEffect, SlotAssumption DEF PopValue, nextg
<1>8. Local(t)
  BY <1>1, <1>2, <1>3 DEF PopValue, Local, TypeOK, RTypeOK, rvars, shared, locals, Goto, PushPC, PopPC, PrivatePC, OldPC, NextPC, PushAnchorPC, PopAnchorPC
<1>9. ThreadOK(t)'
  BY <1>1, <1>3 DEF PopValue, TypeOK, RTypeOK, rvars, shared, locals, Goto, PushPC, PopPC, PrivatePC, OldPC, NextPC, PushAnchorPC, PopAnchorPC, ThreadOK, AcquireOK, AnchorOK, PushOK, PopOK
<1> QED
  BY <1>8, <1>9, LocalStep

LEMMA PushLoadInv ==
  ASSUME IInv, TypeOK', NEW t \in Thread, PushLoad(t)
  PROVE  IInv'
<1>1. TypeOK /\ ThreadOK(t) /\ anchor(t) \in Node \union {Null} /\ nextg(t) \in Node \union {Null}
  BY SlotType DEF IInv
<1>2. open
  BY ListFacts DEF PushLoad, AcquireLoad, Goto
<1>3. tail \in Node \union {Null}
  BY <1>1, ListFacts DEF PushLoad, AcquireLoad, TypeOK, Goto
<1>4. \/ Publish(t, "anchor", tail)
      \/ UNCHANGED <<slot, pinned>>
  BY DEF PushLoad, AcquireLoad
<1>5. /\ \A u \in Thread \ {t} : slot'[u] = slot[u]
      /\ \A g \in pinned : g[1] # t => g \in pinned'
  BY <1>1, <1>3, <1>4, PublishEffect, SlotAssumption
<1>6. /\ Publish(t, "anchor", tail) => anchor(t)' = tail /\ nextg(t)' = nextg(t)
      /\ UNCHANGED slot => anchor(t)' = anchor(t) /\ nextg(t)' = nextg(t)
      /\ Protected(t, "anchor") => Protected(t, "anchor")' \/ ~UNCHANGED <<slot, pinned>>
  BY <1>1, <1>3, <1>4, PublishEffect, SlotAssumption DEF anchor, nextg, Protected, PushLoad
<1>8. Local(t)
  BY <1>1, <1>2, <1>5 DEF PushLoad, AcquireLoad, Local, TypeOK, RTypeOK, rvars, shared, locals, Goto, PushPC, PopPC, PrivatePC, OldPC, NextPC, PushAnchorPC, PopAnchorPC
<1>9. ThreadOK(t)'
  <2>1. AcquireOK(t)'
    BY <1>1, <1>3, <1>6, ListFacts DEF PushLoad, AcquireLoad, TypeOK, RTypeOK, rvars, shared, locals, Goto, PushPC, PopPC, PrivatePC, OldPC, NextPC, PushAnchorPC, PopAnchorPC, ThreadOK, AcquireOK
  <2>2. AnchorOK(t)'
    <3>1. CASE pc'[t] = "p_next"
      <4>1. anchor(t)' = tail /\ UNCHANGED <<status, next, chain>>
        BY <1>1, <1>6, <3>1 DEF PushLoad, AcquireLoad, TypeOK, RTypeOK, rvars, shared, locals, Goto
      <4>2. tail # Null /\ status[tail] = "live" /\ InList(tail)
        BY ListFacts DEF PushLoad, AcquireLoad
      <4> QED
        BY <4>1, <4>2 DEF AnchorOK, Protected, InList, anchor
    <3>2. CASE pc'[t] # "p_next"
      BY <1>1, <3>2 DEF PushLoad, AcquireLoad, TypeOK, RTypeOK, rvars, shared, locals, Goto, PushPC, PopPC, PrivatePC, OldPC, NextPC, PushAnchorPC, PopAnchorPC, AnchorOK
    <3> QED
      BY <3>1, <3>2
  <2>3. PushOK(t)'
    BY <1>1, <1>3, <1>6, ListFacts DEF PushLoad, AcquireLoad, TypeOK, RTypeOK, rvars, shared, locals, Goto, PushPC, PopPC, PrivatePC, OldPC, NextPC, PushAnchorPC, PopAnchorPC, ThreadOK, PushOK
  <2>4. PopOK(t)'
    BY <1>1, <1>3, <1>6, ListFacts DEF PushLoad, AcquireLoad, TypeOK, RTypeOK, rvars, shared, locals, Goto, PushPC, PopPC, PrivatePC, OldPC, NextPC, PushAnchorPC, PopAnchorPC, ThreadOK, PopOK, AcquireOK
  <2> QED
    BY <2>1, <2>2, <2>3, <2>4 DEF ThreadOK
<1> QED
  BY <1>8, <1>9, LocalStep

LEMMA PushPublishInv ==
  ASSUME IInv, TypeOK', NEW t \in Thread, PushPublish(t)
  PROVE  IInv'
<1>1. TypeOK /\ ThreadOK(t) /\ anchor(t) \in Node \union {Null} /\ nextg(t) \in Node \union {Null}
  BY SlotType DEF IInv
<1>2. open
  BY ListFacts DEF PushPublish, AcquirePublish, Goto
<1>3. cur[t] \in Node \union {Null}
  BY <1>1, ListFacts DEF PushPublish, AcquirePublish, TypeOK, Goto
<1>4. \/ Publish(t, "anchor", cur[t])
      \/ UNCHANGED <<slot, pinned>>
  BY DEF PushPublish, AcquirePublish
<1>5. /\ \A u \in Thread \ {t} : slot'[u] = slot[u]
      /\ \A g \in pinned : g[1] # t => g \in pinned'
  BY <1>1, <1>3, <1>4, PublishEffect, SlotAssumption
<1>6. /\ Publish(t, "anchor", cur[t]) => anchor(t)' = cur[t] /\ nextg(t)' = nextg(t)
      /\ UNCHANGED slot => anchor(t)' = anchor(t) /\ nextg(t)' = nextg(t)
      /\ Protected(t, "anchor") => Protected(t, "anchor")' \/ ~UNCHANGED <<slot, pinned>>
  BY <1>1, <1>3, <1>4, PublishEffect, SlotAssumption DEF anchor, nextg, Protected, PushPublish
<1>8. Local(t)
  BY <1>1, <1>2, <1>5 DEF PushPublish, AcquirePublish, Local, TypeOK, RTypeOK, rvars, shared, locals, Goto, PushPC, PopPC, PrivatePC, OldPC, NextPC, PushAnchorPC, PopAnchorPC
<1>9. ThreadOK(t)'
  <2>1. AcquireOK(t)'
    BY <1>1, <1>3, <1>6, ListFacts DEF PushPublish, AcquirePublish, TypeOK, RTypeOK, rvars, shared, locals, Goto, PushPC, PopPC, PrivatePC, OldPC, NextPC, PushAnchorPC, PopAnchorPC, ThreadOK, AcquireOK
  <2>2. AnchorOK(t)'
    BY <1>1, <1>3, <1>6, ListFacts DEF PushPublish, AcquirePublish, TypeOK, RTypeOK, rvars, shared, locals, Goto, PushPC, PopPC, PrivatePC, OldPC, NextPC, PushAnchorPC, PopAnchorPC, ThreadOK, AcquireOK, AnchorOK, PushOK, PopOK, Protected, InList, anchor, nextg
  <2>3. PushOK(t)'
    BY <1>1, <1>3, <1>6, ListFacts DEF PushPublish, AcquirePublish, TypeOK, RTypeOK, rvars, shared, locals, Goto, PushPC, PopPC, PrivatePC, OldPC, NextPC, PushAnchorPC, PopAnchorPC, ThreadOK, PushOK
  <2>4. PopOK(t)'
    BY <1>1, <1>3, <1>6, ListFacts DEF PushPublish, AcquirePublish, TypeOK, RTypeOK, rvars, shared, locals, Goto, PushPC, PopPC, PrivatePC, OldPC, NextPC, PushAnchorPC, PopAnchorPC, ThreadOK, PopOK, AcquireOK
  <2> QED
    BY <2>1, <2>2, <2>3, <2>4 DEF ThreadOK
<1> QED
  BY <1>8, <1>9, LocalStep

LEMMA PushValidateInv ==
  ASSUME IInv, TypeOK', NEW t \in Thread, PushValidate(t)
  PROVE  IInv'
<1>1. TypeOK /\ ThreadOK(t) /\ anchor(t) \in Node \union {Null} /\ nextg(t) \in Node \union {Null}
  BY SlotType DEF IInv
<1>2. open
  BY ListFacts DEF PushValidate, AcquireValidate, Goto
<1>3. tail \in Node \union {Null}
  BY <1>1, ListFacts DEF PushValidate, AcquireValidate, TypeOK, Goto
<1>4. \/ Publish(t, "anchor", tail)
      \/ UNCHANGED <<slot, pinned>>
  BY DEF PushValidate, AcquireValidate
<1>5. /\ \A u \in Thread \ {t} : slot'[u] = slot[u]
      /\ \A g \in pinned : g[1] # t => g \in pinned'
  BY <1>1, <1>3, <1>4, PublishEffect, SlotAssumption
<1>6. /\ Publish(t, "anchor", tail) => anchor(t)' = tail /\ nextg(t)' = nextg(t)
      /\ UNCHANGED slot => anchor(t)' = anchor(t) /\ nextg(t)' = nextg(t)
      /\ Protected(t, "anchor") => Protected(t, "anchor")' \/ ~UNCHANGED <<slot, pinned>>
  BY <1>1, <1>3, <1>4, PublishEffect, SlotAssumption DEF anchor, nextg, Protected, PushValidate
<1>8. Local(t)
  BY <1>1, <1>2, <1>5 DEF PushValidate, AcquireValidate, Local, TypeOK, RTypeOK, rvars, shared, locals, Goto, PushPC, PopPC, PrivatePC, OldPC, NextPC, PushAnchorPC, PopAnchorPC
<1>9. ThreadOK(t)'
  <2>1. AcquireOK(t)'
    BY <1>1, <1>3, <1>6, ListFacts DEF PushValidate, AcquireValidate, TypeOK, RTypeOK, rvars, shared, locals, Goto, PushPC, PopPC, PrivatePC, OldPC, NextPC, PushAnchorPC, PopAnchorPC, ThreadOK, AcquireOK
  <2>2. AnchorOK(t)'
    BY <1>1, <1>3, <1>6, ListFacts DEF PushValidate, AcquireValidate, TypeOK, RTypeOK, rvars, shared, locals, Goto, PushPC, PopPC, PrivatePC, OldPC, NextPC, PushAnchorPC, PopAnchorPC, ThreadOK, AcquireOK, AnchorOK, PushOK, PopOK, Protected, InList, anchor, nextg
  <2>3. PushOK(t)'
    BY <1>1, <1>3, <1>6, ListFacts DEF PushValidate, AcquireValidate, TypeOK, RTypeOK, rvars, shared, locals, Goto, PushPC, PopPC, PrivatePC, OldPC, NextPC, PushAnchorPC, PopAnchorPC, ThreadOK, PushOK
  <2>4. PopOK(t)'
    BY <1>1, <1>3, <1>6, ListFacts DEF PushValidate, AcquireValidate, TypeOK, RTypeOK, rvars, shared, locals, Goto, PushPC, PopPC, PrivatePC, OldPC, NextPC, PushAnchorPC, PopAnchorPC, ThreadOK, PopOK, AcquireOK
  <2> QED
    BY <2>1, <2>2, <2>3, <2>4 DEF ThreadOK
<1> QED
  BY <1>8, <1>9, LocalStep

LEMMA PopLoadInv ==
  ASSUME IInv, TypeOK', NEW t \in Thread, PopLoad(t)
  PROVE  IInv'
<1>1. TypeOK /\ ThreadOK(t) /\ anchor(t) \in Node \union {Null} /\ nextg(t) \in Node \union {Null}
  BY SlotType DEF IInv
<1>2. open
  BY ListFacts DEF PopLoad, AcquireLoad, Goto
<1>3. head \in Node \union {Null}
  BY <1>1, ListFacts DEF PopLoad, AcquireLoad, TypeOK, Goto
<1>4. \/ Publish(t, "anchor", head)
      \/ UNCHANGED <<slot, pinned>>
  BY DEF PopLoad, AcquireLoad
<1>5. /\ \A u \in Thread \ {t} : slot'[u] = slot[u]
      /\ \A g \in pinned : g[1] # t => g \in pinned'
  BY <1>1, <1>3, <1>4, PublishEffect, SlotAssumption
<1>6. /\ Publish(t, "anchor", head) => anchor(t)' = head /\ nextg(t)' = nextg(t)
      /\ UNCHANGED slot => anchor(t)' = anchor(t) /\ nextg(t)' = nextg(t)
      /\ Protected(t, "anchor") => Protected(t, "anchor")' \/ ~UNCHANGED <<slot, pinned>>
  BY <1>1, <1>3, <1>4, PublishEffect, SlotAssumption DEF anchor, nextg, Protected, PopLoad
<1>8. Local(t)
  BY <1>1, <1>2, <1>5 DEF PopLoad, AcquireLoad, Local, TypeOK, RTypeOK, rvars, shared, locals, Goto, PushPC, PopPC, PrivatePC, OldPC, NextPC, PushAnchorPC, PopAnchorPC
<1>9. ThreadOK(t)'
  <2>1. AcquireOK(t)'
    BY <1>1, <1>3, <1>6, ListFacts DEF PopLoad, AcquireLoad, TypeOK, RTypeOK, rvars, shared, locals, Goto, PushPC, PopPC, PrivatePC, OldPC, NextPC, PushAnchorPC, PopAnchorPC, ThreadOK, AcquireOK
  <2>2. AnchorOK(t)'
    <3>1. CASE pc'[t] = "o_nload"
      <4>1. anchor(t)' = head /\ UNCHANGED <<status, next, chain>>
        BY <1>1, <1>6, <3>1 DEF PopLoad, AcquireLoad, TypeOK, RTypeOK, rvars, shared, locals, Goto
      <4>2. head # Null /\ status[head] = "live" /\ InList(head)
        BY ListFacts DEF PopLoad, AcquireLoad
      <4> QED
        BY <4>1, <4>2 DEF AnchorOK, Protected, InList, anchor
    <3>2. CASE pc'[t] # "o_nload"
      BY <1>1, <3>2 DEF PopLoad, AcquireLoad, TypeOK, RTypeOK, rvars, shared, locals, Goto, PushPC, PopPC, PrivatePC, OldPC, NextPC, PushAnchorPC, PopAnchorPC, AnchorOK
    <3> QED
      BY <3>1, <3>2
  <2>3. PushOK(t)'
    BY <1>1, <1>3, <1>6, ListFacts DEF PopLoad, AcquireLoad, TypeOK, RTypeOK, rvars, shared, locals, Goto, PushPC, PopPC, PrivatePC, OldPC, NextPC, PushAnchorPC, PopAnchorPC, ThreadOK, PushOK
  <2>4. PopOK(t)'
    <3>1. pc'[t] \in {"o_publish", "o_nload"}
      BY <1>1 DEF PopLoad, AcquireLoad, TypeOK, RTypeOK, rvars, shared, locals, Goto
    <3>2. pc'[t] = "o_nload" => anchor(t)' = head
      BY <1>1, <1>6 DEF PopLoad, AcquireLoad, TypeOK, RTypeOK, rvars, shared, locals, Goto
    <3>3. chain' = chain /\ \A i \in 2..Len(chain) : chain[i] # head
      BY ListFacts DEF PopLoad, AcquireLoad
    <3> QED
      BY <3>1, <3>2, <3>3 DEF PopOK, PopAnchorPC
  <2> QED
    BY <2>1, <2>2, <2>3, <2>4 DEF ThreadOK
<1> QED
  BY <1>8, <1>9, LocalStep

LEMMA PopPublishInv ==
  ASSUME IInv, TypeOK', NEW t \in Thread, PopPublish(t)
  PROVE  IInv'
<1>1. TypeOK /\ ThreadOK(t) /\ anchor(t) \in Node \union {Null} /\ nextg(t) \in Node \union {Null}
  BY SlotType DEF IInv
<1>2. open
  BY ListFacts DEF PopPublish, AcquirePublish, Goto
<1>3. cur[t] \in Node \union {Null}
  BY <1>1, ListFacts DEF PopPublish, AcquirePublish, TypeOK, Goto
<1>4. \/ Publish(t, "anchor", cur[t])
      \/ UNCHANGED <<slot, pinned>>
  BY DEF PopPublish, AcquirePublish
<1>5. /\ \A u \in Thread \ {t} : slot'[u] = slot[u]
      /\ \A g \in pinned : g[1] # t => g \in pinned'
  BY <1>1, <1>3, <1>4, PublishEffect, SlotAssumption
<1>6. /\ Publish(t, "anchor", cur[t]) => anchor(t)' = cur[t] /\ nextg(t)' = nextg(t)
      /\ UNCHANGED slot => anchor(t)' = anchor(t) /\ nextg(t)' = nextg(t)
      /\ Protected(t, "anchor") => Protected(t, "anchor")' \/ ~UNCHANGED <<slot, pinned>>
  BY <1>1, <1>3, <1>4, PublishEffect, SlotAssumption DEF anchor, nextg, Protected, PopPublish
<1>8. Local(t)
  BY <1>1, <1>2, <1>5 DEF PopPublish, AcquirePublish, Local, TypeOK, RTypeOK, rvars, shared, locals, Goto, PushPC, PopPC, PrivatePC, OldPC, NextPC, PushAnchorPC, PopAnchorPC
<1>9. ThreadOK(t)'
  <2>1. AcquireOK(t)'
    BY <1>1, <1>3, <1>6, ListFacts DEF PopPublish, AcquirePublish, TypeOK, RTypeOK, rvars, shared, locals, Goto, PushPC, PopPC, PrivatePC, OldPC, NextPC, PushAnchorPC, PopAnchorPC, ThreadOK, AcquireOK
  <2>2. AnchorOK(t)'
    BY <1>1, <1>3, <1>6, ListFacts DEF PopPublish, AcquirePublish, TypeOK, RTypeOK, rvars, shared, locals, Goto, PushPC, PopPC, PrivatePC, OldPC, NextPC, PushAnchorPC, PopAnchorPC, ThreadOK, AcquireOK, AnchorOK, PushOK, PopOK, Protected, InList, anchor, nextg
  <2>3. PushOK(t)'
    BY <1>1, <1>3, <1>6, ListFacts DEF PopPublish, AcquirePublish, TypeOK, RTypeOK, rvars, shared, locals, Goto, PushPC, PopPC, PrivatePC, OldPC, NextPC, PushAnchorPC, PopAnchorPC, ThreadOK, PushOK
  <2>4. PopOK(t)'
    BY <1>1, <1>3, <1>6, ListFacts DEF PopPublish, AcquirePublish, TypeOK, RTypeOK, rvars, shared, locals, Goto, PushPC, PopPC, PrivatePC, OldPC, NextPC, PushAnchorPC, PopAnchorPC, ThreadOK, PopOK, AcquireOK
  <2> QED
    BY <2>1, <2>2, <2>3, <2>4 DEF ThreadOK
<1> QED
  BY <1>8, <1>9, LocalStep

LEMMA PopValidateInv ==
  ASSUME IInv, TypeOK', NEW t \in Thread, PopValidate(t)
  PROVE  IInv'
<1>1. TypeOK /\ ThreadOK(t) /\ anchor(t) \in Node \union {Null} /\ nextg(t) \in Node \union {Null}
  BY SlotType DEF IInv
<1>2. open
  BY ListFacts DEF PopValidate, AcquireValidate, Goto
<1>3. head \in Node \union {Null}
  BY <1>1, ListFacts DEF PopValidate, AcquireValidate, TypeOK, Goto
<1>4. \/ Publish(t, "anchor", head)
      \/ UNCHANGED <<slot, pinned>>
  BY DEF PopValidate, AcquireValidate
<1>5. /\ \A u \in Thread \ {t} : slot'[u] = slot[u]
      /\ \A g \in pinned : g[1] # t => g \in pinned'
  BY <1>1, <1>3, <1>4, PublishEffect, SlotAssumption
<1>6. /\ Publish(t, "anchor", head) => anchor(t)' = head /\ nextg(t)' = nextg(t)
      /\ UNCHANGED slot => anchor(t)' = anchor(t) /\ nextg(t)' = nextg(t)
      /\ Protected(t, "anchor") => Protected(t, "anchor")' \/ ~UNCHANGED <<slot, pinned>>
  BY <1>1, <1>3, <1>4, PublishEffect, SlotAssumption DEF anchor, nextg, Protected, PopValidate
<1>8. Local(t)
  BY <1>1, <1>2, <1>5 DEF PopValidate, AcquireValidate, Local, TypeOK, RTypeOK, rvars, shared, locals, Goto, PushPC, PopPC, PrivatePC, OldPC, NextPC, PushAnchorPC, PopAnchorPC
<1>9. ThreadOK(t)'
  <2>1. AcquireOK(t)'
    BY <1>1, <1>3, <1>6, ListFacts DEF PopValidate, AcquireValidate, TypeOK, RTypeOK, rvars, shared, locals, Goto, PushPC, PopPC, PrivatePC, OldPC, NextPC, PushAnchorPC, PopAnchorPC, ThreadOK, AcquireOK
  <2>2. AnchorOK(t)'
    BY <1>1, <1>3, <1>6, ListFacts DEF PopValidate, AcquireValidate, TypeOK, RTypeOK, rvars, shared, locals, Goto, PushPC, PopPC, PrivatePC, OldPC, NextPC, PushAnchorPC, PopAnchorPC, ThreadOK, AcquireOK, AnchorOK, PushOK, PopOK, Protected, InList, anchor, nextg
  <2>3. PushOK(t)'
    BY <1>1, <1>3, <1>6, ListFacts DEF PopValidate, AcquireValidate, TypeOK, RTypeOK, rvars, shared, locals, Goto, PushPC, PopPC, PrivatePC, OldPC, NextPC, PushAnchorPC, PopAnchorPC, ThreadOK, PushOK
  <2>4. PopOK(t)'
    BY <1>1, <1>3, <1>6, ListFacts DEF PopValidate, AcquireValidate, TypeOK, RTypeOK, rvars, shared, locals, Goto, PushPC, PopPC, PrivatePC, OldPC, NextPC, PushAnchorPC, PopAnchorPC, ThreadOK, PopOK, AcquireOK
  <2> QED
    BY <2>1, <2>2, <2>3, <2>4 DEF ThreadOK
<1> QED
  BY <1>8, <1>9, LocalStep

LEMMA PopNextLoadInv ==
  ASSUME IInv, TypeOK', NEW t \in Thread, PopNextLoad(t)
  PROVE  IInv'
<1>1. TypeOK /\ ThreadOK(t) /\ anchor(t) \in Node \union {Null} /\ nextg(t) \in Node \union {Null}
  BY SlotType DEF IInv
<1>2. open
  BY ListFacts DEF PopNextLoad, AcquireLoad, Goto
<1>3. next[anchor(t)] \in Node \union {Null}
  BY <1>1, AnchorNode DEF PopNextLoad, AcquireLoad, TypeOK, PopAnchorPC, Goto
<1>4. \/ Publish(t, "next", next[anchor(t)])
      \/ UNCHANGED <<slot, pinned>>
  BY DEF PopNextLoad, AcquireLoad
<1>5. /\ \A u \in Thread \ {t} : slot'[u] = slot[u]
      /\ \A g \in pinned : g[1] # t => g \in pinned'
  BY <1>1, <1>3, <1>4, PublishEffect, SlotAssumption
<1>6. /\ Publish(t, "next", next[anchor(t)]) => nextg(t)' = next[anchor(t)] /\ anchor(t)' = anchor(t)
      /\ UNCHANGED slot => anchor(t)' = anchor(t) /\ nextg(t)' = nextg(t)
      /\ Protected(t, "anchor") => Protected(t, "anchor")'
  BY <1>1, <1>3, <1>4, PublishEffect, SlotAssumption DEF anchor, nextg, Protected, PopNextLoad
<1>8. Local(t)
  BY <1>1, <1>2, <1>5 DEF PopNextLoad, AcquireLoad, Local, TypeOK, RTypeOK, rvars, shared, locals, Goto, PushPC, PopPC, PrivatePC, OldPC, NextPC, PushAnchorPC, PopAnchorPC
<1>9. ThreadOK(t)'
  <2>1. AcquireOK(t)'
    BY <1>1, <1>3, <1>6, ListFacts DEF PopNextLoad, AcquireLoad, TypeOK, RTypeOK, rvars, shared, locals, Goto, PushPC, PopPC, PrivatePC, OldPC, NextPC, PushAnchorPC, PopAnchorPC, ThreadOK, AcquireOK
  <2>2. AnchorOK(t)'
    BY <1>1, <1>3, <1>6, ListFacts DEF PopNextLoad, AcquireLoad, TypeOK, RTypeOK, rvars, shared, locals, Goto, PushPC, PopPC, PrivatePC, OldPC, NextPC, PushAnchorPC, PopAnchorPC, ThreadOK, AcquireOK, AnchorOK, PushOK, PopOK, Protected, InList, anchor, nextg
  <2>3. PushOK(t)'
    BY <1>1, <1>3, <1>6, ListFacts DEF PopNextLoad, AcquireLoad, TypeOK, RTypeOK, rvars, shared, locals, Goto, PushPC, PopPC, PrivatePC, OldPC, NextPC, PushAnchorPC, PopAnchorPC, ThreadOK, PushOK
  <2>4. PopOK(t)'
    BY <1>1, <1>3, <1>6, ListFacts DEF PopNextLoad, AcquireLoad, TypeOK, RTypeOK, rvars, shared, locals, Goto, PushPC, PopPC, PrivatePC, OldPC, NextPC, PushAnchorPC, PopAnchorPC, ThreadOK, PopOK, AcquireOK
  <2> QED
    BY <2>1, <2>2, <2>3, <2>4 DEF ThreadOK
<1> QED
  BY <1>8, <1>9, LocalStep

LEMMA PopNextPublishInv ==
  ASSUME IInv, TypeOK', NEW t \in Thread, PopNextPublish(t)
  PROVE  IInv'
<1>1. TypeOK /\ ThreadOK(t) /\ anchor(t) \in Node \union {Null} /\ nextg(t) \in Node \union {Null}
  BY SlotType DEF IInv
<1>2. open
  BY ListFacts DEF PopNextPublish, AcquirePublish, Goto
<1>3. cur[t] \in Node \union {Null}
  BY <1>1, ListFacts DEF PopNextPublish, AcquirePublish, TypeOK, Goto
<1>4. \/ Publish(t, "next", cur[t])
      \/ UNCHANGED <<slot, pinned>>
  BY DEF PopNextPublish, AcquirePublish
<1>5. /\ \A u \in Thread \ {t} : slot'[u] = slot[u]
      /\ \A g \in pinned : g[1] # t => g \in pinned'
  BY <1>1, <1>3, <1>4, PublishEffect, SlotAssumption
<1>6. /\ Publish(t, "next", cur[t]) => nextg(t)' = cur[t] /\ anchor(t)' = anchor(t)
      /\ UNCHANGED slot => anchor(t)' = anchor(t) /\ nextg(t)' = nextg(t)
      /\ Protected(t, "anchor") => Protected(t, "anchor")'
  BY <1>1, <1>3, <1>4, PublishEffect, SlotAssumption DEF anchor, nextg, Protected, PopNextPublish
<1>8. Local(t)
  BY <1>1, <1>2, <1>5 DEF PopNextPublish, AcquirePublish, Local, TypeOK, RTypeOK, rvars, shared, locals, Goto, PushPC, PopPC, PrivatePC, OldPC, NextPC, PushAnchorPC, PopAnchorPC
<1>9. ThreadOK(t)'
  <2>1. AcquireOK(t)'
    BY <1>1, <1>3, <1>6, ListFacts DEF PopNextPublish, AcquirePublish, TypeOK, RTypeOK, rvars, shared, locals, Goto, PushPC, PopPC, PrivatePC, OldPC, NextPC, PushAnchorPC, PopAnchorPC, ThreadOK, AcquireOK
  <2>2. AnchorOK(t)'
    BY <1>1, <1>3, <1>6, ListFacts DEF PopNextPublish, AcquirePublish, TypeOK, RTypeOK, rvars, shared, locals, Goto, PushPC, PopPC, PrivatePC, OldPC, NextPC, PushAnchorPC, PopAnchorPC, ThreadOK, AcquireOK, AnchorOK, PushOK, PopOK, Protected, InList, anchor, nextg
  <2>3. PushOK(t)'
    BY <1>1, <1>3, <1>6, ListFacts DEF PopNextPublish, AcquirePublish, TypeOK, RTypeOK, rvars, shared, locals, Goto, PushPC, PopPC, PrivatePC, OldPC, NextPC, PushAnchorPC, PopAnchorPC, ThreadOK, PushOK
  <2>4. PopOK(t)'
    BY <1>1, <1>3, <1>6, ListFacts DEF PopNextPublish, AcquirePublish, TypeOK, RTypeOK, rvars, shared, locals, Goto, PushPC, PopPC, PrivatePC, OldPC, NextPC, PushAnchorPC, PopAnchorPC, ThreadOK, PopOK, AcquireOK
  <2> QED
    BY <2>1, <2>2, <2>3, <2>4 DEF ThreadOK
<1> QED
  BY <1>8, <1>9, LocalStep

LEMMA PopNextValidateInv ==
  ASSUME IInv, TypeOK', NEW t \in Thread, PopNextValidate(t)
  PROVE  IInv'
<1>1. TypeOK /\ ThreadOK(t) /\ anchor(t) \in Node \union {Null} /\ nextg(t) \in Node \union {Null}
  BY SlotType DEF IInv
<1>2. open
  BY ListFacts DEF PopNextValidate, AcquireValidate, Goto
<1>3. next[anchor(t)] \in Node \union {Null}
  BY <1>1, AnchorNode DEF PopNextValidate, AcquireValidate, TypeOK, PopAnchorPC, Goto
<1>4. \/ Publish(t, "next", next[anchor(t)])
      \/ UNCHANGED <<slot, pinned>>
  BY DEF PopNextValidate, AcquireValidate
<1>5. /\ \A u \in Thread \ {t} : slot'[u] = slot[u]
      /\ \A g \in pinned : g[1] # t => g \in pinned'
  BY <1>1, <1>3, <1>4, PublishEffect, SlotAssumption
<1>6. /\ Publish(t, "next", next[anchor(t)]) => nextg(t)' = next[anchor(t)] /\ anchor(t)' = anchor(t)
      /\ UNCHANGED slot => anchor(t)' = anchor(t) /\ nextg(t)' = nextg(t)
      /\ Protected(t, "anchor") => Protected(t, "anchor")'
  BY <1>1, <1>3, <1>4, PublishEffect, SlotAssumption DEF anchor, nextg, Protected, PopNextValidate
<1>8. Local(t)
  BY <1>1, <1>2, <1>5 DEF PopNextValidate, AcquireValidate, Local, TypeOK, RTypeOK, rvars, shared, locals, Goto, PushPC, PopPC, PrivatePC, OldPC, NextPC, PushAnchorPC, PopAnchorPC
<1>9. ThreadOK(t)'
  <2>1. AcquireOK(t)'
    BY <1>1, <1>3, <1>6, ListFacts DEF PopNextValidate, AcquireValidate, TypeOK, RTypeOK, rvars, shared, locals, Goto, PushPC, PopPC, PrivatePC, OldPC, NextPC, PushAnchorPC, PopAnchorPC, ThreadOK, AcquireOK, PopOK
  <2>2. AnchorOK(t)'
    BY <1>1, <1>3, <1>6, ListFacts DEF PopNextValidate, AcquireValidate, TypeOK, RTypeOK, rvars, shared, locals, Goto, PushPC, PopPC, PrivatePC, OldPC, NextPC, PushAnchorPC, PopAnchorPC, ThreadOK, AcquireOK, AnchorOK, PushOK, PopOK, Protected, InList, anchor, nextg
  <2>3. PushOK(t)'
    BY <1>1, <1>3, <1>6, ListFacts DEF PopNextValidate, AcquireValidate, TypeOK, RTypeOK, rvars, shared, locals, Goto, PushPC, PopPC, PrivatePC, OldPC, NextPC, PushAnchorPC, PopAnchorPC, ThreadOK, PushOK
  <2>4. PopOK(t)'
    BY <1>1, <1>3, <1>6, ListFacts DEF PopNextValidate, AcquireValidate, TypeOK, RTypeOK, rvars, shared, locals, Goto, PushPC, PopPC, PrivatePC, OldPC, NextPC, PushAnchorPC, PopAnchorPC, ThreadOK, PopOK, AcquireOK
  <2> QED
    BY <2>1, <2>2, <2>3, <2>4 DEF ThreadOK
<1> QED
  BY <1>8, <1>9, LocalStep

LEMMA PushHelpInv ==
  ASSUME IInv, TypeOK', NEW t \in Thread, PushHelp(t)
  PROVE  IInv'
<1>1. TypeOK /\ ThreadOK(t)
  BY DEF IInv
<1>2. open
  BY ListFacts DEF PushHelp, Goto
<1>3. next[tail] # Null /\ tail' = next[tail]
  BY <1>1 DEF PushHelp, Goto, ThreadOK, PushOK
<1>4. Local(t)
  BY <1>1, <1>2, <1>3 DEF PushHelp, Local, TypeOK, RTypeOK, rvars, Goto, PrivatePC, OldPC, PushPC
<1>5. ThreadOK(t)'
  BY <1>1 DEF PushHelp, TypeOK, RTypeOK, rvars, Goto, ThreadOK, AcquireOK, AnchorOK, PushOK, PopOK,
              PushAnchorPC, PopAnchorPC, NextPC, anchor, nextg
<1> QED
  BY <1>4, <1>5, LocalStep

LEMMA PushSwingInv ==
  ASSUME IInv, TypeOK', NEW t \in Thread, PushSwing(t)
  PROVE  IInv'
<1>1. TypeOK /\ ThreadOK(t)
  BY DEF IInv
<1>2. open
  BY ListFacts DEF PushSwing, Goto
<1>3. tail' = tail \/ (next[tail] # Null /\ tail' = next[tail])
  BY <1>1 DEF PushSwing, Goto, ThreadOK, PushOK
<1>4. /\ \A u \in Thread \ {t} : slot'[u] = slot[u]
      /\ \A g \in pinned : g[1] # t => g \in pinned'
      /\ nextg(t)' = nextg(t)
  <2>1. {"anchor"} \in SUBSET Slot /\ "next" \in Slot \ {"anchor"} /\ Release(t, {"anchor"})
    BY SlotAssumption DEF PushSwing
  <2> QED
    BY <1>1, <2>1, ReleaseEffect DEF nextg
<1>5. Local(t)
  BY <1>1, <1>2, <1>3, <1>4 DEF PushSwing, Local, TypeOK, RTypeOK, Goto, PrivatePC, OldPC, PushPC
<1>6. ThreadOK(t)'
  BY <1>1, <1>4 DEF PushSwing, TypeOK, RTypeOK, Goto, ThreadOK, AcquireOK, AnchorOK, PushOK, PopOK,
                    PushAnchorPC, PopAnchorPC, NextPC
<1> QED
  BY <1>5, <1>6, LocalStep

LEMMA PopHelpInv ==
  ASSUME IInv, TypeOK', NEW t \in Thread, PopHelp(t)
  PROVE  IInv'
<1>1. TypeOK /\ ThreadOK(t)
  BY DEF IInv
<1>2. open
  BY ListFacts DEF PopHelp, Goto, Retry
<1>3. next[tail] # Null /\ tail' = next[tail]
  BY <1>1 DEF PopHelp, Retry, Goto, ThreadOK, PopOK, Protected, nextg
<1>4. /\ \A u \in Thread \ {t} : slot'[u] = slot[u]
      /\ \A g \in pinned : g[1] # t => g \in pinned'
      /\ nextg(t)' = Null
  BY <1>1, ReleaseEffect, SlotAssumption DEF PopHelp, Retry, nextg
<1>5. Local(t)
  BY <1>1, <1>2, <1>3, <1>4 DEF PopHelp, Retry, Local, TypeOK, RTypeOK, locals, Goto,
                                PrivatePC, OldPC, PushPC
<1>6. ThreadOK(t)'
  BY <1>1, <1>4 DEF PopHelp, Retry, TypeOK, RTypeOK, locals, Goto, ThreadOK, AcquireOK, AnchorOK,
                    PushOK, PopOK, PushAnchorPC, PopAnchorPC, NextPC
<1> QED
  BY <1>5, <1>6, LocalStep

-----------------------------------------------------------------------------
(* Steps that change the list or the status of a node                      *)

\* What such a step of thread t may do without hurting another thread u: u's
\* own state stays, its protected nodes stay protected, the successor of a node
\* that has one stays, and a node without one stays in the list.
LEMMA OtherThread ==
  ASSUME IInv, NEW u \in Thread, ThreadOK(u),
         pc'[u] = pc[u], node'[u] = node[u], cur'[u] = cur[u], slot'[u] = slot[u],
         \A s \in {"anchor", "next"} : Protected(u, s) => Protected(u, s)',
         pc[u] \in PushAnchorPC \union PopAnchorPC =>
           /\ next[anchor(u)] # Null => next'[anchor(u)] = next[anchor(u)]
           /\ next'[anchor(u)] = Null => InList(anchor(u))'
           /\ tail = anchor(u) => tail' = anchor(u) \/ next'[anchor(u)] # Null,
         pc[u] \in PopAnchorPC => \A i \in 2..Len(chain') : chain'[i] # anchor(u),
         pc[u] = "o_cas" /\ head' = anchor(u) => tail' # anchor(u)
  PROVE  ThreadOK(u)'
<1>1. anchor(u)' = anchor(u) /\ nextg(u)' = nextg(u)
  BY DEF anchor, nextg
<1>2. AcquireOK(u)'
  BY <1>1 DEF ThreadOK, AcquireOK
<1>3. AnchorOK(u)'
  BY <1>1 DEF ThreadOK, AnchorOK
<1>4. PushOK(u)'
  BY <1>1 DEF ThreadOK, PushOK, PushAnchorPC
<1>5. PopOK(u)'
  <2>1. pc[u] \in PopAnchorPC /\ next[anchor(u)] # Null => next'[anchor(u)] = next[anchor(u)]
    OBVIOUS
  <2>2. pc[u] \in {"o_tail", "o_help", "o_cas"} => nextg(u) # Null
    BY DEF ThreadOK, PopOK, Protected, nextg
  <2> QED
    BY <1>1, <2>1, <2>2 DEF ThreadOK, PopOK, PopAnchorPC
<1> QED
  BY <1>2, <1>3, <1>4, <1>5 DEF ThreadOK

LEMMA PushInv ==
  ASSUME IInv, TypeOK', NEW t \in Thread, NEW n \in Node, NEW v \in Value, Push(t, n, v)
  PROVE  IInv'
<1>1. TypeOK /\ ThreadOK(t) /\ ListOK
  BY DEF IInv
<1>2. /\ status[n] = "free" /\ status' = [status EXCEPT ![n] = "live"]
      /\ next' = [next EXCEPT ![n] = Null] /\ node' = [node EXCEPT ![t] = n]
      /\ pc[t] = "idle" /\ pc' = [pc EXCEPT ![t] = "p_load"]
      /\ UNCHANGED <<slot, pinned, head, tail, open, cur, old, res, chain, sawEmpty>>
  BY DEF Push, Allocate, Goto
<1>3. ~InList(n) /\ InList(n)' = InList(n)
  BY <1>1, <1>2 DEF ListOK, InList
<1>4. ListOK'
  BY <1>1, <1>2, <1>3 DEF ListOK, InList, TypeOK, RTypeOK, Push
<1>5. RetiredOK'
  BY <1>2 DEF IInv, RetiredOK, TypeOK, RTypeOK
<1>6. NoLeak'
  <2>1. \A m \in Node \ {n} : status'[m] = status[m]
    BY <1>1, <1>2 DEF TypeOK, RTypeOK
  <2>2. pc'[t] = "p_load" /\ node'[t] = n /\ \A u \in Thread \ {t} : pc'[u] = pc[u] /\ node'[u] = node[u]
    BY <1>1, <1>2 DEF TypeOK
  <2> QED
    BY <1>2, <2>1, <2>2 DEF IInv, NoLeak, InList, PushPC
<1>7. ASSUME NEW u \in Thread PROVE PrivateOK(u)'
  <2>1. \A w \in Thread \ {t} : pc[w] \in PrivatePC => node[w] # n /\ node[w] \in Node
    BY <1>1, <1>2 DEF IInv, PrivateOK, TypeOK
  <2> QED
    BY <1>1, <1>2, <1>3, <2>1, NullAssumption DEF IInv, PrivateOK, TypeOK, RTypeOK, InList
<1>8. ASSUME NEW u \in Thread PROVE OldOK(u)'
  <2>1. \A w \in Thread : /\ pc'[w] \in OldPC <=> pc[w] \in OldPC
                          /\ pc[w] \in OldPC => old[w] # n /\ old[w] \in Node
    BY <1>1, <1>2 DEF IInv, OldOK, TypeOK, OldPC
  <2>2. \A m \in Node \ {n} : status'[m] = status[m] /\ next'[m] = next[m]
    BY <1>1, <1>2 DEF TypeOK, RTypeOK
  <2> QED
    BY <1>2, <2>1, <2>2 DEF IInv, OldOK, InList
<1>9. ASSUME NEW u \in Thread PROVE ThreadOK(u)'
  <2>1. CASE u = t
    BY <1>1, <1>2, <2>1 DEF TypeOK, ThreadOK, AcquireOK, AnchorOK, PushOK, PopOK,
                            PushAnchorPC, PopAnchorPC, NextPC, nextg
  <2>2. CASE u # t
    <3>1. ThreadOK(u)
      BY DEF IInv
    <3>2. pc[u] \in PushAnchorPC \union PopAnchorPC => anchor(u) \in Node /\ anchor(u) # n
      BY <1>2, <3>1, AnchorNode DEF ThreadOK, AnchorOK, Protected, anchor
    <3>3. \A s \in {"anchor", "next"} : Protected(u, s) => Protected(u, s)'
      BY <1>1, <1>2, SlotAssumption DEF Protected, TypeOK, RTypeOK
    <3>4. pc'[u] = pc[u] /\ node'[u] = node[u]
      BY <1>1, <1>2, <2>2 DEF TypeOK
    <3>5. pc[u] \in PushAnchorPC \union PopAnchorPC =>
            next'[anchor(u)] = next[anchor(u)] /\ (next[anchor(u)] = Null => InList(anchor(u))')
      BY <1>1, <1>2, <3>1, <3>2 DEF TypeOK, ThreadOK, AnchorOK, InList, anchor
    <3>6. /\ pc[u] \in PopAnchorPC => \A i \in 2..Len(chain') : chain'[i] # anchor(u)
          /\ pc[u] = "o_cas" /\ head' = anchor(u) => tail' # anchor(u)
      BY <1>2, <3>1 DEF ThreadOK, PopOK
    <3> QED
      BY <1>2, <3>1, <3>3, <3>4, <3>5, <3>6, OtherThread
  <2> QED
    BY <2>1, <2>2
<1> QED
  BY <1>4, <1>5, <1>6, <1>7, <1>8, <1>9 DEF IInv

LEMMA PushLinkInv ==
  ASSUME IInv, TypeOK', NEW t \in Thread, PushLink(t)
  PROVE  IInv'
<1> DEFINE a == anchor(t)
           n == node[t]
           len == Len(chain)
<1>1. TypeOK /\ ThreadOK(t) /\ ListOK /\ PrivateOK(t)
  BY DEF IInv
<1>2. /\ pc[t] = "p_link" /\ pc' = [pc EXCEPT ![t] = "p_swing"] /\ next[a] = Null
      /\ next' = [next EXCEPT ![a] = n] /\ chain' = Append(chain, n)
      /\ UNCHANGED <<status, slot, pinned, head, tail, val, open, node, cur, old, res, sawEmpty>>
  BY DEF PushLink, Goto, rvars, locals
<1>3. /\ open /\ Null \notin Node /\ a \in Node
      /\ n \in Node /\ status[n] = "live" /\ next[n] = Null /\ ~InList(n)
  BY <1>1, <1>2, ListFacts, AnchorNode, NullAssumption
     DEF PrivateOK, PrivatePC, PushPC, PushAnchorPC, TypeOK
\* The anchor is the last node of the list.
<1>4. len \in Nat /\ len >= 1 /\ a = chain[len] /\ tail = a
  BY <1>1, <1>2, <1>3, ListFacts DEF ThreadOK, AnchorOK, PushOK, PushAnchorPC, ListOK, TypeOK
<1>5. /\ chain' \in Seq(Node) /\ Len(chain') = len + 1 /\ chain'[len + 1] = n
      /\ \A i \in 1..len : chain'[i] = chain[i]
  BY <1>1, <1>2, <1>3, <1>4 DEF TypeOK
<1>6. \A m \in Node : InList(m)' <=> InList(m) \/ m = n
  BY <1>4, <1>5 DEF InList
<1>7. /\ \A m \in Node : m # a => next'[m] = next[m]
      /\ next'[a] = n
  BY <1>1, <1>2, <1>3 DEF TypeOK
<1>8. ListOK'
  <2>1. \A i \in 1..len : chain[i] \in Node /\ (chain[i] = a => i = len) /\ chain[i] # n
    BY <1>1, <1>3, <1>4 DEF ListOK, TypeOK, InList
  <2>2. head' = chain'[1]
    BY <1>1, <1>2, <1>4, <1>5 DEF ListOK
  <2>3. \A i \in 1..(len + 1) : status'[chain'[i]] = "live"
    BY <1>1, <1>2, <1>3, <1>5 DEF ListOK
  <2>4. \A i, j \in 1..(len + 1) : chain'[i] = chain'[j] => i = j
    BY <1>1, <1>4, <1>5, <2>1 DEF ListOK
  <2>5. \A i \in 1..len : next'[chain'[i]] = chain'[i + 1]
    <3> SUFFICES ASSUME NEW i \in 1..len PROVE next'[chain'[i]] = chain'[i + 1]
      OBVIOUS
    <3>1. CASE i = len
      BY <1>4, <1>5, <1>7, <3>1
    <3>2. CASE i # len
      BY <1>1, <1>4, <1>5, <1>7, <2>1, <3>2 DEF ListOK
    <3> QED
      BY <3>1, <3>2
  <2>6. next'[chain'[len + 1]] = Null
    BY <1>3, <1>4, <1>5, <1>7, <2>1
  <2>7. tail' = chain'[len]
    BY <1>2, <1>4, <1>5
  <2> QED
    BY <1>2, <1>3, <1>4, <1>5, <2>2, <2>3, <2>4, <2>5, <2>6, <2>7 DEF ListOK
<1>9. RetiredOK'
  BY <1>2, <1>3, <1>7 DEF IInv, RetiredOK
<1>10. NoLeak'
  <2>1. \A u \in Thread : pc[u] \in PrivatePC /\ u # t => pc'[u] \in PrivatePC
    BY <1>1, <1>2 DEF TypeOK
  <2> QED
    BY <1>2, <1>6, <2>1 DEF IInv, NoLeak, PrivatePC
<1>11. ASSUME NEW u \in Thread PROVE PrivateOK(u)' /\ OldOK(u)'
  <2>1. \A w \in Thread : /\ pc'[w] \in PrivatePC => w # t /\ pc[w] \in PrivatePC
                          /\ pc'[w] \in OldPC <=> pc[w] \in OldPC
    BY <1>1, <1>2 DEF TypeOK, PrivatePC, PushPC, OldPC
  <2>2. PrivateOK(u) /\ OldOK(u) /\ node[u] \in Node \union {Null} /\ old[u] \in Node \union {Null}
    BY <1>1 DEF IInv, TypeOK
  <2>3. pc[t] \in PrivatePC
    BY <1>2 DEF PrivatePC, PushPC
  <2>4. PrivateOK(u)'
    <3>1. pc'[u] \in PrivatePC => node[u] # n /\ node[u] # a /\ node[u] \in Node
      BY <1>1, <1>3, <1>4, <2>1, <2>2, <2>3, ListFacts DEF PrivateOK, ListOK, InList
    <3> QED
      BY <1>2, <1>6, <1>7, <2>1, <2>2, <3>1 DEF PrivateOK
  <2>5. OldOK(u)'
    <3>1. pc'[u] \in OldPC => old[u] # n /\ old[u] # a /\ old[u] \in Node
      BY <1>2, <1>3, <2>1, <2>2 DEF OldOK
    <3> QED
      BY <1>2, <1>6, <1>7, <2>1, <2>2, <3>1 DEF OldOK
  <2> QED
    BY <2>4, <2>5
<1>12. ASSUME NEW u \in Thread PROVE ThreadOK(u)'
  <2>1. CASE u = t
    BY <1>1, <1>2, <1>3, <1>7, <2>1
       DEF TypeOK, ThreadOK, AcquireOK, AnchorOK, PushOK, PopOK, Protected,
           PushAnchorPC, PopAnchorPC, NextPC, nextg, anchor
  <2>2. CASE u # t
    <3>1. ThreadOK(u)
      BY DEF IInv
    <3>2. \A s \in {"anchor", "next"} : Protected(u, s) => Protected(u, s)'
      BY <1>2 DEF Protected
    <3>3. pc'[u] = pc[u]
      BY <1>1, <1>2, <2>2 DEF TypeOK
    <3>4. pc[u] \in PushAnchorPC \union PopAnchorPC =>
            /\ anchor(u) \in Node /\ anchor(u) # n
            /\ next[anchor(u)] # Null => next'[anchor(u)] = next[anchor(u)]
            /\ next'[anchor(u)] = Null => InList(anchor(u))'
      <4> SUFFICES ASSUME pc[u] \in PushAnchorPC \union PopAnchorPC
                   PROVE  /\ anchor(u) \in Node /\ anchor(u) # n
                          /\ next[anchor(u)] # Null => next'[anchor(u)] = next[anchor(u)]
                          /\ next'[anchor(u)] = Null => InList(anchor(u))'
        OBVIOUS
      <4>1. anchor(u) \in Node /\ anchor(u)' = anchor(u)
        BY <1>2, AnchorNode DEF anchor
      <4>2. next[anchor(u)] = Null => InList(anchor(u))
        BY <3>1 DEF ThreadOK, AnchorOK
      <4> HIDE DEF a, n
      <4> QED
        BY <1>2, <1>3, <1>6, <1>7, <4>1, <4>2 DEF InList
    <3>5. pc[u] \in PopAnchorPC => \A i \in 2..Len(chain') : chain'[i] # anchor(u)
      BY <1>4, <1>5, <3>1, <3>4 DEF ThreadOK, PopOK
    <3>6. pc[u] = "o_cas" /\ head' = anchor(u) => tail' # anchor(u)
      BY <1>2, <3>1 DEF ThreadOK, PopOK
    <3> QED
      BY <1>2, <3>1, <3>2, <3>3, <3>4, <3>5, <3>6, OtherThread
  <2> QED
    BY <2>1, <2>2
<1> QED
  BY <1>8, <1>9, <1>10, <1>11, <1>12 DEF IInv

\* Dropping the first node of the list.
LEMMA TailFacts ==
  ASSUME NEW s \in Seq(Node), Len(s) >= 1
  PROVE  /\ Tail(s) \in Seq(Node) /\ Len(Tail(s)) = Len(s) - 1
         /\ \A i \in 1..(Len(s) - 1) : Tail(s)[i] = s[i + 1]
OBVIOUS

LEMMA PopCasInv ==
  ASSUME IInv, TypeOK', NEW t \in Thread, PopCas(t)
  PROVE  IInv'
<1> DEFINE h == anchor(t)
           len == Len(chain)
<1>1. TypeOK /\ ThreadOK(t) /\ ListOK
  BY DEF IInv
<1>2. /\ pc[t] = "o_cas" /\ pc' = [pc EXCEPT ![t] = "o_value"]
      /\ head = h /\ head' = nextg(t) /\ old' = [old EXCEPT ![t] = h] /\ chain' = Tail(chain)
      /\ UNCHANGED <<status, slot, pinned, tail, next, val, open, node, cur, res>>
  BY DEF PopCas, Goto, rvars
<1>3. /\ open /\ Null \notin Node /\ h \in Node /\ nextg(t) = next[h] /\ next[h] # Null
      /\ tail # h /\ Protected(t, "next")
  BY <1>1, <1>2, ListFacts, AnchorNode, NullAssumption
     DEF ThreadOK, PopOK, PopAnchorPC, Protected, nextg
<1>4. len \in Nat /\ len >= 2 /\ h = chain[1] /\ chain[2] = next[h]
  BY <1>1, <1>2, <1>3 DEF ListOK, TypeOK
<1>5. /\ chain' \in Seq(Node) /\ Len(chain') = len - 1
      /\ \A i \in 1..(len - 1) : chain'[i] = chain[i + 1]
  BY <1>1, <1>2, <1>4, TailFacts DEF TypeOK
<1>6. \A m \in Node : InList(m)' <=> InList(m) /\ m # h
  <2> SUFFICES ASSUME NEW m \in Node PROVE InList(m)' <=> InList(m) /\ m # h
    OBVIOUS
  <2>1. ASSUME InList(m)' PROVE InList(m) /\ m # h
    <3>1. PICK i \in 1..(len - 1) : chain[i + 1] = m
      BY <1>5, <2>1 DEF InList
    <3>2. i + 1 \in 1..len /\ i + 1 # 1
      BY <1>4
    <3> QED
      BY <1>1, <1>4, <3>1, <3>2 DEF InList, ListOK
  <2>2. ASSUME InList(m), m # h PROVE InList(m)'
    <3>1. PICK i \in 1..len : chain[i] = m
      BY <2>2 DEF InList
    <3>2. i - 1 \in 1..(len - 1) /\ (i - 1) + 1 = i
      BY <1>4, <2>2, <3>1
    <3> QED
      BY <1>5, <3>1, <3>2 DEF InList
  <2> QED
    BY <2>1, <2>2
<1>7. ListOK'
  <2>1. head' = chain'[1]
    BY <1>2, <1>3, <1>4, <1>5
  <2>2. \A i \in 1..(len - 1) : status[chain'[i]] = "live"
    BY <1>1, <1>4, <1>5 DEF ListOK
  <2>3. \A i, j \in 1..(len - 1) : chain'[i] = chain'[j] => i = j
    BY <1>1, <1>4, <1>5 DEF ListOK
  <2>4. \A i \in 1..(len - 2) : next[chain'[i]] = chain'[i + 1]
    BY <1>1, <1>4, <1>5 DEF ListOK
  <2>5. next[chain'[len - 1]] = Null
    BY <1>1, <1>4, <1>5 DEF ListOK
  <2>6. tail = chain'[len - 1] \/ (len - 1 >= 2 /\ tail = chain'[len - 2])
    BY <1>1, <1>3, <1>4, <1>5 DEF ListOK
  <2> QED
    BY <1>2, <1>3, <1>4, <1>5, <2>1, <2>2, <2>3, <2>4, <2>5, <2>6 DEF ListOK
<1>8. RetiredOK'
  BY <1>2 DEF IInv, RetiredOK
<1>9. \A w \in Thread : /\ pc'[w] \in PrivatePC <=> pc[w] \in PrivatePC
                        /\ w # t => pc'[w] = pc[w] /\ old'[w] = old[w]
  BY <1>1, <1>2 DEF TypeOK, PrivatePC, PushPC
<1>10. NoLeak'
  <2>1. old'[t] = h
    BY <1>1, <1>2 DEF TypeOK
  <2>2. \A w \in Thread : old[w] # Null => old'[w] = old[w] \/ w = t
    BY <1>9
  <2>3. old[t] = Null
    BY <1>2 DEF IInv, OldOK, OldPC
  <2> QED
    BY <1>2, <1>3, <1>6, <1>9, <2>1, <2>2, <2>3 DEF IInv, NoLeak, PrivatePC
<1>11. ASSUME NEW u \in Thread PROVE PrivateOK(u)'
  <2>1. PrivateOK(u) /\ node[u] \in Node \union {Null}
    BY <1>1 DEF IInv, TypeOK
  <2> QED
    BY <1>2, <1>6, <1>9, <2>1 DEF PrivateOK
<1>12. ASSUME NEW u \in Thread PROVE OldOK(u)'
  <2>1. \A w \in Thread : /\ old[w] \in Node \union {Null}
                          /\ pc[w] \in OldPC => old[w] # h
    BY <1>1, <1>2, <1>4 DEF IInv, OldOK, TypeOK, InList
  <2>2. pc'[t] \in OldPC /\ pc[t] \notin OldPC /\ old'[t] = h
    BY <1>1, <1>2 DEF TypeOK, OldPC
  <2>3. CASE u = t
    <3>1. status[h] = "live"
      BY <1>1, <1>4 DEF ListOK
    <3>2. \A w \in Thread : pc'[w] \in OldPC /\ old'[w] = h => w = t
      BY <1>9, <2>1
    <3> QED
      BY <1>2, <1>3, <1>6, <2>2, <2>3, <3>1, <3>2 DEF OldOK
  <2>4. CASE u # t
    <3>1. OldOK(u) /\ pc'[u] = pc[u] /\ old'[u] = old[u]
      BY <1>9, <2>4 DEF IInv
    <3>2. CASE pc[u] \notin OldPC
      BY <3>1, <3>2 DEF OldOK
    <3>3. CASE pc[u] \in OldPC
      <4>1. old[u] # h /\ old[u] \in Node /\ ~InList(old[u])
        BY <2>1, <3>1, <3>3 DEF OldOK
      <4>2. \A w \in Thread : pc'[w] \in OldPC /\ old'[w] = old[u] => w = u
        BY <1>9, <2>2, <3>1, <3>3, <4>1 DEF OldOK
      <4> QED
        BY <1>2, <1>6, <3>1, <3>3, <4>1, <4>2 DEF OldOK
    <3> QED
      BY <3>2, <3>3
  <2> QED
    BY <2>3, <2>4
<1>13. ASSUME NEW u \in Thread PROVE ThreadOK(u)'
  <2>1. CASE u = t
    BY <1>1, <1>2, <1>3, <2>1
       DEF TypeOK, ThreadOK, AcquireOK, AnchorOK, PushOK, PopOK, Protected,
           PushAnchorPC, PopAnchorPC, NextPC
  <2>2. CASE u # t
    <3>1. ThreadOK(u)
      BY DEF IInv
    <3>2. \A s \in {"anchor", "next"} : Protected(u, s) => Protected(u, s)'
      BY <1>2 DEF Protected
    <3>3. anchor(u)' = anchor(u)
      BY <1>2 DEF anchor
    <3>4. pc[u] \in PushAnchorPC \union PopAnchorPC /\ next[anchor(u)] = Null => InList(anchor(u))'
      <4> SUFFICES ASSUME pc[u] \in PushAnchorPC \union PopAnchorPC, next[anchor(u)] = Null
                   PROVE  InList(anchor(u))'
        OBVIOUS
      <4>1. InList(anchor(u)) /\ anchor(u) \in Node /\ anchor(u) # h
        BY <1>3, <3>1, AnchorNode DEF ThreadOK, AnchorOK
      <4> HIDE DEF h
      <4> QED
        BY <1>6, <3>3, <4>1 DEF InList
    <3>5. pc[u] \in PopAnchorPC => \A i \in 2..Len(chain') : chain'[i] # anchor(u)
      BY <1>4, <1>5, <3>1 DEF ThreadOK, PopOK
    <3>6. pc[u] = "o_cas" => head' # anchor(u)
      BY <1>2, <1>3, <1>4, <3>1 DEF ThreadOK, PopOK, PopAnchorPC
    <3> QED
      BY <1>2, <1>9, <2>2, <3>1, <3>2, <3>4, <3>5, <3>6, OtherThread
  <2> QED
    BY <2>1, <2>2
<1> QED
  BY <1>7, <1>8, <1>10, <1>11, <1>12, <1>13 DEF IInv

LEMMA PopRetireInv ==
  ASSUME IInv, TypeOK', NEW t \in Thread, PopRetire(t)
  PROVE  IInv'
<1> DEFINE n == old[t]
<1>1. TypeOK /\ ThreadOK(t) /\ ListOK /\ OldOK(t)
  BY DEF IInv
<1>2. /\ pc[t] = "o_retire" /\ pc' = [pc EXCEPT ![t] = "idle"]
      /\ status' = [status EXCEPT ![n] = "retired"] /\ pinned' = pinned \union Holders(n)
      /\ old' = [old EXCEPT ![t] = Null]
      /\ UNCHANGED <<slot, head, tail, next, val, open, node, cur, chain, sawEmpty>>
  BY DEF PopRetire, Retire, Goto, shared
<1>3. n \in Node /\ status[n] = "live" /\ next[n] # Null /\ ~InList(n)
  BY <1>1, <1>2 DEF OldOK, OldPC, TypeOK
<1>4. open
  BY <1>2, ListFacts
<1>5. \A m \in Node : status'[m] = IF m = n THEN "retired" ELSE status[m]
  BY <1>1, <1>2, <1>3 DEF TypeOK, RTypeOK
<1>6. /\ \A w \in Thread : w # t => pc'[w] = pc[w] /\ old'[w] = old[w]
      /\ pc'[t] = "idle" /\ old'[t] = Null
  BY <1>1, <1>2 DEF TypeOK
<1>7. \A m \in Node : InList(m)' <=> InList(m)
  BY <1>2 DEF InList
<1>8. ListOK'
  <2>1. \A i \in 1..Len(chain) : chain[i] \in Node /\ chain[i] # n
    BY <1>1, <1>3 DEF InList, TypeOK
  <2> QED
    BY <1>1, <1>2, <1>4, <1>5, <2>1 DEF ListOK
<1>9. RetiredOK'
  BY <1>2, <1>3, <1>5 DEF IInv, RetiredOK
<1>10. NoLeak'
  BY <1>2, <1>5, <1>6, <1>7 DEF IInv, NoLeak, PushPC
<1>11. ASSUME NEW u \in Thread PROVE PrivateOK(u)'
  <2>1. \A w \in Thread : pc'[w] \in PrivatePC => pc[w] \in PrivatePC
    BY <1>6 DEF PrivatePC, PushPC
  <2>2. PrivateOK(u) /\ node[u] \in Node \union {Null}
    BY <1>1 DEF IInv, TypeOK
  <2> QED
    BY <1>2, <1>3, <1>5, <1>7, <2>1, <2>2 DEF PrivateOK
<1>12. ASSUME NEW u \in Thread PROVE OldOK(u)'
  <2>1. OldOK(u) /\ old[u] \in Node \union {Null}
    BY <1>1 DEF IInv, TypeOK
  <2>2. CASE u = t
    BY <1>6, <2>2 DEF OldOK, OldPC
  <2>3. CASE u # t
    <3>1. pc[u] \in OldPC => old[u] # n
      BY <1>1, <1>2, <2>3 DEF OldOK, OldPC
    <3>2. \A w \in Thread : pc'[w] \in OldPC => w # t
      BY <1>6 DEF OldPC
    <3> QED
      BY <1>2, <1>5, <1>6, <1>7, <2>1, <2>3, <3>1, <3>2 DEF OldOK
  <2> QED
    BY <2>2, <2>3
<1>13. ASSUME NEW u \in Thread PROVE ThreadOK(u)'
  <2>1. CASE u = t
    BY <1>1, <1>2, <1>6, <2>1
       DEF ThreadOK, AcquireOK, AnchorOK, PushOK, PopOK, PushAnchorPC, PopAnchorPC, NextPC, nextg
  <2>2. CASE u # t
    <3>1. ThreadOK(u)
      BY DEF IInv
    <3>2. ASSUME NEW s \in {"anchor", "next"}, Protected(u, s) PROVE Protected(u, s)'
      <4>1. slot[u][s] \in Node \union {Null}
        BY <1>1, SlotAssumption DEF TypeOK, RTypeOK
      <4>2. slot[u][s] = n => <<u, s>> \in Holders(n)
        BY SlotAssumption DEF Holders, Guard
      <4> QED
        BY <1>2, <1>5, <3>2, <4>1, <4>2 DEF Protected
    <3>3. anchor(u)' = anchor(u)
      BY <1>2 DEF anchor
    <3>4. pc[u] \in PushAnchorPC \union PopAnchorPC /\ next[anchor(u)] = Null => InList(anchor(u))'
      BY <1>2, <3>1, <3>3 DEF ThreadOK, AnchorOK, InList
    <3>5. /\ pc[u] \in PopAnchorPC => \A i \in 2..Len(chain) : chain[i] # anchor(u)
          /\ pc[u] = "o_cas" /\ head = anchor(u) => tail # anchor(u)
      BY <3>1 DEF ThreadOK, PopOK
    <3> QED
      BY <1>2, <1>6, <2>2, <3>1, <3>2, <3>4, <3>5, OtherThread
  <2> QED
    BY <2>1, <2>2
<1> QED
  BY <1>8, <1>9, <1>10, <1>11, <1>12, <1>13 DEF IInv

LEMMA ReclaimInv ==
  ASSUME IInv, TypeOK', NEW n \in Node, ReclaimNode(n)
  PROVE  IInv'
<1>1. TypeOK /\ ListOK
  BY DEF IInv
<1>2. /\ status[n] = "retired" /\ Holders(n) \intersect pinned = {}
      /\ status' = [status EXCEPT ![n] = "free"] /\ next' = [next EXCEPT ![n] = Null]
      /\ UNCHANGED <<slot, pinned, head, tail, open, pc, node, cur, old, res, chain, sawEmpty>>
  BY DEF ReclaimNode, Reclaim, locals
<1>3. \A m \in Node : /\ status'[m] = IF m = n THEN "free" ELSE status[m]
                      /\ next'[m] = IF m = n THEN Null ELSE next[m]
  BY <1>1, <1>2 DEF TypeOK, RTypeOK
<1>4. \A i \in 1..Len(chain) : chain[i] \in Node /\ chain[i] # n
  BY <1>1, <1>2 DEF ListOK, TypeOK
<1>5. ListOK'
  BY <1>1, <1>2, <1>3, <1>4 DEF ListOK
<1>6. RetiredOK' /\ NoLeak'
  BY <1>2, <1>3 DEF IInv, RetiredOK, NoLeak, InList
<1>7. ASSUME NEW u \in Thread PROVE PrivateOK(u)' /\ OldOK(u)'
  <2>1. /\ PrivateOK(u) /\ node[u] \in Node \union {Null}
        /\ OldOK(u) /\ old[u] \in Node \union {Null}
    BY <1>1 DEF IInv, TypeOK
  <2>2. PrivateOK(u)'
    BY <1>2, <1>3, <2>1 DEF PrivateOK, InList
  <2>3. OldOK(u)'
    BY <1>2, <1>3, <2>1 DEF OldOK, InList
  <2> QED
    BY <2>2, <2>3
<1>8. ASSUME NEW u \in Thread PROVE ThreadOK(u)'
  <2>1. ThreadOK(u)
    BY DEF IInv
  \* A guard that protects its node pins it: the deleted node is another one.
  <2>2. ASSUME NEW s \in {"anchor", "next"}, Protected(u, s)
        PROVE  slot[u][s] \in Node /\ slot[u][s] # n /\ Protected(u, s)'
    <3>1. slot[u][s] \in Node
      BY <1>1, <2>2, SlotAssumption DEF TypeOK, RTypeOK, Protected
    <3>2. slot[u][s] # n
      <4> SUFFICES ASSUME slot[u][s] = n PROVE FALSE
        OBVIOUS
      <4>1. <<u, s>> \in Holders(n)
        BY SlotAssumption DEF Holders, Guard
      <4>2. <<u, s>> \in pinned
        BY <1>2, <2>2 DEF Protected
      <4> QED
        BY <1>2, <4>1, <4>2
    <3> QED
      BY <1>2, <1>3, <2>2, <3>1, <3>2 DEF Protected
  <2>3. anchor(u)' = anchor(u)
    BY <1>2 DEF anchor
  <2>4. pc[u] \in PushAnchorPC \union PopAnchorPC =>
          /\ next'[anchor(u)] = next[anchor(u)]
          /\ next'[anchor(u)] = Null => InList(anchor(u))'
    <3> SUFFICES ASSUME pc[u] \in PushAnchorPC \union PopAnchorPC
                 PROVE  /\ next'[anchor(u)] = next[anchor(u)]
                        /\ next'[anchor(u)] = Null => InList(anchor(u))'
      OBVIOUS
    <3>1. anchor(u) \in Node /\ anchor(u) # n
      BY <2>1, <2>2 DEF ThreadOK, AnchorOK, anchor
    <3>2. next[anchor(u)] = Null => InList(anchor(u))
      BY <2>1 DEF ThreadOK, AnchorOK
    <3> QED
      BY <1>2, <1>3, <2>3, <3>1, <3>2 DEF InList
  <2>5. /\ pc[u] \in PopAnchorPC => \A i \in 2..Len(chain) : chain[i] # anchor(u)
        /\ pc[u] = "o_cas" /\ head = anchor(u) => tail # anchor(u)
    BY <2>1 DEF ThreadOK, PopOK
  <2> QED
    BY <1>2, <2>1, <2>2, <2>4, <2>5, OtherThread
<1> QED
  BY <1>5, <1>6, <1>7, <1>8 DEF IInv

\* In the destructor no thread is inside an operation.
LEMMA IdleThread ==
  ASSUME NEW u \in Thread, (pc[u] = "idle")', nextg(u)' = Null, old'[u] = Null
  PROVE  PrivateOK(u)' /\ OldOK(u)' /\ ThreadOK(u)'
BY DEF PrivateOK, OldOK, ThreadOK, AcquireOK, AnchorOK, PushOK, PopOK, PrivatePC, PushPC, OldPC,
       PushAnchorPC, PopAnchorPC, NextPC

LEMMA DestroyInv ==
  ASSUME IInv, TypeOK', Destroy
  PROVE  IInv'
<1>1. ListOK' /\ RetiredOK' /\ NoLeak'
  BY DEF IInv, Destroy, ListOK, RetiredOK, NoLeak, InList, rvars, locals
<1>2. ASSUME NEW u \in Thread PROVE PrivateOK(u)' /\ OldOK(u)' /\ ThreadOK(u)'
  <2>1. pc[u] = "idle" /\ nextg(u) = Null /\ old[u] = Null
    BY DEF IInv, Destroy, ThreadOK, AcquireOK, OldOK, NextPC, OldPC
  <2>2. (pc[u] = "idle")' /\ nextg(u)' = Null /\ old'[u] = Null
    BY <2>1 DEF Destroy, rvars, locals, nextg
  <2> QED
    BY <2>2, IdleThread
<1> QED
  BY <1>1, <1>2 DEF IInv

LEMMA DestroyNodeInv ==
  ASSUME IInv, TypeOK', DestroyNode
  PROVE  IInv'
<1> DEFINE len == Len(chain)
<1>1. TypeOK /\ ListOK
  BY DEF IInv
<1>2. /\ ~open /\ head # Null /\ status' = [status EXCEPT ![head] = "free"]
      /\ head' = next[head] /\ chain' = Tail(chain)
      /\ UNCHANGED <<slot, pinned, tail, next, val, open, pc, node, cur, old, res, sawEmpty>>
  BY DEF DestroyNode, locals
<1>3. len \in Nat /\ len >= 1 /\ head = chain[1] /\ head \in Node
  BY <1>1, <1>2 DEF ListOK, TypeOK
<1>4. /\ Len(chain') = len - 1
      /\ \A i \in 1..(len - 1) : chain'[i] = chain[i + 1]
  BY <1>1, <1>2, <1>3, TailFacts DEF TypeOK
<1>5. \A m \in Node : status'[m] = IF m = head THEN "free" ELSE status[m]
  BY <1>1, <1>2, <1>3 DEF TypeOK, RTypeOK
<1>6. \A u \in Thread : pc[u] = "idle" /\ nextg(u) = Null /\ old[u] = Null
  BY <1>1, <1>2 DEF IInv, ListOK, ThreadOK, AcquireOK, OldOK, NextPC, OldPC
<1>7. ListOK'
  <2>1. \A i \in 1..(len - 1) : chain[i + 1] \in Node /\ chain[i + 1] # head
    BY <1>1, <1>3 DEF ListOK, TypeOK
  <2>2. head' = IF len - 1 = 0 THEN Null ELSE chain'[1]
    <3>1. CASE len = 1
      BY <1>1, <1>2, <1>3, <3>1 DEF ListOK
    <3>2. CASE len > 1
      <4>1. next[chain[1]] = chain[1 + 1] /\ chain'[1] = chain[1 + 1]
        BY <1>1, <1>3, <1>4, <3>2 DEF ListOK
      <4> QED
        BY <1>2, <1>3, <3>2, <4>1
    <3> QED
      BY <1>3, <3>1, <3>2
  <2>3. \A i \in 1..(len - 1) : status'[chain'[i]] = "live"
    BY <1>1, <1>3, <1>4, <1>5, <2>1 DEF ListOK
  <2>4. \A i, j \in 1..(len - 1) : chain'[i] = chain'[j] => i = j
    BY <1>1, <1>3, <1>4 DEF ListOK
  <2>5. /\ \A i \in 1..(len - 2) : next[chain'[i]] = chain'[i + 1]
        /\ len - 1 >= 1 => next[chain'[len - 1]] = Null
    BY <1>1, <1>3, <1>4 DEF ListOK
  <2>6. Len(chain') \in Nat /\ ~open' /\ \A u \in Thread : pc'[u] = "idle"
    BY <1>2, <1>3, <1>4, <1>6
  <2>7. next' = next
    BY <1>2
  <2>8. /\ head' = IF Len(chain') = 0 THEN Null ELSE chain'[1]
        /\ \A i \in 1..Len(chain') : status'[chain'[i]] = "live"
        /\ \A i, j \in 1..Len(chain') : chain'[i] = chain'[j] => i = j
    BY <1>4, <2>2, <2>3, <2>4
  <2>9. Len(chain') - 1 = len - 2
    BY <1>3, <1>4
  <2>10. /\ \A i \in 1..(Len(chain') - 1) : next'[chain'[i]] = chain'[i + 1]
         /\ Len(chain') >= 1 => next'[chain'[Len(chain')]] = Null
    BY <1>4, <2>5, <2>7, <2>9
  <2> QED
    BY <2>6, <2>8, <2>10 DEF ListOK
<1>8. RetiredOK'
  BY <1>2, <1>5 DEF IInv, RetiredOK
<1>9. NoLeak'
  <2>1. ASSUME NEW m \in Node, status'[m] = "live" PROVE InList(m)'
    <3>1. status[m] = "live" /\ m # head
      BY <1>5, <2>1
    <3>2. InList(m)
      BY <1>6, <3>1, NullAssumption DEF IInv, NoLeak, PushPC
    <3>3. PICK i \in 1..len : chain[i] = m
      BY <3>2 DEF InList
    <3>4. i - 1 \in 1..(len - 1) /\ (i - 1) + 1 = i
      BY <1>3, <3>1, <3>3
    <3> QED
      BY <1>4, <3>3, <3>4 DEF InList
  <2> QED
    BY <2>1 DEF NoLeak
<1>10. ASSUME NEW u \in Thread PROVE PrivateOK(u)' /\ OldOK(u)' /\ ThreadOK(u)'
  BY <1>2, <1>6, IdleThread DEF nextg
<1> QED
  BY <1>7, <1>8, <1>9, <1>10 DEF IInv

LEMMA StutterInv ==
  ASSUME IInv, TypeOK', UNCHANGED vars
  PROVE  IInv'
<1> USE DEF IInv, vars, rvars, shared, locals
<1>1. ListOK' /\ RetiredOK' /\ NoLeak'
  BY DEF ListOK, RetiredOK, NoLeak, InList
<1>2. ASSUME NEW u \in Thread PROVE PrivateOK(u)' /\ OldOK(u)' /\ ThreadOK(u)'
  BY DEF PrivateOK, OldOK, ThreadOK, AcquireOK, AnchorOK, PushOK, PopOK, Protected, InList,
         anchor, nextg
<1> QED
  BY <1>1, <1>2

-----------------------------------------------------------------------------
(* The theorems                                                            *)

LEMMA InitInv == Init => IInv
<1> SUFFICES ASSUME Init PROVE IInv
  OBVIOUS
<1>1. TypeOK
  BY TypeInit
<1>2. Len(chain) = 1 /\ chain[1] = head /\ head \in Node
  BY DEF Init
<1>3. ListOK /\ RetiredOK /\ NoLeak
  BY <1>2 DEF Init, ListOK, RetiredOK, NoLeak, InList
<1>4. ASSUME NEW t \in Thread PROVE PrivateOK(t) /\ OldOK(t) /\ ThreadOK(t)
  BY SlotAssumption DEF Init, PrivateOK, OldOK, ThreadOK, AcquireOK, AnchorOK, PushOK, PopOK,
     PrivatePC, PushPC, OldPC, PushAnchorPC, PopAnchorPC, NextPC, nextg
<1> QED
  BY <1>1, <1>3, <1>4 DEF IInv

LEMMA NextInv == IInv /\ [Next]_vars => IInv'
<1> SUFFICES ASSUME IInv, [Next]_vars PROVE IInv'
  OBVIOUS
<1>1. TypeOK'
  BY TypeNext
<1>2. ASSUME NEW t \in Thread, PushStep(t) PROVE IInv'
  BY <1>1, <1>2, PushLoadInv, PushPublishInv, PushValidateInv, PushNextInv, PushHelpInv,
     PushHelpFailsInv, PushLinkInv, PushLinkFailsInv, PushSwingInv DEF PushStep
<1>3. ASSUME NEW t \in Thread, PopStep(t) PROVE IInv'
  BY <1>1, <1>3, PopLoadInv, PopPublishInv, PopValidateInv, PopNextLoadInv, PopNextPublishInv,
     PopNextValidateInv, PopStaleInv, PopEmptyInv, PopCheckInv, PopTailInv, PopHelpInv,
     PopHelpFailsInv, PopCasInv, PopCasFailsInv, PopValueInv, PopRetireInv, PopReturnFalseInv
     DEF PopStep
<1>4. ASSUME NEW t \in Thread, TryPop(t) PROVE IInv'
  BY <1>1, <1>4, TryPopInv
<1>5. ASSUME NEW t \in Thread, NEW n \in Node, NEW v \in Value, Push(t, n, v) PROVE IInv'
  BY <1>1, <1>5, PushInv
<1>6. ASSUME NEW n \in Node, ReclaimNode(n) PROVE IInv'
  BY <1>1, <1>6, ReclaimInv
<1>7. CASE Destroy
  BY <1>1, <1>7, DestroyInv
<1>8. CASE DestroyNode
  BY <1>1, <1>8, DestroyNodeInv
<1>9. CASE UNCHANGED vars
  BY <1>1, <1>9, StutterInv
<1> QED
  BY <1>2, <1>3, <1>4, <1>5, <1>6, <1>7, <1>8, <1>9 DEF Next

\* The inductive invariant holds in every behaviour of the queue.
THEOREM Invariance == Spec => []IInv
BY InitInv, NextInv, PTL DEF Spec

\* The variables of the queue keep their types, whatever the threads do.
THEOREM TypeCorrect == Spec => []TypeOK
<1>1. IInv => TypeOK
  BY DEF IInv
<1> QED
  BY <1>1, Invariance, PTL

\* push and try_pop never dereference a deleted node and never retire a node
\* twice, although addresses are reused (michael_scott_queue.hpp, push, try_pop).
THEOREM NoUseAfterFree == Spec => []MemorySafe
<1>1. IInv => MemorySafe
  BY DEF IInv, MemorySafe, ThreadOK, AnchorOK, PopOK, OldOK, PushAnchorPC, PopAnchorPC, OldPC
<1> QED
  BY <1>1, Invariance, PTL

\* The list stays a list: _next leads from _head to the last node, and _tail
\* is that node or its predecessor.
THEOREM ListKeepsShape == Spec => []ListShape
<1>1. IInv => ListShape
  BY DEF IInv, ListOK, ListShape, TypeOK
<1> QED
  BY <1>1, Invariance, PTL

\* No node is lost by a push or a try_pop.
THEOREM NothingLeaks == Spec => []NoLeak
<1>1. IInv => NoLeak
  BY DEF IInv
<1> QED
  BY <1>1, Invariance, PTL

-----------------------------------------------------------------------------
(* The invariant of the refinement                                         *)

\* A try_pop in progress has been recorded if the queue is empty, and also if
\* it has read that the dummy has no successor, whatever was pushed since.
SeenOK(t) ==
    /\ pc[t] \in PopPC /\ Len(chain) = 1 => t \in sawEmpty
    /\ pc[t] = "o_check" /\ nextg(t) = Null => t \in sawEmpty

\* The node whose value a try_pop takes holds no value of the queue, and it is
\* not the node of a push: those are unlinked and have no successor.
TakenOK(t) ==
    pc[t] = "o_value" =>
       /\ \A i \in 2..Len(chain) : chain[i] # nextg(t)
       /\ next[nextg(t)] = Null => InList(nextg(t))
       /\ \A u \in Thread : pc[u] = "o_value" /\ nextg(u) = nextg(t) => u = t

QInv == IInv /\ \A t \in Thread : SeenOK(t) /\ TakenOK(t)

-----------------------------------------------------------------------------
(* What the steps of a thread change                                       *)

\* The steps of an operation that has not taken effect yet, and does not now.
Quiet(t) == \/ PushLoad(t) \/ PushPublish(t) \/ PushValidate(t) \/ PushNext(t)
            \/ PushHelp(t) \/ PushHelpFails(t) \/ PushLinkFails(t)
            \/ PopLoad(t) \/ PopPublish(t) \/ PopValidate(t)
            \/ PopNextLoad(t) \/ PopNextPublish(t) \/ PopNextValidate(t)
            \/ PopStale(t) \/ PopCheck(t) \/ PopTail(t) \/ PopHelp(t)
            \/ PopHelpFails(t) \/ PopCasFails(t)

\* A step of t that leaves the list and the other threads alone.
Keeps(t) == /\ UNCHANGED <<next, open, chain>>
            /\ \A u \in Thread \ {t} : /\ pc'[u] = pc[u] /\ slot'[u] = slot[u]
                                       /\ node'[u] = node[u] /\ res'[u] = res[u]

\* Where the read of a successor leads: to nothing only if there was none.
ReadsNull(t) == /\ pc[t] \in {"o_nload", "o_nvalidate"}
                /\ next[anchor(t)] = Null

LEMMA QuietPush ==
    ASSUME IInv, NEW t \in Thread,
           \/ PushLoad(t) \/ PushPublish(t) \/ PushValidate(t) \/ PushNext(t)
           \/ PushHelp(t) \/ PushHelpFails(t) \/ PushLinkFails(t)
    PROVE  /\ Keeps(t) /\ UNCHANGED <<val, sawEmpty>> /\ node'[t] = node[t]
           /\ pc[t] \in PrivatePC /\ pc'[t] \in PrivatePC /\ pc' = [pc EXCEPT ![t] = pc'[t]]
<1> USE DEF PushLoad, PushPublish, PushValidate, PushNext, PushHelp, PushHelpFails, PushLinkFails,
            AcquireLoad, AcquirePublish, AcquireValidate, Goto, rvars, shared, locals
<1>1. TypeOK
  BY DEF IInv
<1>2. \E x \in PrivatePC : pc' = [pc EXCEPT ![t] = x]
  BY DEF PrivatePC, PushPC
<1>3. pc[t] \in PrivatePC
  BY DEF PrivatePC, PushPC
<1>4. UNCHANGED <<next, val, open, chain, sawEmpty, node, res>>
  OBVIOUS
<1>5. \A u \in Thread \ {t} : slot'[u] = slot[u]
  BY <1>1, SlotAssumption DEF Publish, TypeOK, RTypeOK
<1>6. /\ pc'[t] \in PrivatePC /\ pc' = [pc EXCEPT ![t] = pc'[t]]
      /\ \A u \in Thread \ {t} : pc'[u] = pc[u]
  BY <1>1, <1>2 DEF TypeOK
<1> QED
  BY <1>3, <1>4, <1>5, <1>6 DEF Keeps

LEMMA QuietPop ==
    ASSUME IInv, NEW t \in Thread,
           \/ PopLoad(t) \/ PopPublish(t) \/ PopValidate(t)
           \/ PopNextLoad(t) \/ PopNextPublish(t) \/ PopNextValidate(t)
           \/ PopStale(t) \/ PopCheck(t) \/ PopTail(t) \/ PopHelp(t)
           \/ PopHelpFails(t) \/ PopCasFails(t)
    PROVE  /\ Keeps(t) /\ UNCHANGED <<val, sawEmpty>>
           /\ pc[t] \in PopPC /\ pc'[t] \in PopPC /\ pc' = [pc EXCEPT ![t] = pc'[t]]
           /\ pc'[t] = "o_check" /\ nextg(t)' = Null => ReadsNull(t)
<1> USE DEF PopLoad, PopPublish, PopValidate, PopNextLoad, PopNextPublish, PopNextValidate,
            PopStale, PopCheck, PopTail, PopHelp, PopHelpFails, PopCasFails, Retry,
            AcquireLoad, AcquirePublish, AcquireValidate, Goto, rvars, shared, locals
<1>1. TypeOK
  BY DEF IInv
<1>2. pc[t] \in PopPC /\ \E x \in PopPC : pc' = [pc EXCEPT ![t] = x]
  BY DEF PopPC
<1>3. UNCHANGED <<next, val, open, chain, sawEmpty, node, res>>
  OBVIOUS
<1>4. \A u \in Thread \ {t} : slot'[u] = slot[u]
  BY <1>1, SlotAssumption DEF Publish, Release, TypeOK, RTypeOK
<1>5. /\ pc'[t] \in PopPC /\ pc' = [pc EXCEPT ![t] = pc'[t]]
      /\ \A u \in Thread \ {t} : pc'[u] = pc[u]
  BY <1>1, <1>2 DEF TypeOK
<1>6. ASSUME pc'[t] = "o_check", nextg(t)' = Null PROVE ReadsNull(t)
  <2>1. \/ PopNextLoad(t) /\ Publish(t, "next", next[anchor(t)])
        \/ PopNextValidate(t) /\ Publish(t, "next", next[anchor(t)])
    BY <1>1, <1>6 DEF TypeOK
  <2>2. slot'[t]["next"] = next[anchor(t)]
    BY <2>1, <1>1, SlotAssumption DEF Publish, TypeOK, RTypeOK
  <2> QED
    BY <2>1, <2>2, <1>6 DEF ReadsNull, nextg
<1> QED
  BY <1>2, <1>3, <1>4, <1>5, <1>6 DEF Keeps

-----------------------------------------------------------------------------
(* QInv is inductive                                                       *)

\* Only the dummy can be the anchor of a try_pop and have no successor.
LEMMA NullIsEmpty ==
    ASSUME IInv, NEW t \in Thread, ReadsNull(t)
    PROVE  pc[t] \in PopPC /\ Len(chain) = 1
<1>1. TypeOK /\ ListOK /\ ThreadOK(t)
  BY DEF IInv
<1>2. pc[t] \in PopPC /\ pc[t] \in PopAnchorPC /\ pc[t] # "idle" /\ next[anchor(t)] = Null
  BY DEF ReadsNull, PopPC, PopAnchorPC
<1>3. InList(anchor(t)) /\ \A i \in 2..Len(chain) : chain[i] # anchor(t)
  BY <1>1, <1>2 DEF ThreadOK, AnchorOK, PopOK
<1>4. /\ open /\ Null \notin Node /\ Len(chain) \in Nat /\ Len(chain) >= 1
      /\ \A i \in 1..Len(chain) : chain[i] \in Node
  BY <1>1, <1>2, ListFacts DEF ListOK, TypeOK
<1>5. anchor(t) = chain[1]
  BY <1>3, <1>4 DEF InList
<1>6. Len(chain) >= 2 => next[chain[1]] = chain[2] /\ chain[2] \in Node
  BY <1>1, <1>4 DEF ListOK
<1>7. Len(chain) >= 2 => FALSE
  BY <1>2, <1>4, <1>5, <1>6
<1>8. \A k \in Nat : k >= 1 /\ k # 1 => k >= 2
  OBVIOUS
<1>9. Len(chain) \in Nat /\ Len(chain) >= 1
  BY <1>4
<1> QED
  BY <1>2, <1>7, <1>8, <1>9

\* A step that takes no value and changes no list: what is known about the
\* values taken stays, and about the other threads that wait for a value, too.
LEMMA KeepsTaken ==
    ASSUME QInv, NEW t \in Thread, Keeps(t), pc'[t] # "o_value", NEW u \in Thread
    PROVE  TakenOK(u)'
<1>1. ASSUME NEW w \in Thread, pc'[w] = "o_value"
      PROVE  pc[w] = "o_value" /\ nextg(w)' = nextg(w)
  BY <1>1 DEF Keeps, nextg
<1>2. TakenOK(u)
  BY DEF QInv
<1> QED
  BY <1>1, <1>2 DEF TakenOK, Keeps, InList

LEMMA KeepsSeen ==
    ASSUME QInv, NEW t \in Thread, Keeps(t), sawEmpty \ {t} \subseteq sawEmpty',
           NEW u \in Thread \ {t}
    PROVE  SeenOK(u)'
BY DEF QInv, SeenOK, Keeps, nextg

LEMMA QuietQInv ==
    ASSUME QInv, NEW t \in Thread, Quiet(t), NEW u \in Thread
    PROVE  SeenOK(u)' /\ TakenOK(u)'
<1>1. IInv /\ SeenOK(t)
  BY DEF QInv
<1>2. /\ Keeps(t) /\ UNCHANGED <<val, sawEmpty>>
      /\ \/ pc'[t] \in PrivatePC
         \/ pc[t] \in PopPC /\ pc'[t] \in PopPC
      /\ pc'[t] = "o_check" /\ nextg(t)' = Null => ReadsNull(t)
  BY <1>1, QuietPush, QuietPop DEF Quiet, PrivatePC, PushPC
<1>3. pc'[t] # "o_value"
  BY <1>2 DEF PrivatePC, PushPC, PopPC
<1>4. SeenOK(t)'
  BY <1>1, <1>2, NullIsEmpty DEF SeenOK, Keeps, PrivatePC, PushPC, PopPC
<1> QED
  BY <1>2, <1>3, <1>4, KeepsTaken, KeepsSeen

\* The calls and returns, and the steps between the effect and the return.
LEMMA OutsideKeeps ==
    ASSUME IInv, NEW t \in Thread,
           \/ PushSwing(t) \/ TryPop(t) \/ PopEmpty(t) \/ PopValue(t)
           \/ PopRetire(t) \/ PopReturnFalse(t)
    PROVE  /\ Keeps(t) /\ sawEmpty \ {t} \subseteq sawEmpty'
           /\ pc'[t] \in {"idle", "o_load", "o_empty", "o_retire"}
           /\ pc' = [pc EXCEPT ![t] = pc'[t]]
           /\ ~TryPop(t) => pc'[t] # "o_load"
<1> USE DEF PushSwing, TryPop, PopEmpty, PopValue, PopRetire, PopReturnFalse, Goto,
            rvars, shared, locals
<1>1. TypeOK
  BY DEF IInv
<1>2. \E x \in {"idle", "o_load", "o_empty", "o_retire"} :
         pc' = [pc EXCEPT ![t] = x] /\ (~TryPop(t) => x # "o_load")
  OBVIOUS
<1>3. /\ pc'[t] \in {"idle", "o_load", "o_empty", "o_retire"}
      /\ ~TryPop(t) => pc'[t] # "o_load"
      /\ pc' = [pc EXCEPT ![t] = pc'[t]]
      /\ \A w \in Thread \ {t} : pc'[w] = pc[w]
  BY <1>1, <1>2 DEF TypeOK
<1>4. \A w \in Thread \ {t} : slot'[w] = slot[w] /\ node'[w] = node[w] /\ res'[w] = res[w]
  BY <1>1 DEF TypeOK, RTypeOK, Release
<1>5. UNCHANGED <<next, open, chain>> /\ sawEmpty \ {t} \subseteq sawEmpty'
  OBVIOUS
<1> QED
  BY <1>3, <1>4, <1>5 DEF Keeps

LEMMA OutsideQInv ==
    ASSUME QInv, NEW t \in Thread,
           \/ PushSwing(t) \/ TryPop(t) \/ PopEmpty(t) \/ PopValue(t)
           \/ PopRetire(t) \/ PopReturnFalse(t),
           NEW u \in Thread
    PROVE  SeenOK(u)' /\ TakenOK(u)'
<1>1. /\ Keeps(t) /\ sawEmpty \ {t} \subseteq sawEmpty'
      /\ pc'[t] \in {"idle", "o_load", "o_empty", "o_retire"}
      /\ ~TryPop(t) => pc'[t] # "o_load"
  BY OutsideKeeps DEF QInv
<1>2. SeenOK(t)'
  <2>1. CASE TryPop(t)
    <3>1. /\ pc'[t] = "o_load" /\ chain' = chain
          /\ sawEmpty' = IF Len(chain) = 1 THEN sawEmpty \union {t} ELSE sawEmpty
      BY <2>1 DEF TryPop, Goto, QInv, IInv, TypeOK
    <3> QED
      BY <3>1 DEF SeenOK
  <2>2. CASE ~TryPop(t)
    BY <2>2, <1>1 DEF SeenOK, PopPC
  <2> QED
    BY <2>1, <2>2
<1> QED
  BY <1>1, <1>2, KeepsTaken, KeepsSeen

\* A node that is taken is protected: it is not the one push gets for its value.
LEMMA PushQInv ==
    ASSUME QInv, NEW t \in Thread, NEW n \in Node, NEW v \in Value, Push(t, n, v),
           NEW u \in Thread
    PROVE  SeenOK(u)' /\ TakenOK(u)'
<1>1. IInv /\ TypeOK /\ SeenOK(u) /\ TakenOK(u)
  BY DEF QInv, IInv
<1>2. /\ status[n] = "free" /\ pc'[t] = "p_load" /\ \A w \in Thread \ {t} : pc'[w] = pc[w]
      /\ \A m \in Node \ {n} : next'[m] = next[m]
      /\ UNCHANGED <<slot, chain, sawEmpty>>
  BY <1>1 DEF Push, Allocate, Goto, TypeOK, RTypeOK
<1>3. \A w \in Thread : /\ pc'[w] \in PopPC \union {"o_value"} => pc'[w] = pc[w]
                        /\ nextg(w)' = nextg(w)
  BY <1>2 DEF PopPC, nextg
<1>4. pc[u] = "o_value" => nextg(u) \in Node /\ nextg(u) # n
  <2> SUFFICES ASSUME pc[u] = "o_value" PROVE nextg(u) \in Node /\ nextg(u) # n
    OBVIOUS
  <2>1. nextg(u) \in Node /\ Protected(u, "next")
    BY <1>1, NextNode DEF IInv, ThreadOK, PopOK
  <2> QED
    BY <2>1, <1>2 DEF Protected, nextg
<1>5. SeenOK(u)'
  BY <1>1, <1>2, <1>3 DEF SeenOK, PopPC
<1>6. TakenOK(u)'
  BY <1>1, <1>2, <1>3, <1>4 DEF TakenOK, InList
<1> QED
  BY <1>5, <1>6

LEMMA PushLinkQInv ==
    ASSUME QInv, NEW t \in Thread, PushLink(t), NEW u \in Thread
    PROVE  SeenOK(u)' /\ TakenOK(u)'
<1> DEFINE a == anchor(t)
           n == node[t]
           len == Len(chain)
<1>1. IInv /\ TypeOK /\ ListOK /\ PrivateOK(t) /\ SeenOK(u) /\ TakenOK(u)
  BY DEF QInv, IInv
<1>2. /\ pc[t] = "p_link" /\ pc'[t] = "p_swing" /\ \A w \in Thread \ {t} : pc'[w] = pc[w]
      /\ next' = [next EXCEPT ![a] = n] /\ chain' = Append(chain, n)
      /\ open /\ UNCHANGED <<slot, sawEmpty>>
  BY <1>1, ListFacts DEF PushLink, Goto, rvars, locals, TypeOK
<1>3. /\ Null \notin Node /\ a \in Node /\ n \in Node /\ next[n] = Null /\ ~InList(n)
  BY <1>1, <1>2, AnchorNode, NullAssumption DEF PrivateOK, PrivatePC, PushPC, PushAnchorPC, TypeOK
<1>4. len \in Nat /\ len >= 1 /\ Len(chain') = len + 1 /\ chain'[len + 1] = n
      /\ \A i \in 1..len : chain'[i] = chain[i]
  BY <1>1, <1>2, <1>3 DEF TypeOK, ListOK
<1>5. /\ \A m \in Node : m # a => next'[m] = next[m]
      /\ next'[a] = n
  BY <1>1, <1>2, <1>3 DEF TypeOK
<1>6. \A w \in Thread : /\ pc'[w] \in PopPC \union {"o_value"} => pc'[w] = pc[w]
                        /\ nextg(w)' = nextg(w)
  BY <1>2 DEF PopPC, nextg
<1>7. SeenOK(u)'
  BY <1>1, <1>2, <1>4, <1>6 DEF SeenOK, PopPC
<1>8. TakenOK(u)'
  <2> SUFFICES ASSUME pc[u] = "o_value"
               PROVE  /\ \A i \in 2..(len + 1) : chain'[i] # nextg(u)
                      /\ next'[nextg(u)] = Null => InList(nextg(u))'
    BY <1>1, <1>2, <1>4, <1>6 DEF TakenOK, InList
  <2>1. /\ nextg(u) \in Node /\ nextg(u) # n
        /\ \A i \in 2..len : chain[i] # nextg(u)
        /\ next[nextg(u)] = Null => InList(nextg(u))
    BY <1>1, <1>3, NextNode DEF TakenOK, InList
  <2>2. \A i \in 2..(len + 1) : chain'[i] # nextg(u)
    BY <2>1, <1>4
  <2>3. ASSUME next'[nextg(u)] = Null PROVE InList(nextg(u))'
    <3>1. InList(nextg(u))
      BY <2>1, <2>3, <1>3, <1>5
    <3>2. PICK i \in 1..len : chain[i] = nextg(u)
      BY <3>1 DEF InList
    <3>3. i \in 1..Len(chain') /\ chain'[i] = nextg(u)'
      BY <3>2, <1>4, <1>6
    <3> QED
      BY <3>3 DEF InList
  <2> QED
    BY <2>2, <2>3
<1> QED
  BY <1>7, <1>8

\* What the CAS of try_pop finds: the anchor is the dummy, and the value it is
\* going to take is in the second node.
LEMMA PopCasFacts ==
    ASSUME IInv, NEW t \in Thread, PopCas(t)
    PROVE  /\ open /\ head = chain[1] /\ anchor(t) = chain[1] /\ nextg(t) = chain[2]
           /\ Len(chain) \in Nat /\ Len(chain) >= 2
           /\ next[chain[1]] # Null
           /\ chain' = Tail(chain) /\ Len(chain') = Len(chain) - 1
           /\ \A i \in 1..(Len(chain) - 1) : chain'[i] = chain[i + 1]
<1>1. TypeOK /\ ThreadOK(t) /\ ListOK
  BY DEF IInv
<1>2. /\ pc[t] = "o_cas" /\ head = anchor(t) /\ chain' = Tail(chain)
  BY DEF PopCas, Goto
<1>3. open /\ Null \notin Node /\ nextg(t) \in Node /\ nextg(t) = next[anchor(t)]
  BY <1>1, <1>2, ListFacts, NextNode, NullAssumption DEF ThreadOK, PopOK
<1>4. /\ Len(chain) \in Nat /\ Len(chain) >= 2
      /\ head = chain[1] /\ chain[2] = next[chain[1]]
  BY <1>1, <1>2, <1>3 DEF ListOK, TypeOK
<1>5. /\ Len(chain') = Len(chain) - 1
      /\ \A i \in 1..(Len(chain) - 1) : chain'[i] = chain[i + 1]
  BY <1>1, <1>2, <1>4, TailFacts DEF TypeOK
<1> QED
  BY <1>2, <1>3, <1>4, <1>5

LEMMA PopCasQInv ==
    ASSUME QInv, NEW t \in Thread, PopCas(t), NEW u \in Thread
    PROVE  SeenOK(u)' /\ TakenOK(u)'
<1> DEFINE len == Len(chain)
<1>1. IInv /\ TypeOK /\ ListOK /\ \A w \in Thread : SeenOK(w) /\ TakenOK(w)
  BY DEF QInv, IInv
<1>2. /\ pc[t] = "o_cas" /\ pc'[t] = "o_value" /\ \A w \in Thread \ {t} : pc'[w] = pc[w]
      /\ UNCHANGED <<slot, next>>
      /\ sawEmpty' = (IF len = 2 THEN sawEmpty \union {w \in Thread : pc[w] \in PopPC}
                      ELSE sawEmpty) \ {t}
  BY <1>1 DEF PopCas, Goto, TypeOK, rvars
<1>3. /\ anchor(t) = chain[1] /\ nextg(t) = chain[2] /\ len \in Nat /\ len >= 2
      /\ next[chain[1]] # Null /\ Len(chain') = len - 1
      /\ \A i \in 1..(len - 1) : chain'[i] = chain[i + 1]
  BY <1>1, PopCasFacts
<1>4. \A w \in Thread : nextg(w)' = nextg(w)
  BY <1>2 DEF nextg
<1>5. SeenOK(u)'
  <2>1. CASE u = t
    BY <2>1, <1>2 DEF SeenOK, PopPC
  <2>2. CASE u # t
    BY <2>2, <1>1, <1>2, <1>3, <1>4 DEF SeenOK
  <2> QED
    BY <2>1, <2>2
<1>6. \A w \in Thread : pc[w] = "o_value" => nextg(w) # chain[2]
  BY <1>1, <1>3 DEF TakenOK
<1>7. \A i \in 2..(len - 1) : chain'[i] # chain[2]
  BY <1>1, <1>3 DEF ListOK
<1>8. TakenOK(u)'
  <2>1. CASE u = t
    <3>1. InList(nextg(t))'
      BY <1>3, <1>4 DEF InList
    <3> QED
      BY <2>1, <3>1, <1>2, <1>3, <1>4, <1>6, <1>7 DEF TakenOK
  <2>2. CASE u # t
    <3> SUFFICES ASSUME pc[u] = "o_value" PROVE TakenOK(u)'
      BY <2>2, <1>2 DEF TakenOK
    <3>1. /\ \A i \in 2..len : chain[i] # nextg(u)
          /\ next[nextg(u)] = Null => InList(nextg(u))
          /\ \A w \in Thread : pc[w] = "o_value" /\ nextg(w) = nextg(u) => w = u
      BY <1>1 DEF TakenOK
    <3>2. \A i \in 2..(len - 1) : chain'[i] # nextg(u)
      BY <3>1, <1>3
    <3>3. ASSUME next[nextg(u)] = Null PROVE FALSE
      BY <3>1, <3>3, <1>3 DEF InList
    <3>4. ASSUME NEW w \in Thread, pc'[w] = "o_value", nextg(w) = nextg(u) PROVE w = u
      BY <3>1, <3>4, <1>2, <1>3, <1>6
    <3> QED
      BY <3>2, <3>3, <3>4, <1>2, <1>3, <1>4 DEF TakenOK
  <2> QED
    BY <2>1, <2>2
<1> QED
  BY <1>5, <1>8

\* A node that is taken is not deleted before its value has been moved.
LEMMA ReclaimQInv ==
    ASSUME QInv, NEW n \in Node, ReclaimNode(n), NEW u \in Thread
    PROVE  SeenOK(u)' /\ TakenOK(u)'
<1>1. IInv /\ TypeOK /\ SeenOK(u) /\ TakenOK(u)
  BY DEF QInv, IInv
<1>2. /\ status[n] = "retired" /\ Holders(n) \intersect pinned = {}
      /\ \A m \in Node \ {n} : next'[m] = next[m]
      /\ UNCHANGED <<slot, pc, chain, sawEmpty>>
  BY <1>1 DEF ReclaimNode, Reclaim, TypeOK
<1>3. pc[u] = "o_value" => nextg(u) \in Node /\ nextg(u) # n
  <2> SUFFICES ASSUME pc[u] = "o_value" PROVE nextg(u) \in Node /\ nextg(u) # n
    OBVIOUS
  <2>1. nextg(u) \in Node /\ Protected(u, "next")
    BY <1>1, NextNode DEF IInv, ThreadOK, PopOK
  <2>2. nextg(u) = n => <<u, "next">> \in Holders(n)
    BY SlotAssumption DEF Holders, Guard, nextg
  <2> QED
    BY <2>1, <2>2, <1>2 DEF Protected, nextg
<1>4. nextg(u)' = nextg(u) /\ \A w \in Thread : nextg(w)' = nextg(w)
  BY <1>2 DEF nextg
<1>5. SeenOK(u)'
  BY <1>1, <1>2, <1>4 DEF SeenOK
<1>6. TakenOK(u)'
  BY <1>1, <1>2, <1>3, <1>4 DEF TakenOK, InList
<1> QED
  BY <1>5, <1>6

LEMMA ClosingQInv ==
    ASSUME QInv, Destroy \/ DestroyNode, NEW u \in Thread
    PROVE  SeenOK(u)' /\ TakenOK(u)'
<1>1. pc[u] = "idle" /\ pc' = pc
  BY DEF Destroy, DestroyNode, QInv, IInv, ListOK
<1> QED
  BY <1>1 DEF SeenOK, TakenOK, PopPC

LEMMA StutterQInv ==
    ASSUME QInv, UNCHANGED vars, NEW u \in Thread
    PROVE  SeenOK(u)' /\ TakenOK(u)'
BY DEF QInv, SeenOK, TakenOK, InList, nextg, vars, rvars, shared, locals

LEMMA InitQInv == Init => QInv
<1> SUFFICES ASSUME Init PROVE QInv
  OBVIOUS
<1>1. IInv
  BY InitInv
<1>2. \A t \in Thread : pc[t] = "idle"
  BY DEF Init
<1> QED
  BY <1>1, <1>2 DEF QInv, SeenOK, TakenOK, PopPC

\* What a step can be.
LEMMA StepCases ==
    ASSUME NEW t \in Thread, PushStep(t) \/ PopStep(t)
    PROVE  \/ Quiet(t) \/ PushLink(t) \/ PushSwing(t)
           \/ PopEmpty(t) \/ PopCas(t) \/ PopValue(t) \/ PopRetire(t) \/ PopReturnFalse(t)
BY DEF PushStep, PopStep, Quiet

LEMMA NextQInv == QInv /\ [Next]_vars => QInv'
<1> SUFFICES ASSUME QInv, [Next]_vars, NEW u \in Thread
             PROVE  SeenOK(u)' /\ TakenOK(u)'
  BY NextInv DEF QInv
<1>1. ASSUME NEW t \in Thread, PushStep(t) \/ PopStep(t) PROVE SeenOK(u)' /\ TakenOK(u)'
  BY <1>1, StepCases, QuietQInv, OutsideQInv, PushLinkQInv, PopCasQInv
<1> QED
  BY <1>1, PushQInv, OutsideQInv, ReclaimQInv, ClosingQInv, StutterQInv DEF Next

\* A try_pop that finds no successor of the dummy has been there while the
\* queue was empty, and no two of them take the same node.
THEOREM SeenInvariance == Spec => []QInv
BY InitQInv, NextQInv, PTL DEF Spec

-----------------------------------------------------------------------------
(* The abstract state                                                      *)

Held == Value \union {NoValue}

ItemsAre == open => /\ Items \in Seq(Held) /\ Len(Items) = Len(chain) - 1
                    /\ Len(chain) \in Nat /\ Len(chain) >= 1
                    /\ \A i \in 1..(Len(chain) - 1) : Items[i] = val[chain[i + 1]]

LEMMA ItemsFacts == IInv => ItemsAre
<1> SUFFICES ASSUME IInv, open
             PROVE  /\ Items \in Seq(Held) /\ Len(Items) = Len(chain) - 1
                    /\ Len(chain) \in Nat /\ Len(chain) >= 1
                    /\ \A i \in 1..(Len(chain) - 1) : Items[i] = val[chain[i + 1]]
  BY DEF ItemsAre
<1> DEFINE n == Len(chain) - 1
           f == [i \in 1..n |-> val[chain[i + 1]]]
<1>1. TypeOK /\ ListOK
  BY DEF IInv
<1>2. Len(chain) \in Nat /\ Len(chain) >= 1 /\ n \in Nat
  BY <1>1 DEF TypeOK, ListOK
<1>3. \A i \in 1..n : chain[i + 1] \in Node
  BY <1>1, <1>2 DEF TypeOK
<1>4. \A i \in 1..n : val[chain[i + 1]] \in Held
  BY <1>1, <1>3 DEF TypeOK, Held
<1>5. f \in [1..n -> Held] /\ DOMAIN f = 1..n
  BY <1>4
<1>6. f \in Seq(Held)
  BY <1>2, <1>5, SeqDef
<1>7. Len(f) = n
  <2>1. Len(f) \in Nat /\ DOMAIN f = 1..Len(f)
    BY <1>6, LenProperties
  <2>2. \A m, k \in Nat : 1..m = 1..k => m = k
    OBVIOUS
  <2> HIDE DEF f, n
  <2> QED
    BY <2>1, <2>2, <1>2, <1>5
<1>8. Items = f
  BY DEF Items
<1> QED
  BY <1>2, <1>6, <1>7, <1>8

LEMMA ItemsFactsNext == IInv' => ItemsAre'
BY ItemsFacts, PTL

LEMMA ItemsKept ==
    ASSUME UNCHANGED <<chain, open>>,
           \A i \in 1..(Len(chain) - 1) : val'[chain[i + 1]] = val[chain[i + 1]]
    PROVE  Items' = Items
BY DEF Items

OpOf(x) == CASE x = "idle" -> "idle"
             [] x = "p_swing" -> "pushed"
             [] x \in PushPC \ {"p_swing"} -> "push"
             [] x \in PopPC -> "pop"
             [] x \in {"o_value", "o_retire"} -> "popped"
             [] x = "o_empty" -> "empty"

LEMMA OpValues ==
    /\ OpOf("idle") = "idle" /\ OpOf("p_swing") = "pushed" /\ OpOf("o_empty") = "empty"
    /\ \A x \in PrivatePC : OpOf(x) = "push"
    /\ \A x \in PopPC : OpOf(x) = "pop"
    /\ OpOf("o_value") = "popped" /\ OpOf("o_retire") = "popped"
BY DEF OpOf, PrivatePC, PushPC, PopPC

LEMMA OpIs == Op = [t \in Thread |-> Op[t]] /\ \A t \in Thread : Op[t] = OpOf(pc[t])
<1>1. Op = [t \in Thread |-> OpOf(pc[t])]
  BY DEF Op, OpOf
<1> QED
  BY <1>1

LEMMA OpStep ==
    ASSUME TypeOK, NEW t \in Thread, NEW x, pc' = [pc EXCEPT ![t] = x]
    PROVE  Op' = [Op EXCEPT ![t] = OpOf(x)]
<1>1. Op = [u \in Thread |-> OpOf(pc[u])]
  BY DEF Op, OpOf
<1>2. Op' = [u \in Thread |-> OpOf(pc'[u])]
  BY DEF Op, OpOf
<1> QED
  BY <1>1, <1>2 DEF TypeOK

\* Who is popping for the abstract queue.
LEMMA PoppingIs == ASSUME TypeOK PROVE Fifo!Popping = {u \in Thread : pc[u] \in PopPC}
<1>1. ASSUME NEW u \in Thread PROVE Op[u] = "pop" <=> pc[u] \in PopPC
  <2>1. pc[u] \in {"idle"} \union PushPC \union PopPC \union DonePC
    BY DEF TypeOK
  <2>2. \/ pc[u] = "idle" \/ pc[u] = "p_swing" \/ pc[u] = "o_empty" \/ pc[u] \in PrivatePC
        \/ pc[u] \in PopPC \/ pc[u] = "o_value" \/ pc[u] = "o_retire"
    BY <2>1 DEF PrivatePC, DonePC
  <2>3. Op[u] = OpOf(pc[u])
    BY OpIs
  <2>4. pc[u] \in PopPC =>
           /\ pc[u] \notin {"idle", "p_swing", "o_empty", "o_value", "o_retire"}
           /\ pc[u] \notin PrivatePC
    BY DEF PopPC, PrivatePC, PushPC
  <2> QED
    BY <2>2, <2>3, OpValues
<1> QED
  BY <1>1 DEF Fifo!Popping

ArgIs(t) == /\ pc[t] \in PrivatePC => Arg[t] = val[node[t]]
            /\ pc[t] = "o_value" => Arg[t] = val[nextg(t)]
            /\ pc[t] = "o_retire" => Arg[t] = res[t]
            /\ pc[t] \notin PrivatePC \union OldPC => Arg[t] = NoValue
ArgsAre == Arg = [t \in Thread |-> Arg[t]] /\ \A t \in Thread : ArgIs(t)

LEMMA ArgFacts == ArgsAre
<1>1. Arg = [t \in Thread |-> Arg[t]]
  BY DEF Arg
<1>2. ASSUME NEW t \in Thread PROVE ArgIs(t)
  BY DEF Arg, ArgIs, PrivatePC, PushPC, OldPC
<1> QED
  BY <1>1, <1>2 DEF ArgsAre

LEMMA ArgFactsNext == ArgsAre'
BY ArgFacts, PTL

\* The threads but t keep what they push or have taken.
LEMMA ArgStep ==
    ASSUME NEW t \in Thread,
           \A u \in Thread \ {t} :
              /\ pc'[u] = pc[u]
              /\ pc[u] \in PrivatePC => val'[node'[u]] = val[node[u]]
              /\ pc[u] = "o_value" => val'[nextg(u)'] = val[nextg(u)]
              /\ pc[u] = "o_retire" => res'[u] = res[u]
    PROVE  Arg' = [Arg EXCEPT ![t] = Arg'[t]]
<1>1. ASSUME NEW u \in Thread \ {t} PROVE Arg'[u] = Arg[u]
  <2>1. ArgIs(u) /\ ArgIs(u)'
    BY ArgFacts, ArgFactsNext DEF ArgsAre
  <2> QED
    BY <2>1 DEF ArgIs, OldPC
<1> QED
  BY <1>1, ArgFacts, ArgFactsNext DEF ArgsAre

\* A step of t that leaves list and values alone changes, for the abstract
\* queue, at most what t is doing.
LEMMA PlainStep ==
    ASSUME NEW t \in Thread, Keeps(t), val' = val
    PROVE  Items' = Items /\ Arg' = [Arg EXCEPT ![t] = Arg'[t]]
<1>1. Items' = Items
  BY DEF Items, Keeps
<1>2. \A u \in Thread \ {t} : nextg(u)' = nextg(u)
  BY DEF Keeps, nextg
<1> QED
  BY <1>1, <1>2, ArgStep DEF Keeps

-----------------------------------------------------------------------------
(* Every step is a step of FifoQueue                                       *)

LEMMA MapInit == Init => Fifo!FInit
<1> SUFFICES ASSUME Init PROVE Fifo!FInit
  OBVIOUS
<1>1. Items = << >>
  <2>1. ItemsAre /\ Len(chain) = 1 /\ open
    BY InitInv, ItemsFacts DEF Init
  <2>2. Items \in Seq(Held) /\ Len(Items) = 0
    BY <2>1 DEF ItemsAre
  <2> QED
    BY <2>2, EmptySeq
<1>2. Op = [t \in Thread |-> "idle"]
  BY OpIs, OpValues DEF Init, Op
<1>3. Arg = [t \in Thread |-> NoValue]
  <2>1. \A t \in Thread : pc[t] \notin PrivatePC \union OldPC
    BY DEF Init, PrivatePC, PushPC, OldPC
  <2> QED
    BY <2>1, ArgFacts DEF ArgsAre, ArgIs
<1> QED
  BY <1>1, <1>2, <1>3 DEF Init, Fifo!FInit

\* What an operation does before it takes effect and while it retries.
LEMMA MapQuiet ==
    ASSUME QInv, NEW t \in Thread, Quiet(t)
    PROVE  UNCHANGED <<Items, Op, Arg, sawEmpty>>
<1>1. IInv /\ TypeOK
  BY DEF QInv, IInv
<1>2. /\ Keeps(t) /\ UNCHANGED <<val, sawEmpty>> /\ pc' = [pc EXCEPT ![t] = pc'[t]]
      /\ \/ pc[t] \in PrivatePC /\ pc'[t] \in PrivatePC /\ node'[t] = node[t]
         \/ pc[t] \in PopPC /\ pc'[t] \in PopPC
  BY <1>1, QuietPush, QuietPop DEF Quiet
<1>3. Items' = Items /\ Arg' = [Arg EXCEPT ![t] = Arg'[t]]
  BY <1>2, PlainStep
<1>4. Arg'[t] = Arg[t]
  <2>1. ArgIs(t) /\ ArgIs(t)'
    BY ArgFacts, ArgFactsNext DEF ArgsAre
  <2>2. CASE pc[t] \in PrivatePC /\ pc'[t] \in PrivatePC /\ node'[t] = node[t]
    BY <2>1, <2>2, <1>2 DEF ArgIs
  <2>3. CASE pc[t] \in PopPC /\ pc'[t] \in PopPC
    BY <2>1, <2>3 DEF ArgIs, PrivatePC, PushPC, PopPC, OldPC
  <2> QED
    BY <2>2, <2>3, <1>2
<1>5. Arg' = Arg
  BY <1>3, <1>4, ArgFacts DEF ArgsAre
<1>6. Op' = Op
  <2>1. OpOf(pc'[t]) = OpOf(pc[t])
    BY <1>2, OpValues
  <2>2. Op' = [Op EXCEPT ![t] = OpOf(pc[t])]
    BY <2>1, <1>1, <1>2, OpStep
  <2> QED
    BY <2>2, OpIs
<1> QED
  BY <1>2, <1>3, <1>5, <1>6

\* A node that is free holds no value that anybody is going to read.
LEMMA MapPush ==
    ASSUME QInv, NEW t \in Thread, NEW n \in Node, NEW v \in Value, Push(t, n, v)
    PROVE  Fifo!CallPush(t, v)
<1>1. IInv /\ TypeOK /\ ListOK
  BY DEF QInv, IInv
<1>2. /\ status[n] = "free" /\ pc[t] = "idle" /\ pc' = [pc EXCEPT ![t] = "p_load"]
      /\ pc'[t] = "p_load" /\ node'[t] = n /\ val'[n] = v
      /\ \A m \in Node \ {n} : val'[m] = val[m]
      /\ \A u \in Thread \ {t} : pc'[u] = pc[u] /\ node'[u] = node[u]
      /\ UNCHANGED <<slot, chain, open, res, sawEmpty>>
  BY <1>1 DEF Push, Allocate, Goto, TypeOK
<1>3. Items' = Items
  <2>1. \A i \in 1..(Len(chain) - 1) : chain[i + 1] \in Node \ {n}
    BY <1>1, <1>2 DEF ListOK, TypeOK
  <2> QED
    BY <2>1, <1>2, ItemsKept
<1>4. ASSUME NEW u \in Thread \ {t}
      PROVE  /\ pc[u] \in PrivatePC => val'[node'[u]] = val[node[u]]
             /\ pc[u] = "o_value" => val'[nextg(u)'] = val[nextg(u)]
  <2>1. pc[u] \in PrivatePC => node[u] \in Node \ {n}
    BY <1>1, <1>2 DEF IInv, PrivateOK, TypeOK
  <2>2. ASSUME pc[u] = "o_value" PROVE nextg(u) \in Node \ {n}
    <3>1. nextg(u) \in Node /\ Protected(u, "next")
      BY <1>1, <2>2, NextNode DEF IInv, ThreadOK, PopOK
    <3> QED
      BY <3>1, <1>2 DEF Protected, nextg
  <2>3. nextg(u)' = nextg(u)
    BY <1>2 DEF nextg
  <2> QED
    BY <2>1, <2>2, <2>3, <1>2
<1>5. Arg' = [Arg EXCEPT ![t] = v]
  <2>1. Arg' = [Arg EXCEPT ![t] = Arg'[t]]
    BY <1>2, <1>4, ArgStep
  <2>2. Arg'[t] = v
    BY <1>2, ArgFactsNext DEF ArgsAre, ArgIs, PrivatePC, PushPC
  <2> QED
    BY <2>1, <2>2
<1>6. Op[t] = "idle" /\ Op' = [Op EXCEPT ![t] = "push"]
  <2>1. Op' = [Op EXCEPT ![t] = OpOf("p_load")]
    BY <1>1, <1>2, OpStep
  <2> QED
    BY <2>1, <1>2, OpIs, OpValues DEF PrivatePC, PushPC
<1> QED
  BY <1>2, <1>3, <1>5, <1>6 DEF Fifo!CallPush

LEMMA MapTryPop ==
    ASSUME QInv, NEW t \in Thread, TryPop(t)
    PROVE  Fifo!CallPop(t)
<1>1. IInv /\ TypeOK /\ ItemsAre
  BY ItemsFacts DEF QInv, IInv
<1>2. /\ open /\ val' = val /\ pc[t] = "idle" /\ pc' = [pc EXCEPT ![t] = "o_load"]
      /\ pc'[t] = "o_load"
      /\ sawEmpty' = IF Len(chain) = 1 THEN sawEmpty \union {t} ELSE sawEmpty
  BY <1>1 DEF TryPop, Goto, TypeOK, shared
<1>3. Items' = Items /\ Arg' = [Arg EXCEPT ![t] = Arg'[t]]
  BY <1>1, <1>2, OutsideKeeps, PlainStep
<1>4. Arg' = Arg
  <2>1. Arg[t] = NoValue /\ Arg'[t] = NoValue
    BY <1>2, ArgFacts, ArgFactsNext DEF ArgsAre, ArgIs, PrivatePC, PushPC, OldPC
  <2> QED
    BY <2>1, <1>3, ArgFacts DEF ArgsAre
<1>5. Op[t] = "idle" /\ Op' = [Op EXCEPT ![t] = "pop"]
  <2>1. Op' = [Op EXCEPT ![t] = OpOf("o_load")]
    BY <1>1, <1>2, OpStep
  <2> QED
    BY <2>1, <1>2, OpIs, OpValues DEF PopPC
<1>6. Items = << >> <=> Len(chain) = 1
  <2>1. Items \in Seq(Held) /\ Len(Items) = Len(chain) - 1 /\ Len(chain) \in Nat
    BY <1>1, <1>2 DEF ItemsAre
  <2>2. Len(chain) = 1 <=> Len(Items) = 0
    BY <2>1
  <2>3. Items = << >> <=> Len(Items) = 0
    BY <2>1, EmptySeq
  <2> QED
    BY <2>2, <2>3
<1> QED
  BY <1>2, <1>3, <1>4, <1>5, <1>6 DEF Fifo!CallPop

\* push returns, or try_pop returns true: the value is gone for the abstract
\* queue, whatever becomes of the node that held it.
LEMMA MapReturn ==
    ASSUME QInv, NEW t \in Thread, PushSwing(t) \/ PopRetire(t) \/ PopReturnFalse(t)
    PROVE  Fifo!Return(t)
<1>1. IInv /\ TypeOK
  BY DEF QInv, IInv
<1>2. /\ UNCHANGED <<val, sawEmpty>> /\ pc' = [pc EXCEPT ![t] = "idle"] /\ pc'[t] = "idle"
      /\ pc[t] \in {"p_swing", "o_retire", "o_empty"}
  BY <1>1 DEF PushSwing, PopRetire, PopReturnFalse, Goto, TypeOK, shared
<1>3. Items' = Items /\ Arg' = [Arg EXCEPT ![t] = Arg'[t]]
  BY <1>1, <1>2, OutsideKeeps, PlainStep
<1>4. Arg'[t] = NoValue
  BY <1>2, ArgFactsNext DEF ArgsAre, ArgIs, PrivatePC, PushPC, OldPC
<1>5. Op[t] \in {"pushed", "popped", "empty"} /\ Op' = [Op EXCEPT ![t] = "idle"]
  <2>1. Op' = [Op EXCEPT ![t] = OpOf("idle")]
    BY <1>1, <1>2, OpStep
  <2> QED
    BY <2>1, <1>2, OpIs, OpValues
<1> QED
  BY <1>2, <1>3, <1>4, <1>5 DEF Fifo!Return

\* The dummy has no successor: the try_pop has seen an empty queue, when it read
\* that or before.
LEMMA MapPopEmpty ==
    ASSUME QInv, NEW t \in Thread, PopEmpty(t)
    PROVE  Fifo!FailPop(t)
<1>1. IInv /\ TypeOK /\ SeenOK(t)
  BY DEF QInv, IInv
<1>2. /\ val' = val /\ pc' = [pc EXCEPT ![t] = "o_empty"] /\ pc'[t] = "o_empty"
      /\ pc[t] = "o_check" /\ nextg(t) = Null /\ sawEmpty' = sawEmpty \ {t}
  BY <1>1 DEF PopEmpty, Goto, TypeOK, shared
<1>3. Items' = Items /\ Arg' = [Arg EXCEPT ![t] = Arg'[t]]
  BY <1>1, <1>2, OutsideKeeps, PlainStep
<1>4. Arg' = Arg
  <2>1. Arg[t] = NoValue /\ Arg'[t] = NoValue
    BY <1>2, ArgFacts, ArgFactsNext DEF ArgsAre, ArgIs, PrivatePC, PushPC, OldPC
  <2> QED
    BY <2>1, <1>3, ArgFacts DEF ArgsAre
<1>5. Op[t] = "pop" /\ Op' = [Op EXCEPT ![t] = "empty"]
  <2>1. Op' = [Op EXCEPT ![t] = OpOf("o_empty")]
    BY <1>1, <1>2, OpStep
  <2> QED
    BY <2>1, <1>2, OpIs, OpValues DEF PopPC
<1>6. t \in sawEmpty
  BY <1>1, <1>2 DEF SeenOK
<1> QED
  BY <1>2, <1>3, <1>4, <1>5, <1>6 DEF Fifo!FailPop

\* The CAS that links the node is the push.
LEMMA MapPushLink ==
    ASSUME QInv, NEW t \in Thread, PushLink(t)
    PROVE  Fifo!DoPush(t)
<1> DEFINE len == Len(chain)
<1>1. /\ IInv /\ IInv' /\ TypeOK /\ ItemsAre /\ ItemsAre' /\ PrivateOK(t)
  <2>1. IInv'
    BY NextInv DEF QInv, Next, PushStep
  <2> QED
    BY <2>1, ItemsFacts, ItemsFactsNext DEF QInv, IInv
<1>2. /\ pc[t] = "p_link" /\ pc' = [pc EXCEPT ![t] = "p_swing"] /\ pc'[t] = "p_swing"
      /\ \A u \in Thread \ {t} : pc'[u] = pc[u]
      /\ chain' = Append(chain, node[t])
      /\ open /\ open' /\ UNCHANGED <<val, slot, node, res, sawEmpty>>
  BY <1>1, ListFacts DEF PushLink, Goto, rvars, locals, TypeOK
<1>3. node[t] \in Node /\ val[node[t]] \in Held
  BY <1>1, <1>2 DEF PrivateOK, PrivatePC, PushPC, TypeOK, Held
<1>4. /\ len \in Nat /\ Len(chain') = len + 1 /\ chain'[len + 1] = node[t]
      /\ \A i \in 1..len : chain'[i] = chain[i]
  BY <1>1, <1>2, <1>3 DEF TypeOK
<1>5. /\ Arg[t] = val[node[t]] /\ Arg' = [Arg EXCEPT ![t] = NoValue]
  <2>1. \A u \in Thread : nextg(u)' = nextg(u)
    BY <1>2 DEF nextg
  <2>2. Arg' = [Arg EXCEPT ![t] = Arg'[t]]
    BY <2>1, <1>2, ArgStep
  <2>3. Arg[t] = val[node[t]] /\ Arg'[t] = NoValue
    BY <1>2, ArgFacts, ArgFactsNext DEF ArgsAre, ArgIs, PrivatePC, PushPC, OldPC
  <2> QED
    BY <2>2, <2>3
<1>6. Op[t] = "push" /\ Op' = [Op EXCEPT ![t] = "pushed"]
  <2>1. Op' = [Op EXCEPT ![t] = OpOf("p_swing")]
    BY <1>1, <1>2, OpStep
  <2> QED
    BY <2>1, <1>2, OpIs, OpValues DEF PrivatePC, PushPC
<1>7. Items' = Append(Items, val[node[t]])
  <2>1. /\ Items \in Seq(Held) /\ Items' \in Seq(Held)
        /\ len >= 1 /\ Len(Items) = len - 1 /\ Len(Items') = len
        /\ \A i \in 1..(len - 1) : Items[i] = val[chain[i + 1]]
        /\ \A i \in 1..len : Items'[i] = val[chain'[i + 1]]
    BY <1>1, <1>2, <1>4 DEF ItemsAre
  <2>2. /\ Append(Items, val[node[t]]) \in Seq(Held) /\ Len(Append(Items, val[node[t]])) = len
        /\ \A i \in 1..(len - 1) : Append(Items, val[node[t]])[i] = Items[i]
        /\ Append(Items, val[node[t]])[len] = val[node[t]]
    BY <2>1, <1>3, <1>4, AppendProperties
  <2>3. ASSUME NEW i \in 1..len PROVE Items'[i] = Append(Items, val[node[t]])[i]
    <3>1. CASE i = len
      BY <3>1, <2>1, <2>2, <1>4
    <3>2. CASE i # len
      <4>1. i \in 1..(len - 1) /\ i + 1 \in 1..len
        BY <3>2, <1>4
      <4> QED
        BY <4>1, <2>1, <2>2, <1>4
    <3> QED
      BY <3>1, <3>2
  <2> HIDE DEF len
  <2> QED
    BY <2>1, <2>2, <2>3, SeqEqual
<1> QED
  BY <1>2, <1>5, <1>6, <1>7 DEF Fifo!DoPush

\* The CAS on _head is the pop of the value in the node that becomes the dummy.
LEMMA MapPopCas ==
    ASSUME QInv, NEW t \in Thread, PopCas(t)
    PROVE  Fifo!DoPop(t)
<1> DEFINE len == Len(chain)
<1>1. /\ IInv /\ IInv' /\ TypeOK /\ ItemsAre /\ ItemsAre'
  <2>1. IInv'
    BY NextInv DEF QInv, Next, PopStep
  <2> QED
    BY <2>1, ItemsFacts, ItemsFactsNext DEF QInv, IInv
<1>2. /\ pc[t] = "o_cas" /\ pc' = [pc EXCEPT ![t] = "o_value"] /\ pc'[t] = "o_value"
      /\ \A u \in Thread \ {t} : pc'[u] = pc[u]
      /\ sawEmpty' = (IF len = 2 THEN sawEmpty \union {u \in Thread : pc[u] \in PopPC}
                      ELSE sawEmpty) \ {t}
      /\ UNCHANGED <<val, open, slot, node, res>>
  BY <1>1 DEF PopCas, Goto, rvars, TypeOK
<1>3. /\ open /\ nextg(t) = chain[2] /\ len \in Nat /\ len >= 2 /\ Len(chain') = len - 1
      /\ \A i \in 1..(len - 1) : chain'[i] = chain[i + 1]
  BY <1>1, PopCasFacts
<1>4. /\ Items \in Seq(Held) /\ Items' \in Seq(Held)
      /\ Len(Items) = len - 1 /\ Len(Items') = len - 2
      /\ \A i \in 1..(len - 1) : Items[i] = val[chain[i + 1]]
      /\ \A i \in 1..(len - 2) : Items'[i] = val[chain'[i + 1]]
  BY <1>1, <1>2, <1>3 DEF ItemsAre
<1>5. Items # << >> /\ Head(Items) = val[chain[2]]
  <2>1. Items # << >>
    BY <1>3, <1>4, EmptySeq
  <2>2. Items[1] = val[chain[2]]
    BY <1>3, <1>4
  <2> QED
    BY <2>1, <2>2, <1>4
<1>6. Arg' = [Arg EXCEPT ![t] = Head(Items)]
  <2>1. \A u \in Thread : nextg(u)' = nextg(u)
    BY <1>2 DEF nextg
  <2>2. Arg' = [Arg EXCEPT ![t] = Arg'[t]]
    BY <2>1, <1>2, ArgStep
  <2>3. Arg'[t] = val[chain[2]]
    BY <2>1, <1>2, <1>3, ArgFactsNext DEF ArgsAre, ArgIs
  <2> QED
    BY <2>2, <2>3, <1>5
<1>7. Op[t] = "pop" /\ Op' = [Op EXCEPT ![t] = "popped"]
  <2>1. Op' = [Op EXCEPT ![t] = OpOf("o_value")]
    BY <1>1, <1>2, OpStep
  <2> QED
    BY <2>1, <1>2, OpIs, OpValues DEF PopPC
<1>8. Items' = Tail(Items)
  <2>1. /\ Tail(Items) \in Seq(Held) /\ Len(Tail(Items)) = len - 2
        /\ \A i \in 1..(len - 2) : Tail(Items)[i] = Items[i + 1]
    BY <1>3, <1>4, <1>5, HeadTailProperties
  <2>2. ASSUME NEW i \in 1..(len - 2) PROVE Items'[i] = Tail(Items)[i]
    <3>1. i + 1 \in 1..(len - 1)
      BY <1>3
    <3> QED
      BY <3>1, <2>1, <1>3, <1>4
  <2> HIDE DEF len
  <2> QED
    BY <2>1, <2>2, <1>4, SeqEqual
<1>9. sawEmpty' = (IF Len(Items) = 1 THEN sawEmpty \union Fifo!Popping ELSE sawEmpty) \ {t}
  <2>1. Len(Items) = 1 <=> len = 2
    BY <1>3, <1>4
  <2> QED
    BY <2>1, <1>1, <1>2, PoppingIs
<1> QED
  BY <1>5, <1>6, <1>7, <1>8, <1>9 DEF Fifo!DoPop

\* Nobody but the thread that took it sees whether a value has left its node.
LEMMA MapPopValue ==
    ASSUME QInv, NEW t \in Thread, PopValue(t)
    PROVE  UNCHANGED <<Items, Op, Arg, sawEmpty>>
<1>1. IInv /\ TypeOK /\ \A u \in Thread : TakenOK(u)
  BY DEF QInv, IInv
<1>2. /\ pc[t] = "o_value" /\ pc' = [pc EXCEPT ![t] = "o_retire"] /\ pc'[t] = "o_retire"
      /\ res'[t] = val[nextg(t)] /\ val' = [val EXCEPT ![nextg(t)] = NoValue]
      /\ sawEmpty' = sawEmpty
  BY <1>1 DEF PopValue, Goto, TypeOK
<1>3. Keeps(t)
  BY <1>1, OutsideKeeps
<1>4. nextg(t) \in Node /\ \A m \in Node \ {nextg(t)} : val'[m] = val[m]
  BY <1>1, <1>2, NextNode DEF TypeOK
<1>5. Items' = Items
  <2>1. \A i \in 1..(Len(chain) - 1) : chain[i + 1] \in Node \ {nextg(t)}
    BY <1>1, <1>2 DEF TakenOK, TypeOK
  <2> QED
    BY <2>1, <1>3, <1>4, ItemsKept DEF Keeps
<1>6. ASSUME NEW u \in Thread \ {t}
      PROVE  /\ pc[u] \in PrivatePC => val'[node'[u]] = val[node[u]]
             /\ pc[u] = "o_value" => val'[nextg(u)'] = val[nextg(u)]
  <2>1. nextg(u)' = nextg(u) /\ node'[u] = node[u]
    BY <1>3 DEF Keeps, nextg
  <2>2. pc[u] \in PrivatePC => node[u] \in Node \ {nextg(t)}
    <3> SUFFICES ASSUME pc[u] \in PrivatePC PROVE node[u] \in Node \ {nextg(t)}
      OBVIOUS
    <3>1. node[u] \in Node /\ next[node[u]] = Null /\ ~InList(node[u])
      BY <1>1 DEF IInv, PrivateOK, TypeOK
    <3> QED
      BY <3>1, <1>1, <1>2 DEF TakenOK
  <2>3. pc[u] = "o_value" => nextg(u) \in Node \ {nextg(t)}
    BY <1>1, <1>2, NextNode DEF TakenOK
  <2> QED
    BY <2>1, <2>2, <2>3, <1>4
<1>7. Arg' = Arg
  <2>1. Arg' = [Arg EXCEPT ![t] = Arg'[t]]
    BY <1>3, <1>6, ArgStep DEF Keeps
  <2>2. Arg[t] = val[nextg(t)] /\ Arg'[t] = res'[t]
    BY <1>2, ArgFacts, ArgFactsNext DEF ArgsAre, ArgIs
  <2> QED
    BY <2>1, <2>2, <1>2, ArgFacts DEF ArgsAre
<1>8. Op' = Op
  <2>1. Op' = [Op EXCEPT ![t] = OpOf("o_retire")]
    BY <1>1, <1>2, OpStep
  <2> QED
    BY <2>1, <1>2, OpIs, OpValues
<1> QED
  BY <1>2, <1>5, <1>7, <1>8

\* A node that can be deleted holds no value that anybody is going to read.
LEMMA MapReclaim ==
    ASSUME QInv, NEW n \in Node, ReclaimNode(n)
    PROVE  UNCHANGED <<Items, Op, Arg, sawEmpty>>
<1>1. IInv /\ TypeOK /\ ListOK
  BY DEF QInv, IInv
<1>2. /\ status[n] = "retired" /\ Holders(n) \intersect pinned = {}
      /\ \A m \in Node \ {n} : val'[m] = val[m]
      /\ UNCHANGED <<slot, pc, node, res, chain, open, sawEmpty>>
  BY <1>1 DEF ReclaimNode, Reclaim, TypeOK, locals
<1>3. Items' = Items
  <2>1. \A i \in 1..(Len(chain) - 1) : chain[i + 1] \in Node \ {n}
    BY <1>1, <1>2 DEF ListOK, TypeOK
  <2> QED
    BY <2>1, <1>2, ItemsKept
<1>4. ASSUME NEW u \in Thread PROVE Arg'[u] = Arg[u]
  <2>1. ArgIs(u) /\ ArgIs(u)' /\ nextg(u)' = nextg(u)
    BY <1>2, ArgFacts, ArgFactsNext DEF ArgsAre, nextg
  <2>2. pc[u] \in PrivatePC => node[u] \in Node \ {n}
    BY <1>1, <1>2 DEF IInv, PrivateOK, TypeOK
  <2>3. ASSUME pc[u] = "o_value" PROVE nextg(u) \in Node \ {n}
    <3>1. nextg(u) \in Node /\ Protected(u, "next")
      BY <1>1, <2>3, NextNode DEF IInv, ThreadOK, PopOK
    <3>2. nextg(u) = n => <<u, "next">> \in Holders(n)
      BY SlotAssumption DEF Holders, Guard, nextg
    <3> QED
      BY <3>1, <3>2, <1>2 DEF Protected, nextg
  <2> QED
    BY <2>1, <2>2, <2>3, <1>2 DEF ArgIs, OldPC
<1>5. Arg' = Arg
  BY <1>4, ArgFacts, ArgFactsNext DEF ArgsAre
<1>6. Op' = Op
  BY <1>2 DEF Op
<1> QED
  BY <1>2, <1>3, <1>5, <1>6

\* The destructor drops the values at once for the abstract queue.
LEMMA MapClosing ==
    ASSUME QInv, Destroy \/ DestroyNode
    PROVE  Fifo!Drop \/ UNCHANGED <<Items, Op, Arg, sawEmpty>>
<1>1. /\ UNCHANGED <<pc, val, sawEmpty>> /\ \A t \in Thread : pc[t] = "idle"
      /\ open' = FALSE /\ (DestroyNode => ~open)
  BY DEF Destroy, DestroyNode, locals, QInv, IInv, ListOK
<1>2. Items' = << >>
  BY <1>1 DEF Items
<1>3. Op' = Op
  BY <1>1 DEF Op
<1>4. Arg' = Arg
  <2>1. \A t \in Thread : pc[t] \notin PrivatePC \union OldPC
    BY <1>1 DEF PrivatePC, PushPC, OldPC
  <2> QED
    BY <2>1, <1>1, ArgFacts, ArgFactsNext DEF ArgsAre, ArgIs
<1>5. \A t \in Thread : Op[t] = "idle"
  BY <1>1, OpIs, OpValues
<1> QED
  BY <1>1, <1>2, <1>3, <1>4, <1>5 DEF Fifo!Drop

LEMMA MapStep == QInv /\ [Next]_vars => [Fifo!FNext]_Fifo!fvars
<1> SUFFICES ASSUME QInv, [Next]_vars PROVE [Fifo!FNext]_Fifo!fvars
  OBVIOUS
<1> DEFINE Stutter == UNCHANGED <<Items, Op, Arg, sawEmpty>>
<1>1. ASSUME NEW t \in Thread, PushStep(t) \/ PopStep(t)
      PROVE  \/ Stutter
             \/ Fifo!DoPush(t) \/ Fifo!DoPop(t) \/ Fifo!FailPop(t) \/ Fifo!Return(t)
  BY <1>1, StepCases, MapQuiet, MapPushLink, MapPopCas, MapPopEmpty, MapPopValue, MapReturn
<1>2. ASSUME UNCHANGED vars PROVE Stutter
  BY <1>2 DEF vars, rvars, shared, locals, Items, Op, Arg, nextg
<1>3. ASSUME NEW t \in Thread, TryPop(t) \/ \E n \in Node, v \in Value : Push(t, n, v)
      PROVE  Fifo!FNext
  BY <1>3, MapPush, MapTryPop DEF Fifo!FNext
<1> QED
  BY <1>1, <1>2, <1>3, MapReclaim, MapClosing DEF Next, Fifo!FNext, Fifo!fvars

\* push and try_pop are linearizable: the linked list behaves like an atomic
\* queue, whatever threads run, however often they are interrupted, and although
\* the addresses of nodes are used again; try_pop returns false only if the queue
\* was empty at some moment during the call.
THEOREM QueueIsLinearizable == Spec => Linearizable
BY MapInit, MapStep, SeenInvariance, PTL DEF Spec, Linearizable, Fifo!FSpec
=============================================================================
