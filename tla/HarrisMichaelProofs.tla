------------------------- MODULE HarrisMichaelProofs -------------------------
(***************************************************************************)
(* HarrisMichaelMap never touches a deleted node and never retires a node  *)
(* twice, for any number of threads, nodes, buckets, keys and calls; in    *)
(* the second part, it implements ConcurrentMap.                           *)
(*                                                                         *)
(* IInv is inductive.  ListOK says that the links from the buckets and     *)
(* from the nodes in a list are injective and lead to nodes in a list, so  *)
(* that whoever unlinks a node holds it alone; LocalOK says what a thread  *)
(* inside find or a call may rely on.  QuietStep treats the steps that     *)
(* change only what their thread owns; a lemma each treats the others.     *)
(***************************************************************************)
EXTENDS HarrisMichaelMap, FiniteSetTheorems, TLAPS

-----------------------------------------------------------------------------
(* The inductive invariant                                                 *)

Fields == {"key", "bucket", "prev", "next", "start", "mine", "then", "cur", "save", "new"}
LinkType == [ptr : Node \union {Null}, mark : BOOLEAN]
Names == {"a", "b", "c"}
HeldPC == {"retire", "reclaim"}

Place == Bucket \union Node
FreshNodes == {n \in Node : \E t \in Thread : info[t].mine = n}

\* Unlinked by a thread that has not retired it yet
HeldNodes == {n \in Node : \E t \in Thread : pc[t] \in HeldPC /\ slot[t][info[t].cur] = n}

\* Linked, and not unlinked by anybody yet
Listed == {n \in Node : status[n] = "live" /\ n \notin FreshNodes /\ n \notin HeldNodes}
Source == Bucket \union Listed

\* The guards whose nodes may be used: no thread has them for itself, either
Safe == {g \in Guard : LET n == slot[g[1]][g[2]] IN
             /\ n \in Node /\ n \notin FreshNodes
             /\ status[n] = "live" \/ (status[n] = "retired" /\ g \in pinned)}

InfoOK(t) == /\ DOMAIN info[t] = Fields
             /\ info[t].prev \in (0..Buckets) \union Node
             /\ info[t].next \in LinkType
             /\ info[t].mine \in Node \union {Null}
             /\ info[t].cur \in Names /\ info[t].save \in Names /\ info[t].new \in Names
             /\ info[t].cur # info[t].save
             /\ info[t].cur # info[t].new
             /\ info[t].save # info[t].new

Types == /\ RTypeOK
         /\ next \in [Place -> LinkType]
         /\ DOMAIN pc = Thread /\ DOMAIN info = Thread /\ DOMAIN call = Thread
         /\ \A t \in Thread : InfoOK(t)

ListOK == /\ \A l \in Source : next[l].ptr # Null => next[l].ptr \in Listed
          /\ \A l, m \in Source : next[l].ptr = next[m].ptr /\ next[l].ptr # Null => l = m
          /\ \A b \in Bucket : ~next[b].mark

\* A retired node stays marked.
RetiredOK == \A n \in Node, t \in Thread : status[n] = "retired" /\ pc[t] # "gone" => next[n].mark

FindPC == {"acquire", "validate", "load", "splice", "retire", "check", "retry"}
MinePC == FindPC \union {"enter", "first", "link", "insert", "use"}
PrevPC == (FindPC \ {"retry"}) \union
          {"enter", "link", "insert", "mark", "unlink", "it_load", "it_mark", "it_guard",
           "visit", "step", "step_check"}
CurPC == {"load", "splice", "check", "use", "inserted", "mark", "unlink", "it_load", "it_mark",
          "it_guard", "visit", "step", "step_check"}
NextPC == {"acquire", "validate", "load", "splice", "retire", "check", "mark", "it_mark",
           "it_guard", "unlink", "step_check"}
ScanPC == {"head", "head_check", "next_bucket", "visit", "step", "step_check"}

\* A node that is not in a list yet belongs to the insert that made it.
MineOK(t) == /\ info[t].mine # Null =>
                   /\ status[info[t].mine] = "live" /\ ~next[info[t].mine].mark
                   /\ \A u \in Thread \ {t} : info[u].mine # info[t].mine
                   /\ pc[t] \in MinePC /\ call[t].op = "insert" /\ info[t].then = "call"
             /\ pc[t] \in {"link", "insert"} => info[t].mine # Null
             /\ pc[t] \in MinePC /\ info[t].then = "call" /\ call[t].op = "insert"
                   /\ call[t].how = "emplace" => info[t].mine # Null

\* A node that is unlinked belongs to the thread that will retire it.
HeldOK(t) == pc[t] \in HeldPC =>
                 /\ Cur(t) \in Node /\ status[Cur(t)] = "live" /\ Cur(t) \notin FreshNodes
                 /\ next[Cur(t)].mark
                 /\ \A u \in Thread \ {t} : pc[u] \in HeldPC => Cur(u) # Cur(t)

PrevOK(t) == \/ info[t].prev \in Bucket
             \/ slot[t][info[t].save] = info[t].prev /\ <<t, info[t].save>> \in Safe

StartOK(t) == \/ info[t].start \in Bucket
              \/ slot[t]["start"] = info[t].start /\ <<t, "start">> \in Safe

\* One of two guards protects the start node: the other is a copy that may be late.
FirstOK(t) == /\ info[t].prev = info[t].start
              /\ \/ info[t].prev \in Bucket
                 \/ /\ slot[t]["start"] = info[t].prev /\ slot[t][info[t].save] = info[t].prev
                    /\ <<t, "start">> \in Safe \/ <<t, info[t].save>> \in Safe

\* emplace makes its node before it searches, the lazy insert after.
NewOK(t) == /\ IF call[t].how = "emplace"
               THEN info[t].prev \in Bucket /\ info[t].prev = info[t].start
               ELSE PrevOK(t)
            /\ call[t].op = "insert" /\ info[t].then = "call" /\ info[t].mine = Null

LocalOK(t) ==
    /\ pc[t] = "idle" => info[t] = NoInfo
    /\ pc[t] \notin {"end", "gone"} => info[t].bucket \in Bucket
    /\ pc[t] \in PrevPC => PrevOK(t)
    /\ pc[t] \in FindPC => StartOK(t)
    /\ pc[t] = "first" => FirstOK(t)
    /\ pc[t] = "new" => NewOK(t)
    /\ pc[t] \in {"head", "head_check"} => info[t].prev \in Bucket
    /\ pc[t] \in CurPC => <<t, info[t].cur>> \in Safe
    /\ pc[t] = "head_check" => Cur(t) # Null
    /\ pc[t] \in NextPC => ~info[t].next.mark
    /\ pc[t] = "validate" => Cur(t) = info[t].next.ptr /\ Cur(t) # Null
    /\ pc[t] = "step_check" => New(t) = info[t].next.ptr
    /\ pc[t] \in {"splice", "it_guard", "unlink"} =>
          next[Cur(t)].mark /\ next[Cur(t)].ptr = info[t].next.ptr
    /\ pc[t] = "insert" =>
          slot[t][IF call[t].how = "emplace" THEN info[t].new ELSE info[t].cur] = info[t].mine
    /\ pc[t] \in ScanPC => info[t].then = "scan"
    /\ pc[t] = "mark" => call[t].op = "remove"
    /\ pc[t] \in {"unlink", "it_mark", "it_guard"} => info[t].then # "call"

IInv == /\ Types /\ ListOK /\ RetiredOK
        /\ \A t \in Thread : MineOK(t) /\ HeldOK(t) /\ LocalOK(t)

-----------------------------------------------------------------------------
(* What a thread may rely on                                               *)

LEMMA BucketType ==
  /\ Bucket \subseteq 0..Buckets /\ 0 \in Bucket
  /\ \A n \in Node : n \notin Bucket
  /\ Place \subseteq (0..Buckets) \union Node
  /\ \A b \in Bucket : b < Buckets - 1 => b + 1 \in Bucket
  /\ \A b \in Bucket : b + 1 \in 0..Buckets
BY HMKeyAssumption DEF Bucket, Place

LEMMA BucketOfType ==
  ASSUME NEW k \in Key
  PROVE  BucketOf(k) \in Bucket
<1>1. k[1] \in Nat /\ Buckets \in Nat /\ Buckets > 0
  BY HMKeyAssumption
<1> QED
  BY <1>1 DEF BucketOf, Bucket

LEMMA SlotNames == Names \subseteq Slot /\ "start" \in Slot /\ "start" \notin Names
BY HMSlotAssumption DEF Names

\* The place whose link a thread reads, writes or validates
LEMMA PrevPlace ==
  ASSUME IInv, NEW t \in Thread, pc[t] \in PrevPC \union {"first", "head", "head_check"}
  PROVE  info[t].prev \in Place /\ At(t) \in LinkType
<1>1. LocalOK(t) /\ next \in [Place -> LinkType]
  BY DEF IInv, Types
<1>2. CASE pc[t] \in PrevPC
  BY <1>1, <1>2 DEF LocalOK, PrevOK, Safe, Place, At
<1>3. CASE pc[t] = "first"
  BY <1>1, <1>3 DEF LocalOK, FirstOK, Safe, Place, At
<1>4. CASE pc[t] \in {"head", "head_check"}
  BY <1>1, <1>4 DEF LocalOK, Place, At
<1> QED
  BY <1>2, <1>3, <1>4

LEMMA CurNode ==
  ASSUME IInv, NEW t \in Thread, pc[t] \in CurPC
  PROVE  /\ Cur(t) \in Node /\ status[Cur(t)] # "free" /\ Cur(t) \notin FreshNodes
         /\ next[Cur(t)] \in LinkType
<1>1. LocalOK(t) /\ next \in [Place -> LinkType]
  BY DEF IInv, Types
<1> QED
  BY <1>1 DEF LocalOK, Safe, Cur, Place

\* A protected node that is not marked is in a list.
LEMMA SafeListed ==
  ASSUME IInv, NEW t \in Thread, pc[t] # "gone", NEW s \in Slot, <<t, s>> \in Safe,
         ~next[slot[t][s]].mark
  PROVE  slot[t][s] \in Listed
<1>1. slot[t][s] \in Node /\ slot[t][s] \notin FreshNodes /\ status[slot[t][s]] = "live"
  BY DEF Safe, IInv, RetiredOK
<1>2. slot[t][s] \notin HeldNodes
  BY DEF HeldNodes, IInv, HeldOK, Cur
<1> QED
  BY <1>1, <1>2 DEF Listed

\* A link that is not marked leads from a bucket or from a node in a list.
LEMMA PrevSource ==
  ASSUME IInv, NEW t \in Thread, pc[t] \in PrevPC \union {"first", "head", "head_check"},
         ~At(t).mark
  PROVE  info[t].prev \in Source
<1>1. LocalOK(t) /\ InfoOK(t) /\ info[t].save \in Slot
  BY SlotNames DEF IInv, Types, InfoOK
<1>2. pc[t] # "gone"
  BY DEF PrevPC, FindPC
<1>3. CASE info[t].prev \in Bucket
  BY <1>3 DEF Source
<1>4. CASE info[t].prev \notin Bucket
  <2>1. CASE slot[t][info[t].save] = info[t].prev /\ <<t, info[t].save>> \in Safe
    BY <1>1, <1>2, <2>1, SafeListed DEF Source, At
  <2>2. CASE slot[t]["start"] = info[t].prev /\ <<t, "start">> \in Safe
    BY <1>1, <1>2, <2>2, SafeListed, SlotNames DEF Source, At
  <2> QED
    BY <1>1, <1>4, <2>1, <2>2 DEF LocalOK, PrevOK, FirstOK
<1> QED
  BY <1>3, <1>4

LEMMA ListedSafe ==
  ASSUME NEW t \in Thread, NEW s \in Slot, slot[t][s] \in Listed
  PROVE  <<t, s>> \in Safe
BY DEF Safe, Listed, Guard

LEMMA NextListed ==
  ASSUME IInv, NEW l \in Source, next[l].ptr # Null
  PROVE  next[l].ptr \in Listed
BY DEF IInv, ListOK

-----------------------------------------------------------------------------
(* Guards                                                                  *)

\* What a step of thread t that interrupts only the guards S keeps of the guards
GuardsKept(t, S) ==
    /\ RTypeOK'
    /\ \A x \in Slot \ S : slot'[t][x] = slot[t][x] /\ (<<t, x>> \in Safe => <<t, x>> \in Safe')
    /\ \A u \in Thread \ {t} : slot'[u] = slot[u]
    /\ \A g \in pinned : g[1] # t => g \in pinned'

LEMMA SameGuards ==
  ASSUME RTypeOK, NEW t \in Thread, UNCHANGED <<status, slot, pinned>>, FreshNodes' = FreshNodes
  PROVE  GuardsKept(t, {})
BY DEF RTypeOK, Safe, Guard, GuardsKept

LEMMA PublishGuard ==
  ASSUME RTypeOK, NEW t \in Thread, NEW s \in Slot, NEW n \in Node \union {Null}, Publish(t, s, n),
         status' = status, FreshNodes' = FreshNodes
  PROVE  /\ GuardsKept(t, {s}) /\ slot'[t][s] = n
         /\ n \in Listed => <<t, s>> \in Safe'
<1>1. /\ slot' \in [Thread -> [Slot -> Node \union {Null}]]
      /\ slot'[t][s] = n
      /\ \A x \in Slot \ {s} : slot'[t][x] = slot[t][x]
      /\ \A u \in Thread \ {t} : slot'[u] = slot[u]
  BY DEF RTypeOK, Publish
<1>2. /\ pinned' \in SUBSET Guard
      /\ \A g \in pinned : g # <<t, s>> => g \in pinned'
  BY DEF RTypeOK, Publish
<1>3. RTypeOK'
  BY <1>1, <1>2 DEF RTypeOK
<1>4. \A x \in Slot \ {s} : <<t, x>> \in Safe => <<t, x>> \in Safe'
  BY <1>1, <1>2 DEF Safe, Guard
<1>5. n \in Listed => <<t, s>> \in Safe'
  BY <1>1 DEF Safe, Listed, Guard
<1>6. \A g \in pinned : g[1] # t => g \in pinned'
  BY <1>2
<1> QED
  BY <1>1, <1>3, <1>4, <1>5, <1>6 DEF GuardsKept

LEMMA ReleaseGuard ==
  ASSUME RTypeOK, NEW t \in Thread, NEW S \in SUBSET Slot, Release(t, S),
         status' = status, FreshNodes' = FreshNodes
  PROVE  GuardsKept(t, S) /\ \A s \in S : slot'[t][s] = Null
<1>1. /\ slot' \in [Thread -> [Slot -> Node \union {Null}]]
      /\ \A s \in S : slot'[t][s] = Null
      /\ \A x \in Slot \ S : slot'[t][x] = slot[t][x]
      /\ \A u \in Thread \ {t} : slot'[u] = slot[u]
  BY DEF RTypeOK, Release
<1>2. /\ pinned' \in SUBSET Guard
      /\ \A g \in pinned : g \notin {t} \X S => g \in pinned'
  BY DEF RTypeOK, Release
<1>3. RTypeOK'
  BY <1>1, <1>2 DEF RTypeOK
<1>4. \A x \in Slot \ S : <<t, x>> \in Safe => <<t, x>> \in Safe'
  BY <1>1, <1>2 DEF Safe, Guard
<1>6. \A g \in pinned : g[1] # t => g \in pinned'
  BY <1>2
<1> QED
  BY <1>1, <1>3, <1>4, <1>6 DEF GuardsKept

-----------------------------------------------------------------------------
(* Steps that change only what their thread owns                           *)

\* What is known about a thread that does not move
LEMMA OtherLocal ==
  ASSUME NEW u \in Thread, InfoOK(u), LocalOK(u),
         pc'[u] = pc[u], info'[u] = info[u], slot'[u] = slot[u], call'[u] = call[u],
         \A s \in Slot : <<u, s>> \in Safe =>
             <<u, s>> \in Safe' /\ (next[slot[u][s]].mark => next'[slot[u][s]] = next[slot[u][s]])
  PROVE  LocalOK(u)'
<1>1. info[u].cur \in Slot /\ info[u].save \in Slot /\ "start" \in Slot
  BY SlotNames DEF InfoOK
<1>2. pc[u] \in PrevPC => PrevOK(u)'
  BY <1>1 DEF LocalOK, PrevOK
<1>3. pc[u] \in FindPC => StartOK(u)'
  BY <1>1 DEF LocalOK, StartOK
<1>4. pc[u] = "first" => FirstOK(u)'
  BY <1>1 DEF LocalOK, FirstOK
<1>8. pc[u] = "new" => NewOK(u)'
  BY <1>1 DEF LocalOK, NewOK, PrevOK
<1>5. pc[u] \in CurPC => <<u, info[u].cur>> \in Safe'
  BY <1>1 DEF LocalOK
<1>6. Cur(u)' = Cur(u) /\ New(u)' = New(u)
  BY DEF Cur, New
<1>7. pc[u] \in {"splice", "it_guard", "unlink"} =>
          next'[Cur(u)].mark /\ next'[Cur(u)].ptr = info[u].next.ptr
  BY <1>1 DEF LocalOK, CurPC, Cur
<1> QED
  BY <1>2, <1>3, <1>4, <1>5, <1>6, <1>7, <1>8 DEF LocalOK

\* The lists, the nodes and the other threads stay as they are.
Quietly(t) ==
    /\ UNCHANGED <<status, next>>
    /\ DOMAIN pc' = Thread /\ DOMAIN info' = Thread /\ DOMAIN call' = Thread
    /\ \A u \in Thread \ {t} : pc'[u] = pc[u] /\ info'[u] = info[u] /\ call'[u] = call[u]
    /\ info'[t].mine = info[t].mine
    /\ pc[t] # "gone" /\ pc[t] \notin HeldPC /\ pc'[t] \notin HeldPC

LEMMA QuietFresh ==
  ASSUME NEW t \in Thread, Quietly(t)
  PROVE  FreshNodes' = FreshNodes
BY DEF Quietly, FreshNodes

LEMMA QuietStep ==
  ASSUME IInv, NEW t \in Thread, Quietly(t), NEW S, GuardsKept(t, S), InfoOK(t)',
         MineOK(t)', LocalOK(t)'
  PROVE  IInv'
<1>1. /\ status' = status /\ next' = next
      /\ \A u \in Thread \ {t} : pc'[u] = pc[u] /\ info'[u] = info[u] /\ call'[u] = call[u]
      /\ pc[t] \notin HeldPC /\ pc'[t] \notin HeldPC /\ pc[t] # "gone"
      /\ info'[t].mine = info[t].mine
      /\ \A u \in Thread \ {t} : slot'[u] = slot[u]
      /\ \A g \in pinned : g[1] # t => g \in pinned'
      /\ RTypeOK'
  BY DEF Quietly, GuardsKept
<1>2. FreshNodes' = FreshNodes
  BY QuietFresh
<1>3. HeldNodes' = HeldNodes
  BY <1>1 DEF HeldNodes
<1>4. Listed' = Listed /\ Source' = Source
  BY <1>1, <1>2, <1>3 DEF Listed, Source
<1>5. ListOK'
  BY <1>1, <1>4 DEF IInv, ListOK
<1>6. RetiredOK'
  BY <1>1 DEF IInv, RetiredOK
<1>7. ASSUME NEW u \in Thread PROVE InfoOK(u)'
  BY <1>1 DEF IInv, Types, InfoOK
<1>8. Types'
  BY <1>1, <1>7 DEF IInv, Types, Quietly
<1>9. ASSUME NEW u \in Thread, u # t PROVE MineOK(u)' /\ HeldOK(u)' /\ LocalOK(u)'
  <2>1. MineOK(u) /\ HeldOK(u) /\ LocalOK(u) /\ InfoOK(u)
    BY DEF IInv, Types
  <2>2. MineOK(u)'
    BY <1>1, <1>9, <2>1 DEF MineOK
  <2>3. HeldOK(u)'
    BY <1>1, <1>2, <1>9, <2>1 DEF HeldOK, Cur
  <2>4. \A s \in Slot : <<u, s>> \in Safe => <<u, s>> \in Safe'
    BY <1>1, <1>2, <1>9 DEF Safe, Guard
  <2> QED
    BY <1>1, <1>9, <2>1, <2>2, <2>3, <2>4, OtherLocal
<1>10. HeldOK(t)'
  BY <1>1 DEF HeldOK
<1> QED
  BY <1>5, <1>6, <1>8, <1>9, <1>10 DEF IInv

\* Thread t changes only the fields F of its local variables.
Kept(t, F) == DOMAIN info'[t] = Fields /\ \A f \in Fields \ F : info'[t][f] = info[t][f]

LEMMA EnterInv ==
  ASSUME IInv, NEW t \in Thread, Enter(t)
  PROVE  IInv'
<1>1. Types /\ RTypeOK /\ InfoOK(t) /\ LocalOK(t) /\ MineOK(t)
  BY DEF IInv, Types
<1>2. /\ pc[t] = "enter" /\ pc'[t] = "first"
      /\ Kept(t, {"start"}) /\ info'[t].start = info[t].prev
      /\ Quietly(t)
  BY <1>1 DEF Types, InfoOK, Enter, Goto, Set, Quiet, Pure, Fields, Kept, Quietly, HeldPC
<1>3. /\ GuardsKept(t, {"start"})
      /\ slot'[t]["start"] = slot[t][info[t].save]
      /\ (slot[t][info[t].save] \in Listed => <<t, "start">> \in Safe')
  <2>1. slot[t][info[t].save] \in Node \union {Null} /\ "start" \in Slot
    BY <1>1, SlotNames DEF RTypeOK, InfoOK
  <2> QED
    BY <1>1, <1>2, <2>1, QuietFresh, PublishGuard DEF Enter, Quietly
<1>4. InfoOK(t)'
  BY <1>1, <1>2 DEF InfoOK, Kept, Fields
<1>5. LocalOK(t)'
  BY <1>1, <1>2, <1>3, SlotNames
     DEF LocalOK, PrevOK, StartOK, FirstOK, NewOK, InfoOK, Kept, Fields, GuardsKept, FindPC,
        PrevPC, CurPC, NextPC, ScanPC, Cur, New
<1>6. MineOK(t)'
  BY <1>1, <1>2 DEF MineOK, LocalOK, NewOK, Quietly, MinePC, FindPC, ScanPC, Kept, Fields, Enter,
     Quiet, Pure
<1> QED
  BY <1>2, <1>3, <1>4, <1>5, <1>6, QuietStep

LEMMA RetryInv ==
  ASSUME IInv, NEW t \in Thread, Retry(t)
  PROVE  IInv'
<1>1. Types /\ RTypeOK /\ InfoOK(t) /\ LocalOK(t) /\ MineOK(t)
  BY DEF IInv, Types
<1>2. /\ pc[t] = "retry" /\ pc'[t] = "first"
      /\ Kept(t, {"prev"}) /\ info'[t].prev = info[t].start
      /\ Quietly(t)
  BY <1>1 DEF Types, InfoOK, Retry, Goto, Set, Quiet, Pure, Fields, Kept, Quietly, HeldPC
<1>3. /\ GuardsKept(t, {info[t].save})
      /\ slot'[t][info[t].save] = slot[t]["start"]
      /\ (slot[t]["start"] \in Listed => <<t, info[t].save>> \in Safe')
  <2>1. slot[t]["start"] \in Node \union {Null} /\ info[t].save \in Slot
    BY <1>1, SlotNames DEF RTypeOK, InfoOK
  <2> QED
    BY <1>1, <1>2, <2>1, QuietFresh, PublishGuard DEF Retry, Quietly
<1>7. info[t].start \in (0..Buckets) \union Node
  BY <1>1, <1>2, BucketType DEF LocalOK, StartOK, FindPC, Safe
<1>4. InfoOK(t)'
  BY <1>1, <1>2, <1>7 DEF InfoOK, Kept, Fields
<1>5. LocalOK(t)'
  BY <1>1, <1>2, <1>3, SlotNames
     DEF LocalOK, PrevOK, StartOK, FirstOK, NewOK, InfoOK, Kept, Fields, GuardsKept, FindPC,
        PrevPC, CurPC, NextPC, ScanPC, Cur, New
<1>6. MineOK(t)'
  BY <1>1, <1>2 DEF MineOK, LocalOK, NewOK, Quietly, MinePC, FindPC, ScanPC, Kept, Fields, Retry,
     Quiet, Pure
<1> QED
  BY <1>2, <1>3, <1>4, <1>5, <1>6, QuietStep

LEMMA FirstInv ==
  ASSUME IInv, NEW t \in Thread, First(t)
  PROVE  IInv'
<1>1. Types /\ RTypeOK /\ InfoOK(t) /\ LocalOK(t) /\ MineOK(t)
  BY DEF IInv, Types
<1>2. /\ pc[t] = "first" /\ pc'[t] = "acquire" /\ ~At(t).mark
      /\ Kept(t, {"next"}) /\ info'[t].next = At(t)
      /\ Quietly(t)
  BY <1>1 DEF Types, InfoOK, First, Goto, Set, Quiet, Pure, Fields, Kept, Quietly, HeldPC
<1>3. GuardsKept(t, {})
  BY <1>1, <1>2, QuietFresh, SameGuards DEF First, Pure, Quietly
<1>7. At(t) \in LinkType /\ info[t].prev \in Source
  BY <1>2, PrevPlace, PrevSource
<1>8. PrevOK(t) /\ StartOK(t)
  BY <1>1, <1>2, <1>7, ListedSafe, SlotNames DEF LocalOK, FirstOK, PrevOK, StartOK, InfoOK, Source
<1>4. InfoOK(t)'
  BY <1>1, <1>2, <1>7 DEF InfoOK, Kept, Fields
<1>5. LocalOK(t)'
  BY <1>1, <1>2, <1>3, SlotNames, <1>8
     DEF LocalOK, PrevOK, StartOK, FirstOK, NewOK, InfoOK, Kept, Fields, GuardsKept, FindPC,
        PrevPC, CurPC, NextPC, ScanPC, Cur, New
<1>6. MineOK(t)'
  BY <1>1, <1>2 DEF MineOK, LocalOK, NewOK, Quietly, MinePC, FindPC, ScanPC, Kept, Fields, First,
     Quiet, Pure
<1> QED
  BY <1>2, <1>3, <1>4, <1>5, <1>6, QuietStep

LEMMA FirstMarkedInv ==
  ASSUME IInv, NEW t \in Thread, FirstMarked(t)
  PROVE  IInv'
<1>1. Types /\ RTypeOK /\ InfoOK(t) /\ LocalOK(t) /\ MineOK(t)
  BY DEF IInv, Types
<1>2. /\ pc[t] = "first" /\ pc'[t] = "retry"
      /\ Kept(t, {"start"}) /\ info'[t].start = info[t].bucket
      /\ Quietly(t)
  BY <1>1 DEF Types, InfoOK, FirstMarked, Goto, Set, Quiet, Pure, Fields, Kept, Quietly, HeldPC
<1>3. GuardsKept(t, {"start"}) /\ \A s \in {"start"} : slot'[t][s] = Null
  <2>1. {"start"} \in SUBSET Slot
    BY <1>1, SlotNames DEF InfoOK
  <2> QED
    BY <1>1, <1>2, <2>1, QuietFresh, ReleaseGuard DEF FirstMarked, Quietly
<1>4. InfoOK(t)'
  BY <1>1, <1>2 DEF InfoOK, Kept, Fields
<1>5. LocalOK(t)'
  BY <1>1, <1>2, <1>3, SlotNames
     DEF LocalOK, PrevOK, StartOK, FirstOK, NewOK, InfoOK, Kept, Fields, GuardsKept, FindPC,
        PrevPC, CurPC, NextPC, ScanPC, Cur, New
<1>6. MineOK(t)'
  BY <1>1, <1>2 DEF MineOK, LocalOK, NewOK, Quietly, MinePC, FindPC, ScanPC, Kept, Fields,
     FirstMarked, Quiet, Pure
<1> QED
  BY <1>2, <1>3, <1>4, <1>5, <1>6, QuietStep

LEMMA AcquireInv ==
  ASSUME IInv, NEW t \in Thread, Acquire(t)
  PROVE  IInv'
<1>1. Types /\ RTypeOK /\ InfoOK(t) /\ LocalOK(t) /\ MineOK(t)
  BY DEF IInv, Types
<1>2. /\ pc[t] = "acquire" /\ pc'[t] = "validate" /\ info[t].next.ptr # Null
      /\ Kept(t, {})
      /\ Quietly(t)
  BY <1>1 DEF Types, InfoOK, Acquire, Goto, Set, Quiet, Pure, Fields, Kept, Quietly, HeldPC
<1>3. /\ GuardsKept(t, {info[t].cur})
      /\ slot'[t][info[t].cur] = info[t].next.ptr
      /\ (info[t].next.ptr \in Listed => <<t, info[t].cur>> \in Safe')
  <2>1. info[t].next.ptr \in Node \union {Null} /\ info[t].cur \in Slot
    BY <1>1, SlotNames DEF InfoOK, LinkType
  <2> QED
    BY <1>1, <1>2, <2>1, QuietFresh, PublishGuard DEF Acquire, Quietly
<1>4. InfoOK(t)'
  BY <1>1, <1>2 DEF InfoOK, Kept, Fields
<1>5. LocalOK(t)'
  BY <1>1, <1>2, <1>3, SlotNames
     DEF LocalOK, PrevOK, StartOK, FirstOK, NewOK, InfoOK, Kept, Fields, GuardsKept, FindPC,
        PrevPC, CurPC, NextPC, ScanPC, Cur, New
<1>6. MineOK(t)'
  BY <1>1, <1>2 DEF MineOK, LocalOK, NewOK, Quietly, MinePC, FindPC, ScanPC, Kept, Fields, Acquire,
     Quiet, Pure
<1> QED
  BY <1>2, <1>3, <1>4, <1>5, <1>6, QuietStep

LEMMA LoadInv ==
  ASSUME IInv, NEW t \in Thread, Load(t)
  PROVE  IInv'
<1>1. Types /\ RTypeOK /\ InfoOK(t) /\ LocalOK(t) /\ MineOK(t)
  BY DEF IInv, Types
<1>2. /\ pc[t] = "load" /\ pc'[t] = (IF next[Cur(t)].mark THEN "splice" ELSE "check")
      /\ Kept(t, {"next"}) /\ info'[t].next = Link(next[Cur(t)].ptr)
      /\ Quietly(t)
  BY <1>1 DEF Types, InfoOK, Load, Goto, Set, Quiet, Pure, Fields, Kept, Quietly, HeldPC
<1>3. GuardsKept(t, {})
  BY <1>1, <1>2, QuietFresh, SameGuards DEF Load, Pure, Quietly
<1>7. next[Cur(t)] \in LinkType /\ Link(next[Cur(t)].ptr) \in LinkType
  BY <1>2, CurNode DEF CurPC, Link, LinkType
<1>4. InfoOK(t)'
  BY <1>1, <1>2, <1>7 DEF InfoOK, Kept, Fields
<1>5. LocalOK(t)'
  BY <1>1, <1>2, <1>3, SlotNames, <1>7
     DEF LocalOK, PrevOK, StartOK, FirstOK, NewOK, InfoOK, Kept, Fields, GuardsKept, FindPC,
        PrevPC, CurPC, NextPC, ScanPC, Cur, New, Quietly, Link
<1>6. MineOK(t)'
  BY <1>1, <1>2 DEF MineOK, LocalOK, NewOK, Quietly, MinePC, FindPC, ScanPC, Kept, Fields, Load,
     Quiet, Pure
<1> QED
  BY <1>2, <1>3, <1>4, <1>5, <1>6, QuietStep

LEMMA SpliceFailsInv ==
  ASSUME IInv, NEW t \in Thread, SpliceFails(t)
  PROVE  IInv'
<1>1. Types /\ RTypeOK /\ InfoOK(t) /\ LocalOK(t) /\ MineOK(t)
  BY DEF IInv, Types
<1>2. /\ pc[t] = "splice" /\ pc'[t] = "retry"
      /\ Kept(t, {})
      /\ Quietly(t)
  BY <1>1 DEF Types, InfoOK, SpliceFails, Goto, Set, Quiet, Pure, Fields, Kept, Quietly, HeldPC
<1>3. GuardsKept(t, {})
  BY <1>1, <1>2, QuietFresh, SameGuards DEF SpliceFails, Pure, Quietly
<1>4. InfoOK(t)'
  BY <1>1, <1>2 DEF InfoOK, Kept, Fields
<1>5. LocalOK(t)'
  BY <1>1, <1>2, <1>3, SlotNames
     DEF LocalOK, PrevOK, StartOK, FirstOK, NewOK, InfoOK, Kept, Fields, GuardsKept, FindPC,
        PrevPC, CurPC, NextPC, ScanPC, Cur, New
<1>6. MineOK(t)'
  BY <1>1, <1>2 DEF MineOK, LocalOK, NewOK, Quietly, MinePC, FindPC, ScanPC, Kept, Fields,
     SpliceFails, Quiet, Pure
<1> QED
  BY <1>2, <1>3, <1>4, <1>5, <1>6, QuietStep

LEMMA InsertCasFailsInv ==
  ASSUME IInv, NEW t \in Thread, InsertCasFails(t)
  PROVE  IInv'
<1>1. Types /\ RTypeOK /\ InfoOK(t) /\ LocalOK(t) /\ MineOK(t)
  BY DEF IInv, Types
<1>2. /\ pc[t] = "insert" /\ pc'[t] = "enter"
      /\ Kept(t, {})
      /\ Quietly(t)
  BY <1>1 DEF Types, InfoOK, InsertCasFails, Goto, Set, Quiet, Pure, Fields, Kept, Quietly, HeldPC
<1>3. GuardsKept(t, {info[t].new}) /\ \A s \in {info[t].new} : slot'[t][s] = Null
  <2>1. {info[t].new} \in SUBSET Slot
    BY <1>1, SlotNames DEF InfoOK
  <2> QED
    BY <1>1, <1>2, <2>1, QuietFresh, ReleaseGuard DEF InsertCasFails, Quietly
<1>4. InfoOK(t)'
  BY <1>1, <1>2 DEF InfoOK, Kept, Fields
<1>5. LocalOK(t)'
  BY <1>1, <1>2, <1>3, SlotNames
     DEF LocalOK, PrevOK, StartOK, FirstOK, NewOK, InfoOK, Kept, Fields, GuardsKept, FindPC,
        PrevPC, CurPC, NextPC, ScanPC, Cur, New
<1>6. MineOK(t)'
  BY <1>1, <1>2 DEF MineOK, LocalOK, NewOK, Quietly, MinePC, FindPC, ScanPC, Kept, Fields,
     InsertCasFails, Quiet, Pure
<1> QED
  BY <1>2, <1>3, <1>4, <1>5, <1>6, QuietStep

LEMMA InsertedInv ==
  ASSUME IInv, NEW t \in Thread, Inserted(t)
  PROVE  IInv'
<1>1. Types /\ RTypeOK /\ InfoOK(t) /\ LocalOK(t) /\ MineOK(t)
  BY DEF IInv, Types
<1>2. /\ pc[t] = "inserted" /\ pc'[t] = "done"
      /\ Kept(t, {})
      /\ Quietly(t)
  BY <1>1 DEF Types, InfoOK, Inserted, Goto, Set, Quiet, Pure, Answer, Fields, Kept, Quietly, HeldPC
<1>3. GuardsKept(t, {})
  BY <1>1, <1>2, QuietFresh, SameGuards DEF Inserted, Pure, Quietly
<1>4. InfoOK(t)'
  BY <1>1, <1>2 DEF InfoOK, Kept, Fields
<1>5. LocalOK(t)'
  BY <1>1, <1>2, <1>3, SlotNames
     DEF LocalOK, PrevOK, StartOK, FirstOK, NewOK, InfoOK, Kept, Fields, GuardsKept, FindPC,
        PrevPC, CurPC, NextPC, ScanPC, Cur, New
<1>6. MineOK(t)'
  BY <1>1, <1>2 DEF MineOK, LocalOK, NewOK, Quietly, MinePC, FindPC, ScanPC, Kept, Fields,
     Inserted, Quiet, Pure
<1> QED
  BY <1>2, <1>3, <1>4, <1>5, <1>6, QuietStep

LEMMA MarkFailsInv ==
  ASSUME IInv, NEW t \in Thread, MarkFails(t)
  PROVE  IInv'
<1>1. Types /\ RTypeOK /\ InfoOK(t) /\ LocalOK(t) /\ MineOK(t)
  BY DEF IInv, Types
<1>2. /\ pc[t] = "mark" /\ pc'[t] = "enter"
      /\ Kept(t, {})
      /\ Quietly(t)
  BY <1>1 DEF Types, InfoOK, MarkFails, Goto, Set, Quiet, Pure, Fields, Kept, Quietly, HeldPC
<1>3. GuardsKept(t, {})
  BY <1>1, <1>2, QuietFresh, SameGuards DEF MarkFails, Pure, Quietly
<1>4. InfoOK(t)'
  BY <1>1, <1>2 DEF InfoOK, Kept, Fields
<1>5. LocalOK(t)'
  BY <1>1, <1>2, <1>3, SlotNames
     DEF LocalOK, PrevOK, StartOK, FirstOK, NewOK, InfoOK, Kept, Fields, GuardsKept, FindPC,
        PrevPC, CurPC, NextPC, ScanPC, Cur, New
<1>6. MineOK(t)'
  BY <1>1, <1>2 DEF MineOK, LocalOK, NewOK, Quietly, MinePC, FindPC, ScanPC, Kept, Fields,
     MarkFails, Quiet, Pure
<1> QED
  BY <1>2, <1>3, <1>4, <1>5, <1>6, QuietStep

LEMMA UnlinkFailsInv ==
  ASSUME IInv, NEW t \in Thread, UnlinkFails(t)
  PROVE  IInv'
<1>1. Types /\ RTypeOK /\ InfoOK(t) /\ LocalOK(t) /\ MineOK(t)
  BY DEF IInv, Types
<1>2. /\ pc[t] = "unlink" /\ pc'[t] = "enter"
      /\ Kept(t, {})
      /\ Quietly(t)
  BY <1>1 DEF Types, InfoOK, UnlinkFails, Goto, Set, Quiet, Pure, Fields, Kept, Quietly, HeldPC
<1>3. GuardsKept(t, {info[t].new}) /\ \A s \in {info[t].new} : slot'[t][s] = Null
  <2>1. {info[t].new} \in SUBSET Slot
    BY <1>1, SlotNames DEF InfoOK
  <2> QED
    BY <1>1, <1>2, <2>1, QuietFresh, ReleaseGuard DEF UnlinkFails, Quietly
<1>4. InfoOK(t)'
  BY <1>1, <1>2 DEF InfoOK, Kept, Fields
<1>5. LocalOK(t)'
  BY <1>1, <1>2, <1>3, SlotNames
     DEF LocalOK, PrevOK, StartOK, FirstOK, NewOK, InfoOK, Kept, Fields, GuardsKept, FindPC,
        PrevPC, CurPC, NextPC, ScanPC, Cur, New
<1>6. MineOK(t)'
  BY <1>1, <1>2 DEF MineOK, LocalOK, NewOK, Quietly, MinePC, FindPC, ScanPC, Kept, Fields,
     UnlinkFails, Quiet, Pure
<1> QED
  BY <1>2, <1>3, <1>4, <1>5, <1>6, QuietStep

LEMMA ItLoadInv ==
  ASSUME IInv, NEW t \in Thread, ItLoad(t)
  PROVE  IInv'
<1>1. Types /\ RTypeOK /\ InfoOK(t) /\ LocalOK(t) /\ MineOK(t)
  BY DEF IInv, Types
<1>2. /\ pc[t] \in {"it_load", "it_mark"}
      /\ pc'[t] = (IF next[Cur(t)].mark THEN "it_guard" ELSE "it_mark")
      /\ Kept(t, {"next", "then"}) /\ info'[t].next = Link(next[Cur(t)].ptr)
      /\ info'[t].then = "element_not_found"
      /\ Quietly(t)
  BY <1>1 DEF Types, InfoOK, ItLoad, Goto, Set, Quiet, Pure, Continue, Fields, Kept, Quietly, HeldPC
<1>3. GuardsKept(t, {})
  BY <1>1, <1>2, QuietFresh, SameGuards DEF ItLoad, Pure, Quietly
<1>7. next[Cur(t)] \in LinkType /\ Link(next[Cur(t)].ptr) \in LinkType
  BY <1>2, CurNode DEF CurPC, Link, LinkType
<1>4. InfoOK(t)'
  BY <1>1, <1>2, <1>7 DEF InfoOK, Kept, Fields
<1>5. LocalOK(t)'
  BY <1>1, <1>2, <1>3, SlotNames, <1>7
     DEF LocalOK, PrevOK, StartOK, FirstOK, NewOK, InfoOK, Kept, Fields, GuardsKept, FindPC,
        PrevPC, CurPC, NextPC, ScanPC, Cur, New, Quietly, Link
<1>6. MineOK(t)'
  BY <1>1, <1>2 DEF MineOK, LocalOK, NewOK, Quietly, MinePC, FindPC, ScanPC, Kept, Fields, ItLoad,
     Quiet, Pure
<1> QED
  BY <1>2, <1>3, <1>4, <1>5, <1>6, QuietStep

LEMMA ItGuardInv ==
  ASSUME IInv, NEW t \in Thread, ItGuard(t)
  PROVE  IInv'
<1>1. Types /\ RTypeOK /\ InfoOK(t) /\ LocalOK(t) /\ MineOK(t)
  BY DEF IInv, Types
<1>2. /\ pc[t] = "it_guard" /\ pc'[t] = "unlink"
      /\ Kept(t, {})
      /\ Quietly(t)
  BY <1>1 DEF Types, InfoOK, ItGuard, Goto, Set, Quiet, Pure, Fields, Kept, Quietly, HeldPC
<1>3. /\ GuardsKept(t, {info[t].new})
      /\ slot'[t][info[t].new] = info[t].next.ptr
      /\ (info[t].next.ptr \in Listed => <<t, info[t].new>> \in Safe')
  <2>1. info[t].next.ptr \in Node \union {Null} /\ info[t].new \in Slot
    BY <1>1, SlotNames DEF InfoOK, LinkType
  <2> QED
    BY <1>1, <1>2, <2>1, QuietFresh, PublishGuard DEF ItGuard, Quietly
<1>4. InfoOK(t)'
  BY <1>1, <1>2 DEF InfoOK, Kept, Fields
<1>5. LocalOK(t)'
  BY <1>1, <1>2, <1>3, SlotNames
     DEF LocalOK, PrevOK, StartOK, FirstOK, NewOK, InfoOK, Kept, Fields, GuardsKept, FindPC,
        PrevPC, CurPC, NextPC, ScanPC, Cur, New, Quietly
<1>6. MineOK(t)'
  BY <1>1, <1>2 DEF MineOK, LocalOK, NewOK, Quietly, MinePC, FindPC, ScanPC, Kept, Fields, ItGuard,
     Quiet, Pure
<1> QED
  BY <1>2, <1>3, <1>4, <1>5, <1>6, QuietStep

LEMMA CallInv ==
  ASSUME IInv, NEW t \in Thread, NEW c \in MapCalls, Call(t, c)
  PROVE  IInv'
<1>1. Types /\ RTypeOK /\ InfoOK(t) /\ LocalOK(t) /\ MineOK(t)
  BY DEF IInv, Types
<1>2. /\ pc[t] = "idle"
      /\ pc'[t] = (IF c.op = "insert" /\ c.how = "emplace" THEN "new" ELSE "first")
      /\ Kept(t, {"key", "bucket", "prev", "start"})
      /\ info'[t].bucket = BucketOf(c.key)
      /\ info'[t].prev = BucketOf(c.key)
      /\ info'[t].start = BucketOf(c.key)
      /\ call'[t] = c
      /\ Quietly(t)
  BY <1>1 DEF Types, InfoOK, Call, Goto, Set, Quiet, Pure, rvars, Fields, Kept, Quietly, HeldPC
<1>3. GuardsKept(t, {})
  BY <1>1, <1>2, QuietFresh, SameGuards DEF Call, Pure, rvars, Quietly
<1>7. BucketOf(c.key) \in Bucket
  BY HMCallAssumption, BucketOfType
<1>8. info[t].mine = Null /\ info[t].then = "call"
  BY <1>1, <1>2 DEF LocalOK, NoInfo
<1>4. InfoOK(t)'
  BY <1>1, <1>2, <1>7, BucketType DEF InfoOK, Kept, Fields
<1>5. LocalOK(t)'
  BY <1>1, <1>2, <1>3, SlotNames, <1>7, <1>8
     DEF LocalOK, PrevOK, StartOK, FirstOK, NewOK, InfoOK, Kept, Fields, GuardsKept, FindPC,
        PrevPC, CurPC, NextPC, ScanPC, Cur, New
<1>6. MineOK(t)'
  BY <1>1, <1>2, <1>8 DEF MineOK, MinePC, FindPC, Kept, Fields
<1> QED
  BY <1>2, <1>3, <1>4, <1>5, <1>6, QuietStep

LEMMA ReturnInv ==
  ASSUME IInv, NEW t \in Thread, Return(t)
  PROVE  IInv'
<1>1. Types /\ RTypeOK /\ InfoOK(t) /\ LocalOK(t) /\ MineOK(t)
  BY DEF IInv, Types
<1>2. /\ pc[t] = "done" /\ pc'[t] = "idle"
      /\ info'[t] = NoInfo
      /\ Quietly(t)
  BY <1>1 DEF Types, InfoOK, Return, Goto, Set, Quiet, Pure, MineOK, MinePC, FindPC, NoInfo,
     Fields, Kept, Quietly, HeldPC
<1>3. GuardsKept(t, Slot) /\ \A s \in Slot : slot'[t][s] = Null
  <2>1. Slot \in SUBSET Slot
    BY <1>1, SlotNames DEF InfoOK
  <2> QED
    BY <1>1, <1>2, <2>1, QuietFresh, ReleaseGuard DEF Return, Quietly
<1>7. NoInfo.bucket \in Bucket
  BY BucketType DEF NoInfo
<1>4. InfoOK(t)'
  BY <1>1, <1>2, BucketType DEF InfoOK, Kept, Fields, NoInfo, Names, LinkType, Link
<1>5. LocalOK(t)'
  BY <1>1, <1>2, <1>3, SlotNames, <1>7
     DEF LocalOK, PrevOK, StartOK, FirstOK, NewOK, InfoOK, Kept, Fields, GuardsKept, FindPC,
        PrevPC, CurPC, NextPC, ScanPC, Cur, New
<1>6. MineOK(t)'
  BY <1>1, <1>2 DEF MineOK, MinePC, FindPC, NoInfo
<1> QED
  BY <1>2, <1>3, <1>4, <1>5, <1>6, QuietStep

LEMMA ScanEndInv ==
  ASSUME IInv, NEW t \in Thread, ScanEnd(t)
  PROVE  IInv'
<1>1. Types /\ RTypeOK /\ InfoOK(t) /\ LocalOK(t) /\ MineOK(t)
  BY DEF IInv, Types
<1>2. /\ pc[t] = "end" /\ pc'[t] = "idle"
      /\ info'[t] = NoInfo
      /\ Quietly(t)
  BY <1>1 DEF Types, InfoOK, ScanEnd, Goto, Set, Quiet, Pure, MineOK, MinePC, FindPC, NoInfo,
     history, Fields, Kept, Quietly, HeldPC
<1>3. GuardsKept(t, Slot) /\ \A s \in Slot : slot'[t][s] = Null
  <2>1. Slot \in SUBSET Slot
    BY <1>1, SlotNames DEF InfoOK
  <2> QED
    BY <1>1, <1>2, <2>1, QuietFresh, ReleaseGuard DEF ScanEnd, Quietly
<1>7. NoInfo.bucket \in Bucket
  BY BucketType DEF NoInfo
<1>4. InfoOK(t)'
  BY <1>1, <1>2, BucketType DEF InfoOK, Kept, Fields, NoInfo, Names, LinkType, Link
<1>5. LocalOK(t)'
  BY <1>1, <1>2, <1>3, SlotNames, <1>7
     DEF LocalOK, PrevOK, StartOK, FirstOK, NewOK, InfoOK, Kept, Fields, GuardsKept, FindPC,
        PrevPC, CurPC, NextPC, ScanPC, Cur, New
<1>6. MineOK(t)'
  BY <1>1, <1>2 DEF MineOK, MinePC, FindPC, NoInfo
<1> QED
  BY <1>2, <1>3, <1>4, <1>5, <1>6, QuietStep

LEMMA ScanBeginInv ==
  ASSUME IInv, NEW t \in Thread, ScanBegin(t)
  PROVE  IInv'
<1>1. Types /\ RTypeOK /\ InfoOK(t) /\ LocalOK(t) /\ MineOK(t)
  BY DEF IInv, Types
<1>2. /\ pc[t] = "idle" /\ pc'[t] = "head"
      /\ Kept(t, {"then"}) /\ info'[t].then = "scan"
      /\ info[t] = NoInfo
      /\ Quietly(t)
  BY <1>1 DEF Types, InfoOK, ScanBegin, Goto, Set, Quiet, Pure, LocalOK, history, rvars, Fields,
     Kept, Quietly, HeldPC
<1>3. GuardsKept(t, {})
  BY <1>1, <1>2, QuietFresh, SameGuards DEF ScanBegin, Pure, rvars, Quietly
<1>4. InfoOK(t)'
  BY <1>1, <1>2 DEF InfoOK, Kept, Fields
<1>5. LocalOK(t)'
  BY <1>1, <1>2, <1>3, SlotNames, BucketType
     DEF LocalOK, PrevOK, StartOK, FirstOK, NewOK, InfoOK, Kept, Fields, GuardsKept, FindPC,
        PrevPC, CurPC, NextPC, ScanPC, Cur, New, NoInfo
<1>6. MineOK(t)'
  BY <1>1, <1>2 DEF MineOK, NoInfo, MinePC, FindPC, Kept, Fields
<1> QED
  BY <1>2, <1>3, <1>4, <1>5, <1>6, QuietStep

LEMMA HeadInv ==
  ASSUME IInv, NEW t \in Thread, Head(t)
  PROVE  IInv'
<1>1. Types /\ RTypeOK /\ InfoOK(t) /\ LocalOK(t) /\ MineOK(t)
  BY DEF IInv, Types
<1>2. /\ pc[t] = "head" /\ pc'[t] = (IF At(t).ptr = Null THEN "next_bucket" ELSE "head_check")
      /\ Kept(t, {})
      /\ Quietly(t)
  BY <1>1 DEF Types, InfoOK, Head, Goto, Set, Quiet, Pure, Continue, Fields, Kept, Quietly, HeldPC
<1>3. /\ GuardsKept(t, {info[t].cur})
      /\ slot'[t][info[t].cur] = At(t).ptr
      /\ (At(t).ptr \in Listed => <<t, info[t].cur>> \in Safe')
  <2>1. At(t).ptr \in Node \union {Null} /\ info[t].cur \in Slot
    BY <1>1, <1>2, PrevPlace, SlotNames DEF InfoOK, LinkType
  <2> QED
    BY <1>1, <1>2, <2>1, QuietFresh, PublishGuard DEF Head, Quietly
<1>4. InfoOK(t)'
  BY <1>1, <1>2 DEF InfoOK, Kept, Fields
<1>5. LocalOK(t)'
  BY <1>1, <1>2, <1>3, SlotNames
     DEF LocalOK, PrevOK, StartOK, FirstOK, NewOK, InfoOK, Kept, Fields, GuardsKept, FindPC,
        PrevPC, CurPC, NextPC, ScanPC, Cur, New
<1>6. MineOK(t)'
  BY <1>1, <1>2 DEF MineOK, LocalOK, NewOK, Quietly, MinePC, FindPC, ScanPC, Kept, Fields, Head,
     Quiet, Pure
<1> QED
  BY <1>2, <1>3, <1>4, <1>5, <1>6, QuietStep

LEMMA HeadCheckInv ==
  ASSUME IInv, NEW t \in Thread, HeadCheck(t)
  PROVE  IInv'
<1>1. Types /\ RTypeOK /\ InfoOK(t) /\ LocalOK(t) /\ MineOK(t)
  BY DEF IInv, Types
<1>2. /\ pc[t] = "head_check" /\ pc'[t] = (IF At(t).ptr = Cur(t) THEN "visit" ELSE "head")
      /\ Kept(t, {})
      /\ Quietly(t)
  BY <1>1 DEF Types, InfoOK, HeadCheck, Goto, Set, Quiet, Pure, Fields, Kept, Quietly, HeldPC
<1>3. GuardsKept(t, {})
  BY <1>1, <1>2, QuietFresh, SameGuards DEF HeadCheck, Pure, Quietly
<1>7. At(t).ptr = Cur(t) => <<t, info[t].cur>> \in Safe
  BY <1>1, <1>2, NextListed, ListedSafe, SlotNames DEF LocalOK, Source, At, Cur, InfoOK
<1>4. InfoOK(t)'
  BY <1>1, <1>2 DEF InfoOK, Kept, Fields
<1>5. LocalOK(t)'
  BY <1>1, <1>2, <1>3, SlotNames, <1>7
     DEF LocalOK, PrevOK, StartOK, FirstOK, NewOK, InfoOK, Kept, Fields, GuardsKept, FindPC,
        PrevPC, CurPC, NextPC, ScanPC, Cur, New
<1>6. MineOK(t)'
  BY <1>1, <1>2 DEF MineOK, LocalOK, NewOK, Quietly, MinePC, FindPC, ScanPC, Kept, Fields,
     HeadCheck, Quiet, Pure
<1> QED
  BY <1>2, <1>3, <1>4, <1>5, <1>6, QuietStep

LEMMA NextBucketInv ==
  ASSUME IInv, NEW t \in Thread, NextBucket(t)
  PROVE  IInv'
<1>1. Types /\ RTypeOK /\ InfoOK(t) /\ LocalOK(t) /\ MineOK(t)
  BY DEF IInv, Types
<1>2. /\ pc[t] = "next_bucket" /\ pc'[t] = (IF info[t].bucket < Buckets - 1 THEN "head" ELSE "end")
      /\ Kept(t, {"bucket", "prev"})
      /\ info'[t].bucket = info[t].bucket + 1
      /\ info'[t].prev = info[t].bucket + 1
      /\ Quietly(t)
  BY <1>1 DEF Types, InfoOK, NextBucket, Goto, Set, Quiet, Pure, Fields, Kept, Quietly, HeldPC
<1>3. GuardsKept(t, {info[t].save}) /\ \A s \in {info[t].save} : slot'[t][s] = Null
  <2>1. {info[t].save} \in SUBSET Slot
    BY <1>1, SlotNames DEF InfoOK
  <2> QED
    BY <1>1, <1>2, <2>1, QuietFresh, ReleaseGuard DEF NextBucket, Quietly
<1>7. info[t].bucket \in Bucket
  BY <1>1, <1>2 DEF LocalOK
<1>4. InfoOK(t)'
  BY <1>1, <1>2, <1>7, BucketType DEF InfoOK, Kept, Fields
<1>5. LocalOK(t)'
  BY <1>1, <1>2, <1>3, SlotNames, <1>7, BucketType
     DEF LocalOK, PrevOK, StartOK, FirstOK, NewOK, InfoOK, Kept, Fields, GuardsKept, FindPC,
        PrevPC, CurPC, NextPC, ScanPC, Cur, New
<1>6. MineOK(t)'
  BY <1>1, <1>2 DEF MineOK, LocalOK, NewOK, Quietly, MinePC, FindPC, ScanPC, Kept, Fields,
     NextBucket, Quiet, Pure
<1> QED
  BY <1>2, <1>3, <1>4, <1>5, <1>6, QuietStep

LEMMA VisitInv ==
  ASSUME IInv, NEW t \in Thread, Visit(t)
  PROVE  IInv'
<1>1. Types /\ RTypeOK /\ InfoOK(t) /\ LocalOK(t) /\ MineOK(t)
  BY DEF IInv, Types
<1>2. /\ pc[t] = "visit" /\ pc'[t] = "step"
      /\ Kept(t, {"key"})
      /\ Quietly(t)
  BY <1>1 DEF Types, InfoOK, Visit, Goto, Set, Quiet, Pure, rvars, history, Fields, Kept, Quietly,
     HeldPC
<1>3. GuardsKept(t, {})
  BY <1>1, <1>2, QuietFresh, SameGuards DEF Visit, Pure, rvars, Quietly
<1>4. InfoOK(t)'
  BY <1>1, <1>2 DEF InfoOK, Kept, Fields
<1>5. LocalOK(t)'
  BY <1>1, <1>2, <1>3, SlotNames
     DEF LocalOK, PrevOK, StartOK, FirstOK, NewOK, InfoOK, Kept, Fields, GuardsKept, FindPC,
        PrevPC, CurPC, NextPC, ScanPC, Cur, New
<1>6. MineOK(t)'
  BY <1>1, <1>2 DEF MineOK, LocalOK, NewOK, Quietly, MinePC, FindPC, ScanPC, Kept, Fields, Visit,
     Quiet, Pure
<1> QED
  BY <1>2, <1>3, <1>4, <1>5, <1>6, QuietStep

LEMMA StepInv ==
  ASSUME IInv, NEW t \in Thread, Step(t)
  PROVE  IInv'
<1>1. Types /\ RTypeOK /\ InfoOK(t) /\ LocalOK(t) /\ MineOK(t)
  BY DEF IInv, Types
<1>2. /\ pc[t] = "step" /\ pc'[t] = (IF next[Cur(t)].mark THEN "enter" ELSE "step_check")
      /\ Kept(t, {"next"}) /\ info'[t].next = next[Cur(t)]
      /\ Quietly(t)
  BY <1>1 DEF Types, InfoOK, Step, Goto, Set, Quiet, Pure, Fields, Kept, Quietly, HeldPC
<1>7. next[Cur(t)] \in LinkType
  BY <1>2, CurNode DEF CurPC
<1>3. /\ GuardsKept(t, {info[t].new})
      /\ ~next[Cur(t)].mark => slot'[t][info[t].new] = next[Cur(t)].ptr
  <2>1. CASE next[Cur(t)].mark
    <3>1. GuardsKept(t, {})
      BY <1>1, <1>2, <2>1, QuietFresh, SameGuards DEF Step, Quietly
    <3> QED
      BY <2>1, <3>1 DEF GuardsKept
  <2>2. CASE ~next[Cur(t)].mark
    <3>1. next[Cur(t)].ptr \in Node \union {Null} /\ info[t].new \in Slot
      BY <1>1, <1>7, SlotNames DEF InfoOK, LinkType
    <3> QED
      BY <1>1, <1>2, <2>2, <3>1, QuietFresh, PublishGuard DEF Step, Quietly
  <2> QED
    BY <2>1, <2>2
<1>4. InfoOK(t)'
  BY <1>1, <1>2, <1>7 DEF InfoOK, Kept, Fields
<1>5. LocalOK(t)'
  BY <1>1, <1>2, <1>3, SlotNames
     DEF LocalOK, PrevOK, StartOK, FirstOK, NewOK, InfoOK, Kept, Fields, GuardsKept, FindPC,
        PrevPC, CurPC, NextPC, ScanPC, Cur, New
<1>6. MineOK(t)'
  BY <1>1, <1>2 DEF MineOK, LocalOK, NewOK, Quietly, MinePC, FindPC, ScanPC, Kept, Fields, Step,
     Quiet, Pure
<1> QED
  BY <1>2, <1>3, <1>4, <1>5, <1>6, QuietStep

LEMMA StepCheckFailsInv ==
  ASSUME IInv, NEW t \in Thread, StepCheckFails(t)
  PROVE  IInv'
<1>1. Types /\ RTypeOK /\ InfoOK(t) /\ LocalOK(t) /\ MineOK(t)
  BY DEF IInv, Types
<1>2. /\ pc[t] = "step_check" /\ pc'[t] = "enter"
      /\ Kept(t, {})
      /\ Quietly(t)
  BY <1>1 DEF Types, InfoOK, StepCheckFails, Goto, Set, Quiet, Pure, Fields, Kept, Quietly, HeldPC
<1>3. GuardsKept(t, {info[t].new}) /\ \A s \in {info[t].new} : slot'[t][s] = Null
  <2>1. {info[t].new} \in SUBSET Slot
    BY <1>1, SlotNames DEF InfoOK
  <2> QED
    BY <1>1, <1>2, <2>1, QuietFresh, ReleaseGuard DEF StepCheckFails, Quietly
<1>4. InfoOK(t)'
  BY <1>1, <1>2 DEF InfoOK, Kept, Fields
<1>5. LocalOK(t)'
  BY <1>1, <1>2, <1>3, SlotNames
     DEF LocalOK, PrevOK, StartOK, FirstOK, NewOK, InfoOK, Kept, Fields, GuardsKept, FindPC,
        PrevPC, CurPC, NextPC, ScanPC, Cur, New
<1>6. MineOK(t)'
  BY <1>1, <1>2 DEF MineOK, LocalOK, NewOK, Quietly, MinePC, FindPC, ScanPC, Kept, Fields,
     StepCheckFails, Quiet, Pure
<1> QED
  BY <1>2, <1>3, <1>4, <1>5, <1>6, QuietStep

LEMMA StepCheckInv ==
  ASSUME IInv, NEW t \in Thread, StepCheck(t)
  PROVE  IInv'
<1>1. Types /\ RTypeOK /\ InfoOK(t) /\ LocalOK(t) /\ MineOK(t)
  BY DEF IInv, Types
<1>2. /\ pc[t] = "step_check"
      /\ pc'[t] = (IF info[t].next.ptr = Null THEN "next_bucket" ELSE "visit")
      /\ Kept(t, {"prev", "save", "cur", "new"})
      /\ info'[t].prev = Cur(t)
      /\ info'[t].save = info[t].cur
      /\ info'[t].cur = info[t].new /\ info'[t].new = info[t].save
      /\ next[Cur(t)] = info[t].next
      /\ Quietly(t)
  BY <1>1 DEF Types, InfoOK, StepCheck, Goto, Set, Quiet, Pure, Fields, Kept, Quietly, HeldPC
<1>3. GuardsKept(t, {info[t].save}) /\ \A s \in {info[t].save} : slot'[t][s] = Null
  <2>1. {info[t].save} \in SUBSET Slot
    BY <1>1, SlotNames DEF InfoOK
  <2> QED
    BY <1>1, <1>2, <2>1, QuietFresh, ReleaseGuard DEF StepCheck, Quietly
<1>7. Cur(t) \in Node
  BY <1>2, CurNode DEF CurPC
<1>8. info[t].next.ptr # Null => <<t, info[t].new>> \in Safe
  <2>1. Cur(t) \in Source
    BY <1>1, <1>2, SafeListed, SlotNames DEF LocalOK, CurPC, NextPC, InfoOK, Cur, Source
  <2> QED
    BY <1>1, <1>2, <2>1, NextListed, ListedSafe, SlotNames DEF LocalOK, InfoOK, New
<1>4. InfoOK(t)'
  BY <1>1, <1>2, <1>7 DEF InfoOK, Kept, Fields
<1>5. LocalOK(t)'
  BY <1>1, <1>2, <1>3, SlotNames, <1>8
     DEF LocalOK, PrevOK, StartOK, FirstOK, NewOK, InfoOK, Kept, Fields, GuardsKept, FindPC,
        PrevPC, CurPC, NextPC, ScanPC, Cur, New
<1>6. MineOK(t)'
  BY <1>1, <1>2 DEF MineOK, LocalOK, NewOK, Quietly, MinePC, FindPC, ScanPC, Kept, Fields,
     StepCheck, Quiet, Pure
<1> QED
  BY <1>2, <1>3, <1>4, <1>5, <1>6, QuietStep

LEMMA ValidateInv ==
  ASSUME IInv, NEW t \in Thread, Validate(t)
  PROVE  IInv'
<1>1. Types /\ RTypeOK /\ InfoOK(t) /\ LocalOK(t) /\ MineOK(t)
  BY DEF IInv, Types
<1>2. /\ pc[t] = "validate" /\ pc'[t] = (IF At(t) = info[t].next THEN "load" ELSE "retry")
      /\ Kept(t, {})
      /\ Quietly(t)
  BY <1>1 DEF Types, InfoOK, Validate, Goto, Set, Quiet, Pure, Fields, Kept, Quietly, HeldPC
<1>3. /\ GuardsKept(t, {info[t].cur})
      /\ At(t) = info[t].next => GuardsKept(t, {})
  <2>1. CASE At(t) = info[t].next
    <3>1. GuardsKept(t, {})
      BY <1>1, <1>2, <2>1, QuietFresh, SameGuards DEF Validate, Quietly
    <3> QED
      BY <3>1 DEF GuardsKept
  <2>2. CASE At(t) # info[t].next
    <3>1. {info[t].cur} \in SUBSET Slot
      BY <1>1, SlotNames DEF InfoOK
    <3> QED
      BY <1>1, <1>2, <2>2, <3>1, QuietFresh, ReleaseGuard DEF Validate, Quietly
  <2> QED
    BY <2>1, <2>2
\* The link that is read again leads to a node in a list.
<1>7. At(t) = info[t].next => <<t, info[t].cur>> \in Safe
  <2>1. At(t) = info[t].next => info[t].prev \in Source
    BY <1>1, <1>2, PrevSource DEF LocalOK, NextPC, PrevPC, FindPC
  <2> QED
    BY <1>1, <1>2, <2>1, NextListed, ListedSafe, SlotNames DEF LocalOK, InfoOK, Cur, At
<1>4. InfoOK(t)'
  BY <1>1, <1>2 DEF InfoOK, Kept, Fields
<1>5. LocalOK(t)'
  BY <1>1, <1>2, <1>3, SlotNames, <1>7
     DEF LocalOK, PrevOK, StartOK, FirstOK, NewOK, InfoOK, Kept, Fields, GuardsKept, FindPC,
        PrevPC, CurPC, NextPC, ScanPC, Cur, New
<1>6. MineOK(t)'
  BY <1>1, <1>2 DEF MineOK, LocalOK, NewOK, Quietly, MinePC, FindPC, ScanPC, Kept, Fields,
     Validate, Quiet, Pure
<1> QED
  BY <1>2, <1>3, <1>4, <1>5, <1>6, QuietStep

\* Where a thread goes when its search is over
LEMMA OutcomeCases ==
  ASSUME NEW t \in Thread, NEW found \in BOOLEAN, Outcome(t, found), DOMAIN pc = Thread
  PROVE  /\ DOMAIN pc' = Thread /\ \A u \in Thread \ {t} : pc'[u] = pc[u]
         /\ \/ /\ info[t].then = "scan"
               /\ pc'[t] = (IF pc[t] = "acquire" THEN "next_bucket" ELSE "visit")
            \/ pc'[t] = "done" /\ (info[t].then = "call" => call[t].op # "insert")
            \/ info[t].then = "call" /\ found /\ call[t].op # "remove" /\ pc'[t] = "use"
            \/ /\ info[t].then = "call" /\ found /\ call[t].op = "remove"
               /\ pc'[t] \in {"mark", "it_load"}
            \/ /\ info[t].then = "call" /\ ~found /\ call[t].op = "insert"
               /\ pc'[t] = (IF info[t].mine = Null THEN "new" ELSE "link")
BY DEF Outcome, Continue, Answer

LEMMA AcquireNullInv ==
  ASSUME IInv, NEW t \in Thread, AcquireNull(t)
  PROVE  IInv'
<1>1. Types /\ RTypeOK /\ InfoOK(t) /\ LocalOK(t) /\ MineOK(t)
  BY DEF IInv, Types
<1>2. /\ pc[t] = "acquire" /\ status' = status /\ next' = next /\ info' = info /\ call' = call
      /\ \/ pc' = [pc EXCEPT ![t] = "retry"] /\ Release(t, {info[t].cur})
         \/ Outcome(t, FALSE) /\ Release(t, {info[t].cur, "start"})
  BY DEF AcquireNull, Continue, Quiet
<1>3. /\ pc'[t] \in {"retry", "next_bucket", "done", "new", "link"}
      /\ pc'[t] = "next_bucket" => info[t].then = "scan"
      /\ pc'[t] = "done" /\ info[t].then = "call" => call[t].op # "insert"
      /\ pc'[t] \in {"new", "link"} => info[t].then = "call" /\ call[t].op = "insert"
      /\ pc'[t] = "new" => info[t].mine = Null
      /\ pc'[t] = "link" => info[t].mine # Null
      /\ DOMAIN pc' = Thread /\ \A u \in Thread \ {t} : pc'[u] = pc[u]
  BY <1>1, <1>2, OutcomeCases DEF Types
<1>7. Quietly(t) /\ Kept(t, {})
  BY <1>1, <1>2, <1>3 DEF Quietly, Types, Kept, InfoOK, HeldPC
<1>8. /\ GuardsKept(t, {info[t].cur, "start"})
      /\ pc'[t] = "retry" => GuardsKept(t, {info[t].cur})
  <2>1. {info[t].cur} \in SUBSET Slot /\ {info[t].cur, "start"} \in SUBSET Slot
    BY <1>1, SlotNames DEF InfoOK
  <2>2. CASE pc' = [pc EXCEPT ![t] = "retry"] /\ Release(t, {info[t].cur})
    <3>1. GuardsKept(t, {info[t].cur})
      BY <1>1, <1>2, <1>7, <2>1, <2>2, QuietFresh, ReleaseGuard
    <3> QED
      BY <3>1 DEF GuardsKept
  <2>3. CASE Outcome(t, FALSE) /\ Release(t, {info[t].cur, "start"})
    <3>1. pc'[t] # "retry"
      BY <1>1, <1>2, <2>3, OutcomeCases DEF Types
    <3> QED
      BY <1>1, <1>2, <1>7, <2>1, <2>3, <3>1, QuietFresh, ReleaseGuard
  <2> QED
    BY <1>2, <2>2, <2>3
<1>4. InfoOK(t)'
  BY <1>1, <1>2 DEF InfoOK
<1>5. LocalOK(t)'
  BY <1>1, <1>2, <1>3, <1>8, SlotNames
     DEF LocalOK, MineOK, PrevOK, StartOK, NewOK, InfoOK, GuardsKept, FindPC, MinePC, PrevPC,
        CurPC, NextPC, ScanPC
<1>6. MineOK(t)'
  BY <1>1, <1>2, <1>3 DEF MineOK, MinePC, FindPC
<1> QED
  BY <1>4, <1>5, <1>6, <1>7, <1>8, QuietStep

LEMMA CheckInv ==
  ASSUME IInv, NEW t \in Thread, Check(t)
  PROVE  IInv'
<1> DEFINE k == data[Cur(t)].key
           found == (k = info[t].key)
<1>1. Types /\ RTypeOK /\ InfoOK(t) /\ LocalOK(t) /\ MineOK(t)
  BY DEF IInv, Types
<1>2. pc[t] = "check" /\ status' = status /\ next' = next /\ call' = call
  BY DEF Check, Quiet
\* The search starts again, or goes on with the next node, or ends here.
<1>3. \/ pc' = [pc EXCEPT ![t] = "retry"] /\ UNCHANGED <<slot, pinned, info>>
      \/ /\ pc' = [pc EXCEPT ![t] = "acquire"] /\ UNCHANGED <<slot, pinned>>
         /\ Set(t, [prev |-> Cur(t), cur |-> info[t].save, save |-> info[t].cur])
      \/ Outcome(t, found) /\ Release(t, {"start"}) /\ UNCHANGED info
  BY DEF Check, Compare, Continue
<1>4. CASE pc' = [pc EXCEPT ![t] = "retry"] /\ UNCHANGED <<slot, pinned, info>>
  <2>1. pc'[t] = "retry" /\ info'[t] = info[t] /\ Quietly(t)
    BY <1>1, <1>2, <1>4 DEF Quietly, Types, HeldPC
  <2>2. GuardsKept(t, {})
    BY <1>1, <1>2, <1>4, <2>1, QuietFresh, SameGuards
  <2>3. InfoOK(t)'
    BY <1>1, <2>1 DEF InfoOK
  <2>4. LocalOK(t)'
    BY <1>1, <1>2, <2>1, <2>2, SlotNames
       DEF LocalOK, StartOK, GuardsKept, FindPC, PrevPC, CurPC, NextPC, ScanPC
  <2>5. MineOK(t)'
    BY <1>1, <1>2, <1>4, <2>1 DEF MineOK, MinePC, FindPC
  <2> QED
    BY <2>1, <2>2, <2>3, <2>4, <2>5, QuietStep
<1>5. CASE /\ pc' = [pc EXCEPT ![t] = "acquire"] /\ UNCHANGED <<slot, pinned>>
           /\ Set(t, [prev |-> Cur(t), cur |-> info[t].save, save |-> info[t].cur])
  <2>1. /\ pc'[t] = "acquire" /\ Kept(t, {"prev", "cur", "save"}) /\ info'[t].prev = Cur(t)
        /\ info'[t].cur = info[t].save /\ info'[t].save = info[t].cur /\ Quietly(t)
    BY <1>1, <1>2, <1>5 DEF Quietly, Types, HeldPC, Set, Kept, Fields, InfoOK
  <2>2. GuardsKept(t, {})
    BY <1>1, <1>2, <1>5, <2>1, QuietFresh, SameGuards
  <2>3. Cur(t) \in Node
    BY <1>2, CurNode DEF CurPC
  <2>4. InfoOK(t)'
    BY <1>1, <2>1, <2>3 DEF InfoOK, Kept, Fields
  <2>5. LocalOK(t)'
    BY <1>1, <1>2, <2>1, <2>2, SlotNames
       DEF LocalOK, PrevOK, StartOK, InfoOK, Kept, Fields, GuardsKept, FindPC, PrevPC, CurPC,
          NextPC, ScanPC, Cur
  <2>6. MineOK(t)'
    BY <1>1, <1>2, <2>1 DEF MineOK, MinePC, FindPC, Kept, Fields, Quietly
  <2> QED
    BY <2>1, <2>2, <2>4, <2>5, <2>6, QuietStep
<1>6. CASE Outcome(t, found) /\ Release(t, {"start"}) /\ UNCHANGED info
  <2>1. /\ pc'[t] \in {"visit", "done", "use", "mark", "it_load", "new", "link"}
        /\ pc'[t] = "visit" => info[t].then = "scan"
        /\ pc'[t] = "done" /\ info[t].then = "call" => call[t].op # "insert"
        /\ pc'[t] \in {"mark", "it_load"} => info[t].then = "call" /\ call[t].op = "remove"
        /\ pc'[t] \in {"new", "link"} => info[t].then = "call" /\ call[t].op = "insert"
        /\ pc'[t] = "new" => info[t].mine = Null
        /\ pc'[t] = "link" => info[t].mine # Null
        /\ DOMAIN pc' = Thread /\ \A u \in Thread \ {t} : pc'[u] = pc[u]
    <3>1. found \in BOOLEAN
      OBVIOUS
    <3> HIDE DEF found
    <3> QED
      BY <1>1, <1>2, <1>6, <3>1, OutcomeCases DEF Types
  <2>2. Quietly(t) /\ info'[t] = info[t]
    BY <1>1, <1>2, <1>6, <2>1 DEF Quietly, Types, HeldPC
  <2>3. GuardsKept(t, {"start"})
    <3>1. {"start"} \in SUBSET Slot
      BY SlotNames
    <3> QED
      BY <1>1, <1>2, <1>6, <2>2, <3>1, QuietFresh, ReleaseGuard
  <2>4. InfoOK(t)'
    BY <1>1, <2>2 DEF InfoOK
  <2>5. LocalOK(t)'
    BY <1>1, <1>2, <2>1, <2>2, <2>3, SlotNames
       DEF LocalOK, MineOK, PrevOK, NewOK, InfoOK, GuardsKept, FindPC, MinePC, PrevPC, CurPC,
          NextPC, ScanPC
  <2>6. MineOK(t)'
    BY <1>1, <1>2, <2>1, <2>2 DEF MineOK, MinePC, FindPC, Quietly
  <2> QED
    BY <2>2, <2>3, <2>4, <2>5, <2>6, QuietStep
<1> QED
  BY <1>3, <1>4, <1>5, <1>6
-----------------------------------------------------------------------------
(* Steps that change nodes or lists                                        *)

LEMMA ListSame ==
  ASSUME ListOK, Listed' = Listed, \A l \in Source : next'[l].ptr = next[l].ptr,
         \A b \in Bucket : next'[b].mark = next[b].mark
  PROVE  ListOK'
<1>1. Source' = Source
  BY DEF Source
<1> QED
  BY <1>1 DEF ListOK

\* A thread that does not move keeps what it relies on.
LEMMA OtherThread ==
  ASSUME IInv, NEW u \in Thread,
         pc'[u] = pc[u], info'[u] = info[u], slot'[u] = slot[u], call'[u] = call[u],
         \A s \in Slot : <<u, s>> \in Safe =>
             <<u, s>> \in Safe' /\ (next[slot[u][s]].mark => next'[slot[u][s]] = next[slot[u][s]])
  PROVE  LocalOK(u)' /\ InfoOK(u)' /\ Cur(u)' = Cur(u)
<1>1. LocalOK(u) /\ InfoOK(u)
  BY DEF IInv, Types
<1> QED
  BY <1>1, OtherLocal DEF InfoOK, Cur

\* What fresh and held nodes are: live, and not in a list
LEMMA OwnedNodes ==
  ASSUME IInv
  PROVE  /\ \A n \in FreshNodes : status[n] = "live" /\ ~next[n].mark
         /\ \A n \in HeldNodes : status[n] = "live" /\ next[n].mark
         /\ \A t \in Thread : info[t].mine # Null => info[t].mine \in FreshNodes
         /\ \A t \in Thread : pc[t] \in HeldPC => Cur(t) \in HeldNodes
         /\ FreshNodes \subseteq Node /\ HeldNodes \subseteq Node /\ Listed \subseteq Node
         /\ \A n \in Node : n \notin Bucket /\ n # Null
<1>1. \A n \in FreshNodes : status[n] = "live" /\ ~next[n].mark
  BY NullAssumption DEF IInv, MineOK, FreshNodes
<1>2. \A n \in HeldNodes : status[n] = "live" /\ next[n].mark
  BY DEF IInv, HeldOK, HeldNodes, Cur
<1>3. \A t \in Thread : info[t].mine # Null => info[t].mine \in FreshNodes
  BY DEF IInv, Types, InfoOK, FreshNodes
<1>4. \A t \in Thread : pc[t] \in HeldPC => Cur(t) \in HeldNodes
  BY DEF IInv, HeldOK, HeldNodes, Cur
<1> QED
  BY <1>1, <1>2, <1>3, <1>4, BucketType, NullAssumption DEF FreshNodes, HeldNodes, Listed

LEMMA NewNodeEffect ==
  ASSUME IInv, NEW t \in Thread, NewNode(t), NEW n \in Node, Allocate(n), Store(n, Link(Null)),
         Set(t, [mine |-> n])
  PROVE  /\ pc[t] = "new" /\ pc'[t] = (IF call[t].how = "emplace" THEN "first" ELSE "link")
         /\ DOMAIN pc' = Thread /\ DOMAIN info' = Thread /\ call' = call
         /\ \A u \in Thread \ {t} : pc'[u] = pc[u] /\ info'[u] = info[u]
         /\ Kept(t, {"mine"}) /\ info'[t].mine = n
         /\ slot' = slot /\ pinned' = pinned
         /\ status[n] = "free" /\ \A m \in Node : status'[m] = (IF m = n THEN "live" ELSE status[m])
         /\ next' \in [Place -> LinkType]
         /\ \A l \in Place : next'[l] = (IF l = n THEN Link(Null) ELSE next[l])
         /\ RTypeOK'
         /\ info[t].mine = Null /\ NewOK(t)
         /\ FreshNodes' = FreshNodes \union {n} /\ n \notin FreshNodes
         /\ HeldNodes' = HeldNodes
         /\ Listed' = Listed /\ n \notin Source
         /\ \A g \in Safe : g \in Safe' /\ slot[g[1]][g[2]] \in Node \ {n}
<1>1. Types /\ RTypeOK /\ InfoOK(t) /\ LocalOK(t) /\ MineOK(t)
  BY DEF IInv, Types
<1>3. /\ pc[t] = "new" /\ pc'[t] = (IF call[t].how = "emplace" THEN "first" ELSE "link")
      /\ DOMAIN pc' = Thread /\ DOMAIN info' = Thread /\ call' = call
      /\ \A u \in Thread \ {t} : pc'[u] = pc[u] /\ info'[u] = info[u]
      /\ Kept(t, {"mine"}) /\ info'[t].mine = n
      /\ slot' = slot /\ pinned' = pinned
  BY <1>1 DEF NewNode, Goto, Set, history, Types, InfoOK, Fields, Kept
<1>4. /\ status[n] = "free" /\ \A m \in Node : status'[m] = (IF m = n THEN "live" ELSE status[m])
      /\ next' \in [Place -> LinkType]
      /\ \A l \in Place : next'[l] = (IF l = n THEN Link(Null) ELSE next[l])
      /\ RTypeOK'
  BY <1>1, <1>3 DEF Allocate, Store, RTypeOK, Types, Place, LinkType, Link
<1>5. info[t].mine = Null /\ NewOK(t)
  BY <1>1, <1>3 DEF LocalOK, NewOK
<1>6. FreshNodes' = FreshNodes \union {n} /\ n \notin FreshNodes
  BY <1>3, <1>4, <1>5, OwnedNodes, NullAssumption DEF FreshNodes
<1>7. HeldNodes' = HeldNodes
  BY <1>3 DEF HeldNodes, HeldPC
<1>8. Listed' = Listed /\ n \notin Source
  BY <1>4, <1>6, <1>7, OwnedNodes DEF Listed, Source
<1>11. \A g \in Safe : g \in Safe' /\ slot[g[1]][g[2]] \in Node \ {n}
  BY <1>3, <1>4, <1>6 DEF Safe
<1> QED
  BY <1>3, <1>4, <1>5, <1>6, <1>7, <1>8, <1>11

LEMMA NewNodeInv ==
  ASSUME IInv, NEW t \in Thread, NewNode(t)
  PROVE  IInv'
<1>1. Types /\ RTypeOK /\ InfoOK(t) /\ LocalOK(t) /\ MineOK(t)
  BY DEF IInv, Types
<1>2. PICK n \in Node : Allocate(n) /\ Store(n, Link(Null)) /\ Set(t, [mine |-> n])
  BY DEF NewNode
<1>3. /\ pc[t] = "new" /\ pc'[t] = (IF call[t].how = "emplace" THEN "first" ELSE "link")
      /\ DOMAIN pc' = Thread /\ DOMAIN info' = Thread /\ call' = call
      /\ \A u \in Thread \ {t} : pc'[u] = pc[u] /\ info'[u] = info[u]
      /\ Kept(t, {"mine"}) /\ info'[t].mine = n
      /\ slot' = slot /\ pinned' = pinned
  BY <1>2, NewNodeEffect
<1>4. /\ status[n] = "free" /\ \A m \in Node : status'[m] = (IF m = n THEN "live" ELSE status[m])
      /\ next' \in [Place -> LinkType]
      /\ \A l \in Place : next'[l] = (IF l = n THEN Link(Null) ELSE next[l])
      /\ RTypeOK'
  BY <1>2, NewNodeEffect
<1>5. info[t].mine = Null /\ NewOK(t)
  BY <1>2, NewNodeEffect
<1>6. FreshNodes' = FreshNodes \union {n} /\ n \notin FreshNodes
  BY <1>2, NewNodeEffect
<1>7. HeldNodes' = HeldNodes
  BY <1>2, NewNodeEffect
<1>8. Listed' = Listed /\ n \notin Source
  BY <1>2, NewNodeEffect
<1>9. ListOK'
  BY <1>4, <1>8, ListSame, OwnedNodes DEF IInv, Source, Place
<1>10. RetiredOK'
  BY <1>3, <1>4 DEF IInv, RetiredOK, Place
<1>11. \A g \in Safe : g \in Safe' /\ slot[g[1]][g[2]] \in Node \ {n}
  BY <1>2, NewNodeEffect
<1>12. ASSUME NEW u \in Thread, u # t PROVE MineOK(u)' /\ HeldOK(u)' /\ LocalOK(u)' /\ InfoOK(u)'
  <2>1. MineOK(u) /\ HeldOK(u) /\ LocalOK(u) /\ InfoOK(u)
    BY DEF IInv, Types
  <2>2. LocalOK(u)' /\ InfoOK(u)' /\ Cur(u)' = Cur(u)
    BY <1>3, <1>4, <1>11, <1>12, OtherThread DEF Place
  <2>3. info[u].mine # Null => info[u].mine \in Node \ {n}
    BY <1>6, <2>1, OwnedNodes DEF InfoOK
  <2>4. MineOK(u)'
    BY <1>3, <1>4, <1>12, <2>1, <2>3 DEF MineOK, Place
  <2>5. HeldOK(u)'
    BY <1>3, <1>4, <1>6, <1>12, <2>1, <2>2 DEF HeldOK, HeldPC, Place, Cur
  <2> QED
    BY <2>2, <2>4, <2>5
<1>13. InfoOK(t)'
  BY <1>1, <1>3 DEF InfoOK, Kept, Fields
<1>14. LocalOK(t)'
  BY <1>1, <1>3, <1>5, <1>11
     DEF LocalOK, NewOK, PrevOK, FirstOK, Kept, Fields, FindPC, PrevPC, CurPC, NextPC, ScanPC
<1>15. MineOK(t)'
  <2>1. \A u \in Thread \ {t} : info[u].mine # n
    BY <1>6, OwnedNodes
  <2> QED
    BY <1>3, <1>4, <1>5, <2>1, OwnedNodes
         DEF MineOK, NewOK, Kept, Fields, MinePC, FindPC, Place, Link
<1>16. HeldOK(t)'
  BY <1>3 DEF HeldOK, HeldPC
<1> QED
  BY <1>3, <1>4, <1>9, <1>10, <1>12, <1>13, <1>14, <1>15, <1>16 DEF IInv, Types

LEMMA LinkNodeEffect ==
  ASSUME IInv, NEW t \in Thread, LinkNode(t)
  PROVE  LET n == info[t].mine
             s == IF call[t].how = "emplace" THEN info[t].new ELSE info[t].cur IN
      /\ Types /\ RTypeOK /\ InfoOK(t) /\ LocalOK(t) /\ MineOK(t)
      /\ /\ pc[t] = "link" /\ pc' = [pc EXCEPT ![t] = "insert"]
         /\ info' = info /\ call' = call /\ status' = status
         /\ Publish(t, s, n) /\ next' = [next EXCEPT ![n] = Link(Cur(t))]
      /\ n \in Node /\ n \in FreshNodes /\ s \in Slot /\ Cur(t) \in Node \union {Null}
      /\ /\ next' \in [Place -> LinkType]
         /\ \A l \in Place : next'[l] = (IF l = n THEN Link(Cur(t)) ELSE next[l])
      /\ FreshNodes' = FreshNodes
      /\ GuardsKept(t, {s}) /\ slot'[t][s] = n
      /\ HeldNodes' = HeldNodes
      /\ Listed' = Listed /\ n \notin Source
      /\ \A u \in Thread \ {t}, x \in Slot : <<u, x>> \in Safe =>
            <<u, x>> \in Safe' /\ slot[u][x] \in Node \ {n}
<1> DEFINE n == info[t].mine
           s == IF call[t].how = "emplace" THEN info[t].new ELSE info[t].cur
<1>1. Types /\ RTypeOK /\ InfoOK(t) /\ LocalOK(t) /\ MineOK(t)
  BY DEF IInv, Types
<1>2. /\ pc[t] = "link" /\ pc' = [pc EXCEPT ![t] = "insert"]
      /\ info' = info /\ call' = call /\ status' = status
      /\ Publish(t, s, n) /\ next' = [next EXCEPT ![n] = Link(Cur(t))]
  BY DEF LinkNode, Goto, Store, Quiet
<1>3. n \in Node /\ n \in FreshNodes /\ s \in Slot /\ Cur(t) \in Node \union {Null}
  BY <1>1, <1>2, OwnedNodes, SlotNames DEF MineOK, InfoOK, RTypeOK, Cur
<1>4. /\ next' \in [Place -> LinkType]
      /\ \A l \in Place : next'[l] = (IF l = n THEN Link(Cur(t)) ELSE next[l])
  BY <1>1, <1>2, <1>3 DEF Types, Place, LinkType, Link
<1>5. FreshNodes' = FreshNodes
  BY <1>2 DEF FreshNodes
<1>6. GuardsKept(t, {s}) /\ slot'[t][s] = n
  <2> HIDE DEF s, n
  <2> QED
    BY <1>1, <1>2, <1>3, <1>5, PublishGuard
<1>7. HeldNodes' = HeldNodes
  BY <1>1, <1>2, <1>6 DEF HeldNodes, HeldPC, GuardsKept, Types
<1>8. Listed' = Listed /\ n \notin Source
  BY <1>2, <1>3, <1>5, <1>7, OwnedNodes DEF Listed, Source
<1>11. \A u \in Thread \ {t}, x \in Slot : <<u, x>> \in Safe =>
          <<u, x>> \in Safe' /\ slot[u][x] \in Node \ {n}
  BY <1>2, <1>3, <1>5, <1>6 DEF Safe, GuardsKept, Guard
<1> QED
  BY <1>1, <1>2, <1>3, <1>4, <1>5, <1>6, <1>7, <1>8, <1>11

LEMMA LinkNodeInv ==
  ASSUME IInv, NEW t \in Thread, LinkNode(t)
  PROVE  IInv'
<1> DEFINE n == info[t].mine
           s == IF call[t].how = "emplace" THEN info[t].new ELSE info[t].cur
<1>1. Types /\ RTypeOK /\ InfoOK(t) /\ LocalOK(t) /\ MineOK(t)
  BY LinkNodeEffect
<1>2. /\ pc[t] = "link" /\ pc' = [pc EXCEPT ![t] = "insert"]
      /\ info' = info /\ call' = call /\ status' = status
      /\ Publish(t, s, n) /\ next' = [next EXCEPT ![n] = Link(Cur(t))]
  BY LinkNodeEffect
<1>3. n \in Node /\ n \in FreshNodes /\ s \in Slot /\ Cur(t) \in Node \union {Null}
  BY LinkNodeEffect
<1>4. /\ next' \in [Place -> LinkType]
      /\ \A l \in Place : next'[l] = (IF l = n THEN Link(Cur(t)) ELSE next[l])
  BY LinkNodeEffect
<1>5. FreshNodes' = FreshNodes
  BY LinkNodeEffect
<1>6. GuardsKept(t, {s}) /\ slot'[t][s] = n
  BY LinkNodeEffect
<1>7. HeldNodes' = HeldNodes
  BY LinkNodeEffect
<1>8. Listed' = Listed /\ n \notin Source
  BY LinkNodeEffect
<1>9. ListOK'
  BY <1>4, <1>8, ListSame, OwnedNodes DEF IInv, Source, Place
<1>10. RetiredOK'
  BY <1>1, <1>2, <1>3, <1>4, OwnedNodes DEF IInv, RetiredOK, Place, Types
<1>11. \A u \in Thread \ {t}, x \in Slot : <<u, x>> \in Safe =>
          <<u, x>> \in Safe' /\ slot[u][x] \in Node \ {n}
  BY LinkNodeEffect
<1>12. ASSUME NEW u \in Thread, u # t PROVE MineOK(u)' /\ HeldOK(u)' /\ LocalOK(u)' /\ InfoOK(u)'
  <2>1. MineOK(u) /\ HeldOK(u) /\ LocalOK(u) /\ InfoOK(u) /\ pc'[u] = pc[u]
    BY <1>2, <1>12 DEF IInv, Types
  <2>2. LocalOK(u)' /\ InfoOK(u)' /\ Cur(u)' = Cur(u)
    BY <1>2, <1>4, <1>6, <1>11, <1>12, <2>1, OtherThread DEF GuardsKept, Place
  <2>3. info[u].mine # Null => info[u].mine \in Node \ {n}
    BY <1>12, <2>1 DEF InfoOK, MineOK
  <2>4. MineOK(u)'
    BY <1>2, <1>4, <2>1, <2>3 DEF MineOK, Place
  <2>5. HeldOK(u)'
    <3>1. \A w \in Thread \ {u} : pc'[w] \in HeldPC => pc[w] \in HeldPC /\ Cur(w)' = Cur(w)
      BY <1>1, <1>2, <1>6 DEF Types, HeldPC, Cur, GuardsKept
    <3> QED
      BY <1>2, <1>3, <1>4, <1>5, <2>1, <2>2, <3>1 DEF HeldOK, Place
  <2> QED
    BY <2>2, <2>4, <2>5
<1>13. InfoOK(t)'
  BY <1>1, <1>2 DEF InfoOK
<1>14. LocalOK(t)'
  BY <1>1, <1>2, <1>6, SlotNames
     DEF Types, InfoOK, LocalOK, PrevOK, GuardsKept, FindPC, PrevPC, CurPC, NextPC, ScanPC
<1>15. MineOK(t)'
  BY <1>1, <1>2, <1>3, <1>4 DEF MineOK, MinePC, FindPC, Place, Link, Types
<1>16. HeldOK(t)'
  BY <1>1, <1>2 DEF HeldOK, HeldPC, Types
<1>17. Types'
  BY <1>1, <1>2, <1>4, <1>6, <1>12, <1>13 DEF Types, GuardsKept
<1> QED
  BY <1>9, <1>10, <1>12, <1>14, <1>15, <1>16, <1>17 DEF IInv

\* The new node is in the list, and no longer the secret of its thread.
LEMMA InsertCasEffect ==
  ASSUME IInv, NEW t \in Thread, InsertCas(t)
  PROVE  LET n == info[t].mine
             p == info[t].prev IN
      /\ Types /\ RTypeOK /\ InfoOK(t) /\ LocalOK(t) /\ MineOK(t) /\ ListOK
      /\ /\ pc[t] = "insert" /\ pc'[t] = "inserted"
         /\ DOMAIN pc' = Thread /\ DOMAIN info' = Thread /\ call' = call
         /\ \A u \in Thread \ {t} : pc'[u] = pc[u] /\ info'[u] = info[u]
         /\ Kept(t, {"mine", "cur", "new"}) /\ info'[t].mine = Null
         /\ info'[t].cur = (IF call[t].how = "emplace" THEN info[t].new ELSE info[t].cur)
         /\ info'[t].new = (IF call[t].how = "emplace" THEN info[t].cur ELSE info[t].new)
         /\ status' = status /\ slot' = slot /\ pinned' = pinned
         /\ At(t) = next[n] /\ next' = [next EXCEPT ![p] = Link(n)]
      /\ n \in Node /\ n \in FreshNodes /\ ~next[n].mark /\ slot[t][info'[t].cur] = n
      /\ p \in Source /\ p \in Place /\ p # n /\ n \notin Source
      /\ /\ next' \in [Place -> LinkType]
         /\ \A l \in Place : next'[l] = (IF l = p THEN Link(n) ELSE next[l])
      /\ FreshNodes' = FreshNodes \ {n}
      /\ HeldNodes' = HeldNodes
      /\ Listed' = Listed \union {n} /\ Source' = Source \union {n} /\ Source' \subseteq Place
      /\ \A g \in Safe : g \in Safe'
<1> DEFINE n == info[t].mine
           p == info[t].prev
<1>1. Types /\ RTypeOK /\ InfoOK(t) /\ LocalOK(t) /\ MineOK(t) /\ ListOK
  BY DEF IInv, Types
<1>2. /\ pc[t] = "insert" /\ pc'[t] = "inserted"
      /\ DOMAIN pc' = Thread /\ DOMAIN info' = Thread /\ call' = call
      /\ \A u \in Thread \ {t} : pc'[u] = pc[u] /\ info'[u] = info[u]
      /\ Kept(t, {"mine", "cur", "new"}) /\ info'[t].mine = Null
      /\ info'[t].cur = (IF call[t].how = "emplace" THEN info[t].new ELSE info[t].cur)
      /\ info'[t].new = (IF call[t].how = "emplace" THEN info[t].cur ELSE info[t].new)
      /\ status' = status /\ slot' = slot /\ pinned' = pinned
      /\ At(t) = next[n] /\ next' = [next EXCEPT ![p] = Link(n)]
  BY <1>1 DEF InsertCas, Effect, Goto, Set, Store, rvars, Types, InfoOK, Fields, Kept
<1>3. n \in Node /\ n \in FreshNodes /\ ~next[n].mark /\ slot[t][info'[t].cur] = n
  BY <1>1, <1>2, OwnedNodes DEF MineOK, InfoOK, LocalOK
<1>4. p \in Source /\ p \in Place /\ p # n /\ n \notin Source
  BY <1>2, <1>3, PrevSource, PrevPlace, OwnedNodes DEF PrevPC, Listed, Source
<1>5. /\ next' \in [Place -> LinkType]
      /\ \A l \in Place : next'[l] = (IF l = p THEN Link(n) ELSE next[l])
  BY <1>1, <1>2, <1>3, <1>4 DEF Types, LinkType, Link
<1>6. FreshNodes' = FreshNodes \ {n}
  BY <1>1, <1>2, <1>3, NullAssumption DEF FreshNodes, IInv, MineOK
<1>7. HeldNodes' = HeldNodes
  BY <1>2 DEF HeldNodes, HeldPC
<1>8. Listed' = Listed \union {n} /\ Source' = Source \union {n} /\ Source' \subseteq Place
  BY <1>2, <1>3, <1>6, <1>7, OwnedNodes DEF Listed, Source, Place
<1>11. \A g \in Safe : g \in Safe'
  BY <1>2, <1>6 DEF Safe
<1> QED
  BY <1>1, <1>2, <1>3, <1>4, <1>5, <1>6, <1>7, <1>8, <1>11

LEMMA InsertCasInv ==
  ASSUME IInv, NEW t \in Thread, InsertCas(t)
  PROVE  IInv'
<1> DEFINE n == info[t].mine
           p == info[t].prev
<1>1. Types /\ RTypeOK /\ InfoOK(t) /\ LocalOK(t) /\ MineOK(t) /\ ListOK
  BY InsertCasEffect
<1>2. /\ pc[t] = "insert" /\ pc'[t] = "inserted"
      /\ DOMAIN pc' = Thread /\ DOMAIN info' = Thread /\ call' = call
      /\ \A u \in Thread \ {t} : pc'[u] = pc[u] /\ info'[u] = info[u]
      /\ Kept(t, {"mine", "cur", "new"}) /\ info'[t].mine = Null
      /\ info'[t].cur = (IF call[t].how = "emplace" THEN info[t].new ELSE info[t].cur)
      /\ info'[t].new = (IF call[t].how = "emplace" THEN info[t].cur ELSE info[t].new)
      /\ status' = status /\ slot' = slot /\ pinned' = pinned
      /\ At(t) = next[n] /\ next' = [next EXCEPT ![p] = Link(n)]
  BY InsertCasEffect
<1>3. n \in Node /\ n \in FreshNodes /\ ~next[n].mark /\ slot[t][info'[t].cur] = n
  BY InsertCasEffect
<1>4. p \in Source /\ p \in Place /\ p # n /\ n \notin Source
  BY InsertCasEffect
<1>5. /\ next' \in [Place -> LinkType]
      /\ \A l \in Place : next'[l] = (IF l = p THEN Link(n) ELSE next[l])
  BY InsertCasEffect
<1>6. FreshNodes' = FreshNodes \ {n}
  BY InsertCasEffect
<1>7. HeldNodes' = HeldNodes
  BY InsertCasEffect
<1>8. Listed' = Listed \union {n} /\ Source' = Source \union {n} /\ Source' \subseteq Place
  BY InsertCasEffect
<1>9. ListOK'
  <2>1. next[n].ptr = next[p].ptr /\ (next[p].ptr # Null => next[p].ptr \in Listed)
    BY <1>1, <1>2, <1>4 DEF At, ListOK
  <2>2. next[n].ptr # n /\ \A l \in Source : next[l].ptr # n
    BY <1>1, <1>3, <1>4, <2>1, OwnedNodes DEF ListOK, Source
  <2>3. \A l \in Source' : next'[l].ptr # Null => next'[l].ptr \in Listed'
    BY <1>1, <1>3, <1>4, <1>5, <1>8, <2>1 DEF ListOK, Link
  <2>4. \A l \in Source' : next'[l].ptr = (IF l = p THEN n ELSE next[l].ptr)
    BY <1>5, <1>8 DEF Link
  <2>5. \A l, m \in Source' : next'[l].ptr = next'[m].ptr /\ next'[l].ptr # Null => l = m
    <3> SUFFICES ASSUME NEW l \in Source', NEW m \in Source', next'[l].ptr = next'[m].ptr,
                        next'[l].ptr # Null
                 PROVE  l = m
      OBVIOUS
    <3>1. CASE l = p \/ m = p
      BY <1>4, <1>8, <2>2, <2>4, <3>1
    <3>2. CASE l # p /\ m # p
      <4>1. next[l].ptr = next[m].ptr /\ next[l].ptr # Null
        BY <2>4, <3>2
      <4>2. CASE l \in Source /\ m \in Source
        BY <1>1, <4>1, <4>2 DEF ListOK
      <4>3. CASE l = n /\ m \in Source
        BY <1>1, <1>4, <2>1, <3>2, <4>1, <4>3 DEF ListOK
      <4>4. CASE m = n /\ l \in Source
        BY <1>1, <1>4, <2>1, <3>2, <4>1, <4>4 DEF ListOK
      <4> QED
        BY <1>8, <4>2, <4>3, <4>4
    <3> QED
      BY <3>1, <3>2
  <2>6. \A b \in Bucket : ~next'[b].mark
    BY <1>1, <1>5 DEF ListOK, Link, Place
  <2> QED
    BY <2>3, <2>5, <2>6 DEF ListOK
<1>10. RetiredOK'
  <2>1. ASSUME NEW m \in Node, status[m] = "retired" PROVE m # p
    BY <1>4, <2>1, OwnedNodes DEF Source, Listed
  <2> QED
    BY <1>2, <1>5, <2>1 DEF IInv, RetiredOK, Place
<1>11. \A g \in Safe : g \in Safe'
  BY InsertCasEffect
<1>12. ASSUME NEW u \in Thread, u # t PROVE MineOK(u)' /\ HeldOK(u)' /\ LocalOK(u)' /\ InfoOK(u)'
  <2>1. MineOK(u) /\ HeldOK(u) /\ LocalOK(u) /\ InfoOK(u)
    BY DEF IInv, Types
  <2>2. \A l \in Place : next[l].mark => next'[l] = next[l]
    BY <1>2, <1>3, <1>5 DEF At
  <2>3. LocalOK(u)' /\ InfoOK(u)' /\ Cur(u)' = Cur(u)
    <3>1. \A s \in Slot : <<u, s>> \in Safe => slot[u][s] \in Place
      BY DEF Safe, Place
    <3> QED
      BY <1>2, <1>11, <1>12, <2>2, <3>1, OtherThread
  <2>4. info[u].mine # Null => info[u].mine \in Node \ {p}
    BY <1>4, <2>1, OwnedNodes DEF Source, Listed
  <2>5. MineOK(u)'
    BY <1>2, <1>3, <1>5, <1>12, <2>1, <2>4, OwnedNodes DEF MineOK, Place
  <2>6. HeldOK(u)'
    BY <1>2, <1>6, <1>12, <2>1, <2>2, <2>3 DEF HeldOK, HeldPC, Place, Cur
  <2> QED
    BY <2>3, <2>5, <2>6
<1>13. InfoOK(t)'
  BY <1>1, <1>2 DEF InfoOK, Kept, Fields
<1>14. LocalOK(t)'
  <2>1. <<t, info'[t].cur>> \in Safe'
    BY <1>2, <1>3, <1>6, <1>13, OwnedNodes, SlotNames DEF Safe, Guard, InfoOK
  <2> QED
    BY <1>1, <1>2, <2>1 DEF LocalOK, Kept, Fields, FindPC, PrevPC, CurPC, NextPC, ScanPC
<1>15. MineOK(t)' /\ HeldOK(t)'
  BY <1>2 DEF MineOK, HeldOK, HeldPC, MinePC, FindPC
<1>16. Types'
  BY <1>1, <1>2, <1>5, <1>12, <1>13 DEF Types, RTypeOK
<1> QED
  BY <1>9, <1>10, <1>12, <1>14, <1>15, <1>16 DEF IInv

\* An insert that finds its key deletes its node, which nobody else has seen.
LEMMA UseEffect ==
  ASSUME IInv, NEW t \in Thread, Use(t)
  PROVE  LET n == info[t].mine IN
      /\ Types /\ RTypeOK /\ InfoOK(t) /\ LocalOK(t) /\ MineOK(t)
      /\ /\ pc[t] = "use" /\ pc'[t] = "done"
         /\ DOMAIN pc' = Thread /\ DOMAIN info' = Thread /\ call' = call
         /\ \A u \in Thread \ {t} : pc'[u] = pc[u] /\ info'[u] = info[u]
         /\ Kept(t, {"mine"}) /\ info'[t].mine = Null
         /\ slot' = slot /\ pinned' = pinned /\ next' = next
         /\ status' = [m \in Node |-> IF m = n THEN "free" ELSE status[m]]
      /\ n \in Node => n \in FreshNodes
      /\ FreshNodes' = FreshNodes \ {n}
      /\ HeldNodes' = HeldNodes
      /\ Listed' = Listed
      /\ \A g \in Safe : g \in Safe'
<1> DEFINE n == info[t].mine
<1>1. Types /\ RTypeOK /\ InfoOK(t) /\ LocalOK(t) /\ MineOK(t)
  BY DEF IInv, Types
<1>2. /\ pc[t] = "use" /\ pc'[t] = "done"
      /\ DOMAIN pc' = Thread /\ DOMAIN info' = Thread /\ call' = call
      /\ \A u \in Thread \ {t} : pc'[u] = pc[u] /\ info'[u] = info[u]
      /\ Kept(t, {"mine"}) /\ info'[t].mine = Null
      /\ slot' = slot /\ pinned' = pinned /\ next' = next
      /\ status' = [m \in Node |-> IF m = n THEN "free" ELSE status[m]]
  BY <1>1 DEF Use, Answer, Set, Types, InfoOK, Fields, Kept
<1>3. n \in Node => n \in FreshNodes
  BY NullAssumption, OwnedNodes
<1>4. FreshNodes' = FreshNodes \ {n}
  BY <1>1, <1>2, <1>3, NullAssumption DEF FreshNodes, IInv, MineOK
<1>5. HeldNodes' = HeldNodes
  BY <1>2 DEF HeldNodes, HeldPC
<1>6. Listed' = Listed
  BY <1>2, <1>3, <1>4, <1>5 DEF Listed
<1>9. \A g \in Safe : g \in Safe'
  BY <1>2, <1>3, <1>4 DEF Safe
<1> QED
  BY <1>1, <1>2, <1>3, <1>4, <1>5, <1>6, <1>9

LEMMA UseInv ==
  ASSUME IInv, NEW t \in Thread, Use(t)
  PROVE  IInv'
<1> DEFINE n == info[t].mine
<1>1. Types /\ RTypeOK /\ InfoOK(t) /\ LocalOK(t) /\ MineOK(t)
  BY UseEffect
<1>2. /\ pc[t] = "use" /\ pc'[t] = "done"
      /\ DOMAIN pc' = Thread /\ DOMAIN info' = Thread /\ call' = call
      /\ \A u \in Thread \ {t} : pc'[u] = pc[u] /\ info'[u] = info[u]
      /\ Kept(t, {"mine"}) /\ info'[t].mine = Null
      /\ slot' = slot /\ pinned' = pinned /\ next' = next
      /\ status' = [m \in Node |-> IF m = n THEN "free" ELSE status[m]]
  BY UseEffect
<1>3. n \in Node => n \in FreshNodes
  BY UseEffect
<1>4. FreshNodes' = FreshNodes \ {n}
  BY UseEffect
<1>5. HeldNodes' = HeldNodes
  BY UseEffect
<1>6. Listed' = Listed
  BY UseEffect
<1>7. ListOK'
  BY <1>2, <1>6, ListSame DEF IInv
<1>8. RetiredOK'
  BY <1>2 DEF IInv, RetiredOK
<1>9. \A g \in Safe : g \in Safe'
  BY UseEffect
<1>10. ASSUME NEW u \in Thread, u # t PROVE MineOK(u)' /\ HeldOK(u)' /\ LocalOK(u)' /\ InfoOK(u)'
  <2>1. MineOK(u) /\ HeldOK(u) /\ LocalOK(u) /\ InfoOK(u)
    BY DEF IInv, Types
  <2>2. LocalOK(u)' /\ InfoOK(u)' /\ Cur(u)' = Cur(u)
    BY <1>2, <1>9, <1>10, OtherThread
  <2>3. MineOK(u)'
    BY <1>2, <1>10, <2>1, OwnedNodes DEF MineOK
  <2>4. HeldOK(u)'
    BY <1>2, <1>3, <1>4, <1>10, <2>1, <2>2 DEF HeldOK, HeldPC, Cur
  <2> QED
    BY <2>2, <2>3, <2>4
<1>11. InfoOK(t)'
  BY <1>1, <1>2 DEF InfoOK, Kept, Fields
<1>12. LocalOK(t)'
  BY <1>1, <1>2 DEF LocalOK, Kept, Fields, FindPC, PrevPC, CurPC, NextPC, ScanPC
<1>13. MineOK(t)' /\ HeldOK(t)'
  BY <1>2 DEF MineOK, HeldOK, HeldPC, MinePC, FindPC
<1>14. Types'
  BY <1>1, <1>2, <1>10, <1>11 DEF Types, RTypeOK
<1> QED
  BY <1>7, <1>8, <1>10, <1>12, <1>13, <1>14 DEF IInv

\* A node that is marked stays in its list.
LEMMA MarkedEffect ==
  ASSUME IInv, NEW t \in Thread, Mark(t) \/ ItMark(t)
  PROVE  LET n == Cur(t) IN
      /\ Types /\ RTypeOK /\ InfoOK(t) /\ LocalOK(t) /\ MineOK(t)
      /\ /\ \/ pc[t] = "mark" /\ pc'[t] = "unlink"
            \/ pc[t] = "it_mark" /\ pc'[t] = "it_guard"
         /\ DOMAIN pc' = Thread /\ DOMAIN info' = Thread /\ call' = call
         /\ \A u \in Thread \ {t} : pc'[u] = pc[u] /\ info'[u] = info[u]
         /\ Kept(t, {"then"}) /\ info'[t].then = "success"
         /\ status' = status /\ slot' = slot /\ pinned' = pinned
         /\ next[n] = info[t].next /\ next' = [next EXCEPT ![n] = Marked(info[t].next)]
      /\ n \in Node /\ n \notin FreshNodes /\ ~next[n].mark
      /\ /\ next' \in [Place -> LinkType]
         /\ \A l \in Place : next'[l].ptr = next[l].ptr /\ (l # n => next'[l] = next[l])
         /\ next'[n].mark /\ next'[n].ptr = info[t].next.ptr
      /\ FreshNodes' = FreshNodes /\ HeldNodes' = HeldNodes
      /\ Listed' = Listed
      /\ \A g \in Safe : g \in Safe'
<1> DEFINE n == Cur(t)
<1>1. Types /\ RTypeOK /\ InfoOK(t) /\ LocalOK(t) /\ MineOK(t)
  BY DEF IInv, Types
<1>2. /\ \/ pc[t] = "mark" /\ pc'[t] = "unlink"
         \/ pc[t] = "it_mark" /\ pc'[t] = "it_guard"
      /\ DOMAIN pc' = Thread /\ DOMAIN info' = Thread /\ call' = call
      /\ \A u \in Thread \ {t} : pc'[u] = pc[u] /\ info'[u] = info[u]
      /\ Kept(t, {"then"}) /\ info'[t].then = "success"
      /\ status' = status /\ slot' = slot /\ pinned' = pinned
      /\ next[n] = info[t].next /\ next' = [next EXCEPT ![n] = Marked(info[t].next)]
  BY <1>1 DEF Mark, ItMark, Effect, Goto, Set, Store, rvars, Types, InfoOK, Fields, Kept
<1>3. n \in Node /\ n \notin FreshNodes /\ ~next[n].mark
  BY <1>1, <1>2, CurNode DEF CurPC, LocalOK, NextPC
<1>4. /\ next' \in [Place -> LinkType]
      /\ \A l \in Place : next'[l].ptr = next[l].ptr /\ (l # n => next'[l] = next[l])
      /\ next'[n].mark /\ next'[n].ptr = info[t].next.ptr
  BY <1>1, <1>2, <1>3 DEF Types, InfoOK, Place, LinkType, Marked
<1>5. FreshNodes' = FreshNodes /\ HeldNodes' = HeldNodes
  BY <1>1, <1>2 DEF FreshNodes, HeldNodes, HeldPC, Kept, Fields
<1>6. Listed' = Listed
  BY <1>2, <1>5 DEF Listed
<1>9. \A g \in Safe : g \in Safe'
  BY <1>2, <1>5 DEF Safe
<1> QED
  BY <1>1, <1>2, <1>3, <1>4, <1>5, <1>6, <1>9

LEMMA MarkedInv ==
  ASSUME IInv, NEW t \in Thread, Mark(t) \/ ItMark(t)
  PROVE  IInv'
<1> DEFINE n == Cur(t)
<1>1. Types /\ RTypeOK /\ InfoOK(t) /\ LocalOK(t) /\ MineOK(t)
  BY MarkedEffect
<1>2. /\ \/ pc[t] = "mark" /\ pc'[t] = "unlink"
         \/ pc[t] = "it_mark" /\ pc'[t] = "it_guard"
      /\ DOMAIN pc' = Thread /\ DOMAIN info' = Thread /\ call' = call
      /\ \A u \in Thread \ {t} : pc'[u] = pc[u] /\ info'[u] = info[u]
      /\ Kept(t, {"then"}) /\ info'[t].then = "success"
      /\ status' = status /\ slot' = slot /\ pinned' = pinned
      /\ next[n] = info[t].next /\ next' = [next EXCEPT ![n] = Marked(info[t].next)]
  BY MarkedEffect
<1>3. n \in Node /\ n \notin FreshNodes /\ ~next[n].mark
  BY MarkedEffect
<1>4. /\ next' \in [Place -> LinkType]
      /\ \A l \in Place : next'[l].ptr = next[l].ptr /\ (l # n => next'[l] = next[l])
      /\ next'[n].mark /\ next'[n].ptr = info[t].next.ptr
  BY MarkedEffect
<1>5. FreshNodes' = FreshNodes /\ HeldNodes' = HeldNodes
  BY MarkedEffect
<1>6. Listed' = Listed
  BY MarkedEffect
<1>7. ListOK'
  BY <1>3, <1>4, <1>6, ListSame, OwnedNodes DEF IInv, Source, Place
<1>8. RetiredOK'
  BY <1>2, <1>4 DEF IInv, RetiredOK, Place
<1>9. \A g \in Safe : g \in Safe'
  BY MarkedEffect
<1>10. ASSUME NEW u \in Thread, u # t PROVE MineOK(u)' /\ HeldOK(u)' /\ LocalOK(u)' /\ InfoOK(u)'
  <2>1. MineOK(u) /\ HeldOK(u) /\ LocalOK(u) /\ InfoOK(u)
    BY DEF IInv, Types
  <2>2. \A l \in Place : next[l].mark => next'[l] = next[l]
    BY <1>3, <1>4
  <2>3. LocalOK(u)' /\ InfoOK(u)' /\ Cur(u)' = Cur(u)
    <3>1. \A s \in Slot : <<u, s>> \in Safe => slot[u][s] \in Place
      BY DEF Safe, Place
    <3> QED
      BY <1>2, <1>9, <1>10, <2>2, <3>1, OtherThread
  <2>4. info[u].mine # Null => info[u].mine \in Node \ {n}
    BY <1>3, <2>1, OwnedNodes
  <2>5. MineOK(u)'
    BY <1>2, <1>4, <1>10, <2>1, <2>4 DEF MineOK, Place, Kept, Fields
  <2>6. HeldOK(u)'
    BY <1>2, <1>5, <1>10, <2>1, <2>2, <2>3 DEF HeldOK, HeldPC, Place, Cur
  <2> QED
    BY <2>3, <2>5, <2>6
<1>11. InfoOK(t)'
  BY <1>1, <1>2 DEF InfoOK, Kept, Fields
<1>12. LocalOK(t)'
  <2>1. Cur(t)' = n
    BY <1>2 DEF Cur, Kept, Fields
  <2> HIDE DEF n
  <2> QED
    BY <1>1, <1>2, <1>4, <1>9, <2>1
       DEF LocalOK, PrevOK, Kept, Fields, FindPC, PrevPC, CurPC, NextPC, ScanPC
<1>13. MineOK(t)' /\ HeldOK(t)'
  BY <1>1, <1>2 DEF MineOK, HeldOK, HeldPC, MinePC, FindPC, Kept, Fields
<1>14. Types'
  BY <1>1, <1>2, <1>4, <1>10, <1>11 DEF Types, RTypeOK
<1> QED
  BY <1>7, <1>8, <1>10, <1>12, <1>13, <1>14 DEF IInv

\* The links are injective: who cuts a marked node out has it alone.
LEMMA CutEffect ==
  ASSUME IInv, NEW t \in Thread, Splice(t) \/ Unlink(t)
  PROVE  LET n == Cur(t)
             p == info[t].prev IN
      /\ Types /\ RTypeOK /\ InfoOK(t) /\ LocalOK(t) /\ MineOK(t) /\ ListOK
      /\ /\ \/ pc[t] = "splice" /\ pc'[t] = "retire"
            \/ pc[t] = "unlink" /\ pc'[t] = "reclaim"
         /\ DOMAIN pc' = Thread /\ info' = info /\ call' = call
         /\ \A u \in Thread \ {t} : pc'[u] = pc[u]
         /\ status' = status /\ slot' = slot /\ pinned' = pinned
         /\ At(t) = Link(n) /\ next' = [next EXCEPT ![p] = info[t].next]
      /\ n \in Node /\ n \notin FreshNodes /\ next[n].mark /\ ~info[t].next.mark
         /\ next[n].ptr = info[t].next.ptr
      /\ p \in Source /\ p \in Place /\ next[p].ptr = n /\ ~next[p].mark /\ p # n
      /\ n \in Listed /\ n \notin HeldNodes /\ status[n] = "live" /\ n \in Source
      /\ /\ next' \in [Place -> LinkType]
         /\ \A l \in Place : next'[l] = (IF l = p THEN info[t].next ELSE next[l])
      /\ FreshNodes' = FreshNodes /\ HeldNodes' = HeldNodes \union {n}
      /\ Listed' = Listed \ {n} /\ Source' = Source \ {n} /\ Source \subseteq Place
      /\ \A g \in Safe : g \in Safe'
      /\ \A l \in Place : next[l].mark => next'[l] = next[l]
<1> DEFINE n == Cur(t)
           p == info[t].prev
<1>1. Types /\ RTypeOK /\ InfoOK(t) /\ LocalOK(t) /\ MineOK(t) /\ ListOK
  BY DEF IInv, Types
<1>2. /\ \/ pc[t] = "splice" /\ pc'[t] = "retire"
         \/ pc[t] = "unlink" /\ pc'[t] = "reclaim"
      /\ DOMAIN pc' = Thread /\ info' = info /\ call' = call
      /\ \A u \in Thread \ {t} : pc'[u] = pc[u]
      /\ status' = status /\ slot' = slot /\ pinned' = pinned
      /\ At(t) = Link(n) /\ next' = [next EXCEPT ![p] = info[t].next]
  BY <1>1 DEF Splice, Unlink, Goto, Store, Quiet, Types
<1>3. n \in Node /\ n \notin FreshNodes /\ next[n].mark /\ ~info[t].next.mark
      /\ next[n].ptr = info[t].next.ptr
  BY <1>1, <1>2, CurNode DEF CurPC, LocalOK, NextPC
<1>4. p \in Source /\ p \in Place /\ next[p].ptr = n /\ ~next[p].mark /\ p # n
  BY <1>2, <1>3, PrevSource, PrevPlace DEF PrevPC, FindPC, At, Link
<1>5. n \in Listed /\ n \notin HeldNodes /\ status[n] = "live" /\ n \in Source
  BY <1>3, <1>4, NextListed, OwnedNodes DEF Listed, Source
<1>6. /\ next' \in [Place -> LinkType]
      /\ \A l \in Place : next'[l] = (IF l = p THEN info[t].next ELSE next[l])
  BY <1>1, <1>2, <1>4 DEF Types, InfoOK
<1>7. FreshNodes' = FreshNodes /\ HeldNodes' = HeldNodes \union {n}
  <2>1. FreshNodes' = FreshNodes
    BY <1>2 DEF FreshNodes
  <2>2. \A m \in Node : m \in HeldNodes' <=> m \in HeldNodes \/ m = n
    BY <1>2 DEF HeldNodes, HeldPC, Cur
  <2> QED
    BY <1>3, <2>1, <2>2 DEF HeldNodes
<1>8. Listed' = Listed \ {n} /\ Source' = Source \ {n} /\ Source \subseteq Place
  BY <1>2, <1>3, <1>7, OwnedNodes DEF Listed, Source, Place
<1>11. \A g \in Safe : g \in Safe'
  BY <1>2, <1>7 DEF Safe
<1>12. \A l \in Place : next[l].mark => next'[l] = next[l]
  BY <1>4, <1>6
<1> QED
  BY <1>1, <1>2, <1>3, <1>4, <1>5, <1>6, <1>7, <1>8, <1>11, <1>12

LEMMA CutInv ==
  ASSUME IInv, NEW t \in Thread, Splice(t) \/ Unlink(t)
  PROVE  IInv'
<1> DEFINE n == Cur(t)
           p == info[t].prev
<1>1. Types /\ RTypeOK /\ InfoOK(t) /\ LocalOK(t) /\ MineOK(t) /\ ListOK
  BY CutEffect
<1>2. /\ \/ pc[t] = "splice" /\ pc'[t] = "retire"
         \/ pc[t] = "unlink" /\ pc'[t] = "reclaim"
      /\ DOMAIN pc' = Thread /\ info' = info /\ call' = call
      /\ \A u \in Thread \ {t} : pc'[u] = pc[u]
      /\ status' = status /\ slot' = slot /\ pinned' = pinned
      /\ At(t) = Link(n) /\ next' = [next EXCEPT ![p] = info[t].next]
  BY CutEffect
<1>3. n \in Node /\ n \notin FreshNodes /\ next[n].mark /\ ~info[t].next.mark
      /\ next[n].ptr = info[t].next.ptr
  BY CutEffect
<1>4. p \in Source /\ p \in Place /\ next[p].ptr = n /\ ~next[p].mark /\ p # n
  BY CutEffect
<1>5. n \in Listed /\ n \notin HeldNodes /\ status[n] = "live" /\ n \in Source
  BY CutEffect
<1>6. /\ next' \in [Place -> LinkType]
      /\ \A l \in Place : next'[l] = (IF l = p THEN info[t].next ELSE next[l])
  BY CutEffect
<1>7. FreshNodes' = FreshNodes /\ HeldNodes' = HeldNodes \union {n}
  BY CutEffect
<1>8. Listed' = Listed \ {n} /\ Source' = Source \ {n} /\ Source \subseteq Place
  BY CutEffect
<1>9. ListOK'
  <2> HIDE DEF n
  <2>1. \A l \in Source' : next'[l].ptr = (IF l = p THEN next[n].ptr ELSE next[l].ptr)
    BY <1>3, <1>6, <1>8
  <2>2. \A l \in Source : next[l].ptr = n => l = p
    BY <1>1, <1>3, <1>4, OwnedNodes DEF ListOK
  <2>3. \A l \in Source' : next'[l].ptr # Null => next'[l].ptr \in Listed'
    <3> SUFFICES ASSUME NEW l \in Source', next'[l].ptr # Null PROVE next'[l].ptr \in Listed'
      OBVIOUS
    <3>1. CASE l = p
      BY <1>1, <1>4, <1>5, <1>8, <2>1, <2>2, <3>1 DEF ListOK
    <3>2. CASE l # p
      BY <1>1, <1>8, <2>1, <2>2, <3>2 DEF ListOK
    <3> QED
      BY <3>1, <3>2
  <2>4. \A l, m \in Source' : next'[l].ptr = next'[m].ptr /\ next'[l].ptr # Null => l = m
    <3> SUFFICES ASSUME NEW l \in Source', NEW m \in Source', next'[l].ptr = next'[m].ptr,
                        next'[l].ptr # Null
                 PROVE  l = m
      OBVIOUS
    <3>1. CASE l = p /\ m # p
      <4>1. next[n].ptr = next[m].ptr /\ next[n].ptr # Null
        BY <2>1, <3>1
      <4>2. n = m
        BY <1>1, <1>5, <1>8, <4>1 DEF ListOK
      <4> QED
        BY <1>8, <4>2
    <3>2. CASE m = p /\ l # p
      <4>1. next[n].ptr = next[l].ptr /\ next[n].ptr # Null
        BY <2>1, <3>2
      <4>2. n = l
        BY <1>1, <1>5, <1>8, <4>1 DEF ListOK
      <4> QED
        BY <1>8, <4>2
    <3>3. CASE l # p /\ m # p
      BY <1>1, <1>8, <2>1, <3>3 DEF ListOK
    <3> QED
      BY <3>1, <3>2, <3>3
  <2>5. \A b \in Bucket : ~next'[b].mark
    BY <1>1, <1>3, <1>6 DEF ListOK, Place
  <2> QED
    BY <2>3, <2>4, <2>5 DEF ListOK
<1>10. RetiredOK'
  <2>1. ASSUME NEW m \in Node, status[m] = "retired" PROVE m # p
    BY <1>4, <2>1, OwnedNodes DEF Source, Listed
  <2>2. pc[t] # "gone" /\ pc'[t] # "gone"
    BY <1>2
  <2> QED
    BY <1>2, <1>6, <2>1, <2>2 DEF IInv, RetiredOK, Place
<1>11. \A g \in Safe : g \in Safe'
  BY CutEffect
<1>12. \A l \in Place : next[l].mark => next'[l] = next[l]
  BY CutEffect
<1>13. ASSUME NEW u \in Thread, u # t PROVE MineOK(u)' /\ HeldOK(u)' /\ LocalOK(u)' /\ InfoOK(u)'
  <2>1. MineOK(u) /\ HeldOK(u) /\ LocalOK(u) /\ InfoOK(u)
    BY DEF IInv, Types
  <2>2. LocalOK(u)' /\ InfoOK(u)' /\ Cur(u)' = Cur(u)
    <3>1. \A s \in Slot : <<u, s>> \in Safe => slot[u][s] \in Place
      BY DEF Safe, Place
    <3> QED
      BY <1>2, <1>11, <1>12, <1>13, <3>1, OtherThread
  <2>3. info[u].mine # Null => info[u].mine \in Node \ {p}
    BY <1>4, <2>1, OwnedNodes DEF Source, Listed
  <2>4. MineOK(u)'
    BY <1>2, <1>6, <1>13, <2>1, <2>3 DEF MineOK, Place
  <2>5. pc[u] \in HeldPC => Cur(u) # n
    BY <1>5, OwnedNodes
  <2>6. HeldOK(u)'
    BY <1>2, <1>7, <1>12, <1>13, <2>1, <2>2, <2>5 DEF HeldOK, Place, Cur
  <2> QED
    BY <2>2, <2>4, <2>6
<1>14. InfoOK(t)' /\ Cur(t)' = n
  BY <1>1, <1>2 DEF InfoOK, Cur
<1>15. LocalOK(t)'
  BY <1>1, <1>2, <1>11, SlotNames
     DEF LocalOK, PrevOK, StartOK, FindPC, PrevPC, CurPC, NextPC, ScanPC
<1>16. MineOK(t)'
  <2>1. info[t].mine # Null => info[t].mine \in Node \ {p}
    BY <1>1, <1>4, OwnedNodes DEF Source, Listed, InfoOK
  <2> QED
    BY <1>1, <1>2, <1>6, <2>1 DEF MineOK, LocalOK, MinePC, FindPC, Place
<1>17. HeldOK(t)'
  <2>1. \A u \in Thread \ {t} : pc[u] \in HeldPC => Cur(u)' # n
    BY <1>2, <1>5, OwnedNodes DEF Cur
  <2>2. next'[n].mark
    BY <1>3, <1>12 DEF Place
  <2> HIDE DEF n
  <2> QED
    BY <1>2, <1>3, <1>5, <1>7, <1>14, <2>1, <2>2 DEF HeldOK
<1>18. Types'
  BY <1>1, <1>2, <1>6, <1>13, <1>14 DEF Types, RTypeOK
<1> QED
  BY <1>9, <1>10, <1>13, <1>15, <1>16, <1>17, <1>18 DEF IInv

\* The guards that refer to a node when it is retired keep it from deletion.
LEMMA RetireEffect ==
  ASSUME IInv, NEW t \in Thread, RetireCur(t) \/ ReclaimErased(t)
  PROVE  LET n == Cur(t)
             s == info[t].cur IN
      /\ Types /\ RTypeOK /\ InfoOK(t) /\ LocalOK(t) /\ MineOK(t) /\ HeldOK(t)
      /\ /\ \/ pc[t] = "retire" /\ pc'[t] = "acquire" /\ Kept(t, {})
            \/ pc[t] = "reclaim" /\ pc'[t] = "done" /\ Kept(t, {"cur", "new"})
               /\ info'[t].cur = info[t].new /\ info'[t].new = info[t].cur
         /\ DOMAIN pc' = Thread /\ DOMAIN info' = Thread /\ call' = call
         /\ \A u \in Thread \ {t} : pc'[u] = pc[u] /\ info'[u] = info[u]
         /\ next' = next
      /\ /\ status' = [status EXCEPT ![n] = "retired"]
         /\ slot' = [slot EXCEPT ![t][s] = Null]
         /\ pinned' = (pinned \union Holders(n)) \ {<<t, s>>}
      /\ n \in Node /\ n \in HeldNodes /\ n \notin FreshNodes /\ next[n].mark /\ s \in Slot
      /\ /\ \A m \in Node : status'[m] = (IF m = n THEN "retired" ELSE status[m])
         /\ \A x \in Slot \ {s} : slot'[t][x] = slot[t][x]
         /\ \A u \in Thread \ {t} : slot'[u] = slot[u]
         /\ RTypeOK'
      /\ FreshNodes' = FreshNodes
      /\ HeldNodes' = HeldNodes \ {n}
      /\ Listed' = Listed
      /\ \A g \in Safe \ {<<t, s>>} : g \in Safe'
<1> DEFINE n == Cur(t)
           s == info[t].cur
<1>1. Types /\ RTypeOK /\ InfoOK(t) /\ LocalOK(t) /\ MineOK(t) /\ HeldOK(t)
  BY DEF IInv, Types
<1>2. /\ \/ pc[t] = "retire" /\ pc'[t] = "acquire" /\ Kept(t, {})
         \/ pc[t] = "reclaim" /\ pc'[t] = "done" /\ Kept(t, {"cur", "new"})
            /\ info'[t].cur = info[t].new /\ info'[t].new = info[t].cur
      /\ DOMAIN pc' = Thread /\ DOMAIN info' = Thread /\ call' = call
      /\ \A u \in Thread \ {t} : pc'[u] = pc[u] /\ info'[u] = info[u]
      /\ next' = next
  BY <1>1 DEF RetireCur, ReclaimErased, Answer, Goto, Set, history, Types, InfoOK, Fields, Kept
<1>3. /\ status' = [status EXCEPT ![n] = "retired"]
      /\ slot' = [slot EXCEPT ![t][s] = Null]
      /\ pinned' = (pinned \union Holders(n)) \ {<<t, s>>}
  BY DEF RetireCur, ReclaimErased, ReclaimGuard, Cur
<1>4. n \in Node /\ n \in HeldNodes /\ n \notin FreshNodes /\ next[n].mark /\ s \in Slot
  BY <1>1, <1>2, OwnedNodes, SlotNames DEF HeldOK, HeldPC, InfoOK
<1>5. /\ \A m \in Node : status'[m] = (IF m = n THEN "retired" ELSE status[m])
      /\ \A x \in Slot \ {s} : slot'[t][x] = slot[t][x]
      /\ \A u \in Thread \ {t} : slot'[u] = slot[u]
      /\ RTypeOK'
  BY <1>1, <1>3, <1>4 DEF RTypeOK, Holders, Guard
<1>6. FreshNodes' = FreshNodes
  BY <1>1, <1>2 DEF FreshNodes, Kept, Fields
<1>7. HeldNodes' = HeldNodes \ {n}
  <2>1. \A u \in Thread \ {t} : pc[u] \in HeldPC => Cur(u) # n
    BY <1>1, <1>2 DEF HeldOK, HeldPC
  <2>2. pc'[t] \notin HeldPC /\ pc[t] \in HeldPC
    BY <1>2 DEF HeldPC
  <2> HIDE DEF n
  <2>3. \A m \in Node : m \in HeldNodes' <=> \E u \in Thread \ {t} : pc[u] \in HeldPC /\ Cur(u) = m
    BY <1>2, <1>5, <2>2 DEF HeldNodes, Cur
  <2>4. \A m \in Node : m \in HeldNodes <=>
          m = n \/ \E u \in Thread \ {t} : pc[u] \in HeldPC /\ Cur(u) = m
    BY <2>2 DEF HeldNodes, Cur, n
  <2>5. \A m \in Node : m \in HeldNodes' <=> m \in HeldNodes /\ m # n
    BY <2>1, <2>3, <2>4
  <2> QED
    BY <2>5 DEF HeldNodes
<1>8. Listed' = Listed
  BY <1>4, <1>5, <1>6, <1>7 DEF Listed
<1>11. \A g \in Safe \ {<<t, s>>} : g \in Safe'
  <2> SUFFICES ASSUME NEW g \in Safe, g # <<t, s>> PROVE g \in Safe'
    OBVIOUS
  <2>1. slot'[g[1]][g[2]] = slot[g[1]][g[2]] /\ g \in Guard
    BY <1>5 DEF Safe, Guard
  <2>2. slot[g[1]][g[2]] = n => g \in pinned'
    BY <1>3, <2>1 DEF Holders
  <2>3. g \in pinned => g \in pinned'
    BY <1>3
  <2> HIDE DEF n
  <2> QED
    BY <1>5, <1>6, <2>1, <2>2, <2>3 DEF Safe
<1> QED
  BY <1>1, <1>2, <1>3, <1>4, <1>5, <1>6, <1>7, <1>8, <1>11

LEMMA RetireInv ==
  ASSUME IInv, NEW t \in Thread, RetireCur(t) \/ ReclaimErased(t)
  PROVE  IInv'
<1> DEFINE n == Cur(t)
           s == info[t].cur
<1>1. Types /\ RTypeOK /\ InfoOK(t) /\ LocalOK(t) /\ MineOK(t) /\ HeldOK(t)
  BY RetireEffect
<1>2. /\ \/ pc[t] = "retire" /\ pc'[t] = "acquire" /\ Kept(t, {})
         \/ pc[t] = "reclaim" /\ pc'[t] = "done" /\ Kept(t, {"cur", "new"})
            /\ info'[t].cur = info[t].new /\ info'[t].new = info[t].cur
      /\ DOMAIN pc' = Thread /\ DOMAIN info' = Thread /\ call' = call
      /\ \A u \in Thread \ {t} : pc'[u] = pc[u] /\ info'[u] = info[u]
      /\ next' = next
  BY RetireEffect
<1>3. /\ status' = [status EXCEPT ![n] = "retired"]
      /\ slot' = [slot EXCEPT ![t][s] = Null]
      /\ pinned' = (pinned \union Holders(n)) \ {<<t, s>>}
  BY RetireEffect
<1>4. n \in Node /\ n \in HeldNodes /\ n \notin FreshNodes /\ next[n].mark /\ s \in Slot
  BY RetireEffect
<1>5. /\ \A m \in Node : status'[m] = (IF m = n THEN "retired" ELSE status[m])
      /\ \A x \in Slot \ {s} : slot'[t][x] = slot[t][x]
      /\ \A u \in Thread \ {t} : slot'[u] = slot[u]
      /\ RTypeOK'
  BY RetireEffect
<1>6. FreshNodes' = FreshNodes
  BY RetireEffect
<1>7. HeldNodes' = HeldNodes \ {n}
  BY RetireEffect
<1>8. Listed' = Listed
  BY RetireEffect
<1>9. ListOK'
  BY <1>2, <1>8, ListSame DEF IInv
<1>10. RetiredOK'
  <2>1. pc[t] # "gone"
    BY <1>2
  <2> QED
    BY <1>2, <1>4, <1>5, <2>1 DEF IInv, RetiredOK
<1>11. \A g \in Safe \ {<<t, s>>} : g \in Safe'
  BY RetireEffect
<1>12. ASSUME NEW u \in Thread, u # t PROVE MineOK(u)' /\ HeldOK(u)' /\ LocalOK(u)' /\ InfoOK(u)'
  <2>1. MineOK(u) /\ HeldOK(u) /\ LocalOK(u) /\ InfoOK(u)
    BY DEF IInv, Types
  <2>2. LocalOK(u)' /\ InfoOK(u)' /\ Cur(u)' = Cur(u)
    BY <1>2, <1>5, <1>11, <1>12, OtherThread
  <2>3. info[u].mine # Null => info[u].mine \in Node \ {n}
    BY <1>4, <2>1, OwnedNodes
  <2>4. MineOK(u)'
    BY <1>1, <1>2, <1>5, <1>12, <2>1, <2>3 DEF MineOK, Kept, Fields
  <2>5. pc[u] \in HeldPC => Cur(u) # n
    BY <1>1, <1>2, <1>12 DEF HeldOK, HeldPC
  <2>6. \A w \in Thread \ {u} : pc'[w] \in HeldPC => pc[w] \in HeldPC /\ Cur(w)' = Cur(w)
    BY <1>2, <1>5 DEF HeldPC, Cur
  <2>7. HeldOK(u)'
    BY <1>2, <1>5, <1>6, <1>12, <2>1, <2>2, <2>5, <2>6 DEF HeldOK
  <2> QED
    BY <2>2, <2>4, <2>7
<1>13. InfoOK(t)'
  BY <1>1, <1>2 DEF InfoOK, Kept, Fields
<1>14. LocalOK(t)'
  BY <1>1, <1>2, <1>5, <1>11, SlotNames
     DEF InfoOK, LocalOK, PrevOK, StartOK, Kept, Fields, FindPC, PrevPC, CurPC, NextPC, ScanPC
<1>15. MineOK(t)'
  <2>1. info[t].mine # Null => info[t].mine \in Node \ {n}
    BY <1>1, <1>4, OwnedNodes DEF InfoOK
  <2> QED
    BY <1>1, <1>2, <1>5, <2>1 DEF MineOK, MinePC, FindPC, Kept, Fields
<1>16. HeldOK(t)'
  BY <1>2 DEF HeldOK, HeldPC
<1>17. Types'
  BY <1>1, <1>2, <1>5, <1>12, <1>13 DEF Types
<1> QED
  BY <1>9, <1>10, <1>12, <1>14, <1>15, <1>16, <1>17 DEF IInv

LEMMA DestroyInv ==
  ASSUME IInv, Destroy
  PROVE  IInv'
<1>1. Types /\ RTypeOK
  BY DEF IInv, Types
<1>2. /\ \A t \in Thread : pc'[t] = "gone" /\ info[t].mine = Null
      /\ DOMAIN pc' = Thread /\ info' = info /\ call' = call /\ slot' = slot /\ pinned' = pinned
      /\ next' = [l \in Place |-> Link(Null)]
      /\ status' \in [Node -> {"free", "live", "retired"}]
  <2>1. \A t \in Thread : pc[t] = "idle"
    BY DEF Destroy
  <2>2. \A t \in Thread : info[t].mine = Null
    <3>1. NoInfo.mine = Null
      BY DEF NoInfo
    <3> QED
      BY <2>1, <3>1 DEF IInv, LocalOK
  <2>3. /\ pc' = [t \in Thread |-> "gone"] /\ next' = [l \in Place |-> Link(Null)]
        /\ UNCHANGED <<info, call, slot, pinned>>
    BY DEF Destroy, Place
  <2>4. PICK S : status' = [n \in Node |-> IF n \in S THEN "free" ELSE status[n]]
    <3> WITNESS {n \in Node : \E b \in Bucket : \E i \in DOMAIN ListOf(b) : ListOf(b)[i] = n}
    <3> QED
      BY DEF Destroy
  <2>5. status' \in [Node -> {"free", "live", "retired"}]
    BY <1>1, <2>4 DEF RTypeOK
  <2> QED
    BY <2>2, <2>3, <2>5
<1>3. Types'
  <2>1. Link(Null) \in LinkType
    BY DEF Link, LinkType
  <2>2. \A t \in Thread : InfoOK(t)'
    BY <1>1, <1>2 DEF Types, InfoOK
  <2> QED
    BY <1>1, <1>2, <2>1, <2>2 DEF Types, RTypeOK
<1>4. ListOK' /\ RetiredOK'
  <2>1. Source' \subseteq Place
    BY DEF Source, Place, Listed
  <2> QED
    BY <1>2, <2>1 DEF ListOK, RetiredOK, Link, Place
<1>5. \A t \in Thread : MineOK(t)' /\ HeldOK(t)' /\ LocalOK(t)'
  BY <1>2 DEF MineOK, HeldOK, LocalOK, HeldPC, MinePC, FindPC, PrevPC, CurPC, NextPC, ScanPC
<1> QED
  BY <1>3, <1>4, <1>5 DEF IInv

LEMMA DeleteEffect ==
  ASSUME IInv, NEW n \in Node, Delete(n)
  PROVE  /\ Types /\ RTypeOK
         /\ /\ status[n] = "retired" /\ Holders(n) \intersect pinned = {}
            /\ status' = [status EXCEPT ![n] = "free"]
            /\ UNCHANGED <<slot, pinned, next, pc, info, call>>
         /\ (\A m \in Node : status'[m] = (IF m = n THEN "free" ELSE status[m])) /\ RTypeOK'
         /\ FreshNodes' = FreshNodes /\ HeldNodes' = HeldNodes
         /\ n \notin FreshNodes /\ n \notin HeldNodes
         /\ Listed' = Listed
         /\ \A g \in Safe : g \in Safe'
<1>1. Types /\ RTypeOK
  BY DEF IInv, Types
<1>2. /\ status[n] = "retired" /\ Holders(n) \intersect pinned = {}
      /\ status' = [status EXCEPT ![n] = "free"]
      /\ UNCHANGED <<slot, pinned, next, pc, info, call>>
  BY DEF Delete, Reclaim, history
<1>3. (\A m \in Node : status'[m] = (IF m = n THEN "free" ELSE status[m])) /\ RTypeOK'
  BY <1>1, <1>2 DEF RTypeOK
<1>4. FreshNodes' = FreshNodes /\ HeldNodes' = HeldNodes
  BY <1>2 DEF FreshNodes, HeldNodes
<1>5. n \notin FreshNodes /\ n \notin HeldNodes
  BY <1>2, OwnedNodes
<1>6. Listed' = Listed
  BY <1>2, <1>3, <1>4 DEF Listed
<1>8. \A g \in Safe : g \in Safe'
  BY <1>2, <1>3, <1>4 DEF Safe, Holders
<1> QED
  BY <1>1, <1>2, <1>3, <1>4, <1>5, <1>6, <1>8

LEMMA DeleteInv ==
  ASSUME IInv, NEW n \in Node, Delete(n)
  PROVE  IInv'
<1>1. Types /\ RTypeOK
  BY DeleteEffect
<1>2. /\ status[n] = "retired" /\ Holders(n) \intersect pinned = {}
      /\ status' = [status EXCEPT ![n] = "free"]
      /\ UNCHANGED <<slot, pinned, next, pc, info, call>>
  BY DeleteEffect
<1>3. (\A m \in Node : status'[m] = (IF m = n THEN "free" ELSE status[m])) /\ RTypeOK'
  BY DeleteEffect
<1>4. FreshNodes' = FreshNodes /\ HeldNodes' = HeldNodes
  BY DeleteEffect
<1>5. n \notin FreshNodes /\ n \notin HeldNodes
  BY DeleteEffect
<1>6. Listed' = Listed
  BY DeleteEffect
<1>7. ListOK' /\ RetiredOK'
  BY <1>2, <1>3, <1>6, ListSame DEF IInv, RetiredOK
<1>8. \A g \in Safe : g \in Safe'
  BY DeleteEffect
<1>9. ASSUME NEW u \in Thread PROVE MineOK(u)' /\ HeldOK(u)' /\ LocalOK(u)' /\ InfoOK(u)'
  <2>1. MineOK(u) /\ HeldOK(u) /\ InfoOK(u)
    BY DEF IInv, Types
  <2>2. LocalOK(u)' /\ InfoOK(u)' /\ Cur(u)' = Cur(u)
    BY <1>2, <1>8, OtherThread
  <2>3. MineOK(u)'
    BY <1>2, <1>3, <1>5, <2>1, OwnedNodes DEF MineOK, InfoOK
  <2>4. HeldOK(u)'
    BY <1>2, <1>3, <1>4, <1>5, <2>1, OwnedNodes DEF HeldOK, Cur
  <2> QED
    BY <2>2, <2>3, <2>4
<1>10. Types'
  BY <1>1, <1>2, <1>3, <1>9 DEF Types
<1> QED
  BY <1>7, <1>9, <1>10 DEF IInv

LEMMA StutterInv ==
  ASSUME IInv, UNCHANGED vars
  PROVE  IInv'
<1>1. /\ UNCHANGED <<status, slot, pinned, next, pc, info, call>>
  BY DEF vars, rvars, history
<1>2. FreshNodes' = FreshNodes /\ HeldNodes' = HeldNodes /\ Safe' = Safe
  BY <1>1 DEF FreshNodes, HeldNodes, Safe
<1>3. Listed' = Listed /\ Source' = Source
  BY <1>1, <1>2 DEF Listed, Source
<1>4. \A u \in Thread : InfoOK(u)' /\ MineOK(u)' /\ HeldOK(u)'
  BY <1>1, <1>2 DEF IInv, Types, InfoOK, MineOK, HeldOK, Cur
<1>5. \A u \in Thread : LocalOK(u)'
  BY <1>1, <1>2, OtherThread
<1> QED
  BY <1>1, <1>3, <1>4, <1>5 DEF IInv, Types, RTypeOK, ListOK, RetiredOK

-----------------------------------------------------------------------------
(* The theorems                                                            *)

LEMMA InitInv == Init => IInv
<1> SUFFICES ASSUME Init PROVE IInv
  OBVIOUS
<1>1. /\ status = [n \in Node |-> "free"] /\ slot = [t \in Thread |-> [s \in Slot |-> Null]]
      /\ pinned = {} /\ next = [l \in Place |-> Link(Null)]
      /\ pc = [t \in Thread |-> "idle"] /\ info = [t \in Thread |-> NoInfo] /\ DOMAIN call = Thread
  BY DEF Init, RInit, Place
<1>2. \A t \in Thread : InfoOK(t)
  BY <1>1, BucketType DEF InfoOK, NoInfo, Fields, Names, LinkType, Link
<1>3. Types
  <2>1. Link(Null) \in LinkType
    BY DEF Link, LinkType
  <2> QED
    BY <1>1, <1>2, <2>1 DEF Types, RTypeOK
<1>4. ListOK /\ RetiredOK
  BY <1>1 DEF ListOK, RetiredOK, Source, Listed, Place, Link
<1>5. ASSUME NEW t \in Thread PROVE MineOK(t) /\ HeldOK(t) /\ LocalOK(t)
  <2>1. info[t] = NoInfo /\ pc[t] = "idle" /\ NoInfo.mine = Null /\ NoInfo.bucket \in Bucket
    BY <1>1, BucketType DEF NoInfo
  <2> QED
    BY <2>1 DEF MineOK, HeldOK, LocalOK, HeldPC, MinePC, FindPC, PrevPC, CurPC, NextPC, ScanPC
<1> QED
  BY <1>3, <1>4, <1>5 DEF IInv

LEMMA NextInv == IInv /\ [Next]_vars => IInv'
<1> SUFFICES ASSUME IInv, [Next]_vars PROVE IInv'
  OBVIOUS
<1>1. ASSUME NEW t \in Thread, FindStep(t) PROVE IInv'
  BY <1>1, EnterInv, RetryInv, FirstInv, FirstMarkedInv, AcquireNullInv, AcquireInv, ValidateInv,
     LoadInv, CutInv, SpliceFailsInv, RetireInv, CheckInv DEF FindStep
<1>2. ASSUME NEW t \in Thread, CallStep(t) PROVE IInv'
  BY <1>2, NewNodeInv, LinkNodeInv, InsertCasInv, InsertCasFailsInv, InsertedInv, UseInv, MarkedInv,
     MarkFailsInv, CutInv, UnlinkFailsInv, RetireInv, ItLoadInv, ItGuardInv, ReturnInv DEF CallStep
<1>3. ASSUME NEW t \in Thread, ScanStep(t) PROVE IInv'
  BY <1>3, ScanBeginInv, HeadInv, HeadCheckInv, NextBucketInv, VisitInv, StepInv, StepCheckFailsInv,
     StepCheckInv, ScanEndInv DEF ScanStep
<1>4. ASSUME NEW t \in Thread, NEW c \in MapCalls, Call(t, c) PROVE IInv'
  BY <1>4, CallInv
<1>5. CASE Destroy
  BY <1>5, DestroyInv
<1>6. ASSUME NEW n \in Node, Delete(n) PROVE IInv'
  BY <1>6, DeleteInv
<1>7. CASE UNCHANGED vars
  BY <1>7, StutterInv
<1> QED
  BY <1>1, <1>2, <1>3, <1>4, <1>5, <1>6, <1>7 DEF Next

\* The inductive invariant holds in every behaviour of the map.
THEOREM Invariance == Spec => []IInv
BY InitInv, NextInv, PTL DEF Spec

-----------------------------------------------------------------------------
(* The types of all variables                                              *)

ElementType == [key : Key, val : Value]

\* A node has had an element since it was allocated; a call is one of MapCalls.
DataOK == /\ data \in [Node -> ElementType \union {NoCall}] /\ DOMAIN scan = Thread
          /\ \A n \in Node : data[n] \in ElementType \/ status[n] = "free"
          /\ \A t \in Thread :
                /\ scan[t] \in [met : SUBSET Key, due : SUBSET Key]
                /\ pc[t] \notin {"idle", "gone"} /\ info[t].then = "call" => call[t] \in MapCalls

\* A step that neither makes a node nor moves a loop on
LEMMA SameData ==
  ASSUME DataOK, UNCHANGED <<data, scan>>,
         \A n \in Node : status[n] = "free" => status'[n] = "free",
         \A t \in Thread : pc'[t] \notin {"idle", "gone"} /\ info'[t].then = "call" =>
             pc[t] \notin {"idle", "gone"} /\ info[t].then = "call" /\ call'[t] = call[t]
  PROVE  DataOK'
BY DEF DataOK

LEMMA FindData ==
  ASSUME IInv, DataOK, NEW t \in Thread, FindStep(t)
  PROVE  DataOK'
<1>1. /\ Types
      /\ InfoOK(t)
      /\ HeldOK(t)
      /\ pc[t] \notin {"idle", "gone"}
      /\ UNCHANGED <<data, scan, call>>
  BY DEF IInv, Types, FindStep, Enter, Retry, First, FirstMarked, AcquireNull, Acquire, Validate,
     Load,
         Splice, SpliceFails, RetireCur, Check, Goto, Pure, Quiet, history
<1>2. \A n \in Node : status[n] = "free" => status'[n] = "free"
  <2>1. CASE RetireCur(t)
    BY <1>1, <2>1 DEF RetireCur, ReclaimGuard, HeldOK, HeldPC, Goto, Cur, Types, RTypeOK
  <2>2. CASE ~RetireCur(t)
    BY <2>2 DEF FindStep, Enter, Retry, First, FirstMarked, AcquireNull, Acquire, Validate, Load,
         Splice, SpliceFails, Check, Pure, Quiet
  <2> QED
    BY <2>1, <2>2
<1>3. \A u \in Thread \ {t} : pc'[u] = pc[u] /\ info'[u] = info[u]
  <2>1. CASE AcquireNull(t)
    BY <1>1, <2>1, OutcomeCases DEF AcquireNull, Types, Continue
  <2>2. CASE Check(t)
    <3>1. (data[Cur(t)].key = info[t].key) \in BOOLEAN
      OBVIOUS
    <3>2. \A u \in Thread \ {t} : info'[u] = info[u]
      BY <1>1, <2>2 DEF Check, Compare, Types, Set
    <3>3. PICK found \in BOOLEAN : \/ Outcome(t, found)
                                   \/ pc' = [pc EXCEPT ![t] = "acquire"]
                                   \/ pc' = [pc EXCEPT ![t] = "retry"]
      BY <2>2, <3>1 DEF Check, Compare, Continue
    <3> QED
      BY <1>1, <3>2, <3>3, OutcomeCases DEF Types
  <2>3. CASE ~AcquireNull(t) /\ ~Check(t)
    BY <1>1, <2>3 DEF Types, FindStep, Enter, Retry, First, FirstMarked, Acquire, Validate, Load,
         Splice, SpliceFails, RetireCur, Goto, Set, Pure, Quiet, history
  <2> QED
    BY <2>1, <2>2, <2>3
<1>4. info'[t].then = info[t].then
  <2>1. CASE Check(t)
    BY <1>1, <2>1 DEF Types, InfoOK, Check, Compare, Set, Fields
  <2>2. CASE Enter(t) \/ Retry(t) \/ First(t) \/ FirstMarked(t) \/ Load(t)
    BY <1>1, <2>2 DEF Types, InfoOK, Enter, Retry, First, FirstMarked, Load, Set, Fields
  <2>3. CASE \/ AcquireNull(t) \/ Acquire(t) \/ Validate(t) \/ Splice(t) \/ SpliceFails(t)
             \/ RetireCur(t)
    BY <2>3 DEF AcquireNull, Acquire, Validate, Splice, SpliceFails, RetireCur
  <2> QED
    BY <2>1, <2>2, <2>3 DEF FindStep
<1> QED
  BY <1>1, <1>2, <1>3, <1>4, SameData

LEMMA CallData ==
  ASSUME IInv, DataOK, NEW t \in Thread, CallStep(t)
  PROVE  DataOK'
<1>1. Types /\ InfoOK(t) /\ HeldOK(t) /\ LocalOK(t) /\ pc[t] \notin {"idle", "gone"}
  BY DEF IInv, Types, CallStep, NewNode, LinkNode, InsertCas, InsertCasFails, Inserted, Use, Mark,
         MarkFails, Unlink, UnlinkFails, ReclaimErased, ItLoad, ItMark, ItGuard, Return, Goto
<1>2. /\ \A u \in Thread \ {t} : pc'[u] = pc[u] /\ info'[u] = info[u] /\ call'[u] = call[u]
      /\ pc'[t] # "idle" => call'[t] = call[t] /\ (info'[t].then = "call" => info[t].then = "call")
  <2>1. CASE NewNode(t)
    BY <1>1, <2>1 DEF Types, InfoOK, NewNode, Goto, Set, Fields, history
  <2>2. CASE LinkNode(t) \/ InsertCasFails(t) \/ MarkFails(t) \/ UnlinkFails(t) \/ ItGuard(t)
    BY <1>1, <2>2 DEF Types, LinkNode, InsertCasFails, MarkFails, UnlinkFails, ItGuard, Goto,
       Quiet, Pure
  <2>3. CASE InsertCas(t) \/ Mark(t) \/ ItMark(t)
    BY <1>1, <2>3 DEF Types, InfoOK, InsertCas, Mark, ItMark, Goto, Set, Fields, Effect
  <2>4. CASE Use(t) \/ ReclaimErased(t) \/ Inserted(t)
    BY <1>1, <2>4 DEF Types, InfoOK, Use, ReclaimErased, Inserted, Answer, Set, Fields, Pure, Quiet
  <2>5. CASE Unlink(t) \/ ItLoad(t)
    BY <1>1, <2>5 DEF Types, InfoOK, Unlink, ItLoad, Goto, Continue, Set, Fields, Quiet, Pure
  <2>6. CASE Return(t)
    BY <1>1, <2>6 DEF Types, Return, Goto
  <2> QED
    BY <2>1, <2>2, <2>3, <2>4, <2>5, <2>6 DEF CallStep
<1>3. CASE NewNode(t)
  <2>1. PICK n \in Node :
        Allocate(n) /\ data' = [data EXCEPT ![n] = [key |-> call[t].key, val |-> call[t].val]]
    BY <1>3 DEF NewNode
  <2>2. call[t] \in MapCalls
    BY <1>1, <1>3 DEF DataOK, NewNode, Goto, LocalOK, NewOK
  <2>3. [key |-> call[t].key, val |-> call[t].val] \in ElementType
    BY <2>2, HMCallAssumption DEF ElementType
  <2>4. \A m \in Node : m # n => status'[m] = status[m] /\ data'[m] = data[m]
    BY <1>1, <2>1 DEF Allocate, Types, RTypeOK, DataOK
  <2>5. data'[n] \in ElementType /\ data' \in [Node -> ElementType \union {NoCall}] /\ scan' = scan
    BY <1>3, <2>1, <2>3 DEF DataOK, NewNode
  <2> QED
    BY <1>1, <1>2, <2>4, <2>5 DEF DataOK
<1>4. CASE Mark(t) \/ ItMark(t)
  <2>1. UNCHANGED <<status, data>>
    BY <1>4 DEF Mark, ItMark, rvars
  <2>2. scan' = [u \in Thread |-> [scan[u] EXCEPT !.due = @ \ {info[t].key}]]
    BY <1>4 DEF Mark, ItMark
  <2>3. ASSUME NEW u \in Thread PROVE scan'[u] \in [met : SUBSET Key, due : SUBSET Key]
    BY <2>2 DEF DataOK
  <2> QED
    BY <1>1, <1>2, <2>1, <2>2, <2>3 DEF DataOK
<1>5. CASE Use(t) \/ ReclaimErased(t)
  <2>1. UNCHANGED <<data, scan>>
    BY <1>5 DEF Use, ReclaimErased
  <2>2. \A n \in Node : status[n] = "free" => status'[n] = "free"
    BY <1>1, <1>5 DEF Use, ReclaimErased, ReclaimGuard, HeldOK, HeldPC, Cur, Types, RTypeOK
  <2> QED
    BY <1>1, <1>2, <2>1, <2>2, SameData
<1>6. CASE ~NewNode(t) /\ ~Mark(t) /\ ~ItMark(t) /\ ~Use(t) /\ ~ReclaimErased(t)
  <2>1. UNCHANGED <<data, scan, status>>
    BY <1>6 DEF CallStep, LinkNode, InsertCas, InsertCasFails, Inserted,
         MarkFails, Unlink, UnlinkFails, ItLoad, ItGuard, Return, Quiet, Pure, rvars
  <2> QED
    BY <1>1, <1>2, <2>1, SameData
<1> QED
  BY <1>3, <1>4, <1>5, <1>6

LEMMA ScanData ==
  ASSUME IInv, DataOK, NEW t \in Thread, ScanStep(t)
  PROVE  DataOK'
<1> DEFINE ScanType == [met : SUBSET Key, due : SUBSET Key]
<1>1. Types /\ InfoOK(t) /\ LocalOK(t) /\ UNCHANGED <<data, status, call>>
  BY DEF IInv, Types, ScanStep, ScanBegin, Head, HeadCheck, NextBucket, Visit, Step, StepCheckFails,
         StepCheck, ScanEnd, Goto, Quiet, Pure, rvars, history
<1>2. /\ \A u \in Thread \ {t} : pc'[u] = pc[u] /\ info'[u] = info[u]
      /\ pc'[t] \notin {"idle", "gone"} /\ info'[t].then = "call" =>
            pc[t] \notin {"idle", "gone"} /\ info[t].then = "call"
  BY <1>1 DEF Types, InfoOK, ScanStep, ScanBegin, Head, HeadCheck, NextBucket, Visit, Step,
         StepCheckFails, StepCheck, ScanEnd, Goto, Continue, Set, Fields, Quiet, Pure
<1>3. DOMAIN scan' = Thread /\ \A u \in Thread : scan'[u] \in ScanType
  <2>1. CASE ScanBegin(t)
    <3>1. PICK d \in SUBSET Key : scan' = [scan EXCEPT ![t] = [met |-> {}, due |-> d]]
      <4> WITNESS {k \in Key : map[k] # Absent} \in SUBSET Key
      <4> QED
        BY <2>1 DEF ScanBegin
    <3> QED
      BY <3>1 DEF DataOK
  <2>2. CASE Visit(t)
    <3>1. Cur(t) \in Node /\ status[Cur(t)] # "free"
      BY <2>2, CurNode DEF Visit, Goto, CurPC
    <3>2. data[Cur(t)].key \in Key
      BY <3>1 DEF DataOK, ElementType
    <3>3. scan' = [scan EXCEPT ![t].met = @ \union {data[Cur(t)].key}]
      BY <2>2 DEF Visit
    <3> QED
      BY <3>2, <3>3 DEF DataOK
  <2>3. CASE ScanEnd(t)
    BY <2>3 DEF ScanEnd, DataOK
  <2>4. CASE ~ScanBegin(t) /\ ~Visit(t) /\ ~ScanEnd(t)
    <3>1. scan' = scan
      BY <2>4 DEF ScanStep, Head, HeadCheck, NextBucket, Step, StepCheckFails, StepCheck, Quiet,
         Pure
    <3> QED
      BY <3>1 DEF DataOK
  <2> QED
    BY <2>1, <2>2, <2>3, <2>4
<1> QED
  BY <1>1, <1>2, <1>3 DEF DataOK

LEMMA DataNext == IInv /\ DataOK /\ [Next]_vars => DataOK'
<1> SUFFICES ASSUME IInv, DataOK, [Next]_vars PROVE DataOK'
  OBVIOUS
<1>1. ASSUME NEW t \in Thread, NEW c \in MapCalls, Call(t, c) PROVE DataOK'
  <2>1. UNCHANGED <<data, scan, status>>
    BY <1>1 DEF Call, rvars
  <2>2. /\ \A u \in Thread \ {t} : pc'[u] = pc[u] /\ info'[u] = info[u] /\ call'[u] = call[u]
        /\ call'[t] = c
    BY <1>1 DEF Call, Goto, Set, IInv, Types
  <2> QED
    BY <2>1, <2>2 DEF DataOK
<1>2. CASE Destroy
  <2>1. UNCHANGED <<data, scan>> /\ \A t \in Thread : pc'[t] = "gone"
    BY <1>2 DEF Destroy
  <2>2. \A n \in Node : status[n] = "free" => status'[n] = "free"
    BY <1>2 DEF Destroy
  <2> QED
    BY <2>1, <2>2, SameData
<1>3. ASSUME NEW n \in Node, Delete(n) PROVE DataOK'
  BY <1>3, SameData DEF Delete, Reclaim, IInv, Types, RTypeOK, history
<1>4. CASE UNCHANGED vars
  BY <1>4, SameData DEF vars, rvars, history
<1> QED
  BY <1>1, <1>2, <1>3, <1>4, FindData, CallData, ScanData DEF Next

\* Every variable keeps its type, whatever the threads do.
THEOREM TypeCorrect == Spec => []TypeOK
<1>1. Init => DataOK
  BY DEF Init, RInit, DataOK
<1>2. IInv /\ DataOK => TypeOK
  <2> SUFFICES ASSUME IInv, DataOK PROVE TypeOK
    OBVIOUS
  <2>1. ASSUME NEW t \in Thread
        PROVE  /\ info[t].prev \in (0..Buckets) \union Node
               /\ info[t].next \in [ptr : Node \union {Null}, mark : BOOLEAN]
               /\ {info[t].cur, info[t].save, info[t].new} = Slot \ {"start"}
               /\ scan[t] \in [met : SUBSET Key, due : SUBSET Key]
    <3>1. InfoOK(t)
      BY DEF IInv, Types
    <3> QED
      BY <3>1, HMSlotAssumption DEF InfoOK, Names, LinkType, DataOK
  <2>2. data \in [Node -> [key : Key, val : Value] \union {NoCall}]
    BY DEF DataOK, ElementType
  <2> QED
    BY <2>1, <2>2 DEF TypeOK, IInv, Types, Place, LinkType
<1> QED
  BY <1>1, <1>2, Invariance, DataNext, PTL DEF Spec

\* No operation of the map dereferences null or a deleted node, and none retires
\* a node twice, although addresses are reused and every node may be marked
\* while it is looked at (harris_michael_hash_map.hpp, find, emplace, erase).
THEOREM NoUseAfterFree == Spec => []MemorySafe
<1>1. IInv => MemorySafe
  <2> SUFFICES ASSUME IInv, NEW t \in Thread
               PROVE  /\ \A n \in Touched(t) : n \in Node /\ status[n] # "free"
                      /\ pc[t] \in {"retire", "reclaim"} => status[Cur(t)] = "live"
    BY DEF MemorySafe
  <2>1. LocalOK(t) /\ HeldOK(t)
    BY DEF IInv
  <2>2. pc[t] \in {"retire", "reclaim"} => status[Cur(t)] = "live"
    BY <2>1 DEF HeldOK, HeldPC
  <2>3. pc[t] \in CurPC => Cur(t) \in Node /\ status[Cur(t)] # "free"
    BY CurNode
  <2>4. ASSUME pc[t] \in PrevPC \union {"first", "head", "head_check"}, info[t].prev \notin Bucket
        PROVE  info[t].prev \in Node /\ status[info[t].prev] # "free"
    BY <2>1, <2>4 DEF LocalOK, PrevOK, FirstOK, Safe
  <2>5. ASSUME NEW n \in Touched(t) PROVE n \in Node /\ status[n] # "free"
    <3>1. \/ /\ pc[t] \in {"first", "acquire", "validate", "splice", "insert", "unlink", "head",
                           "head_check", "check"}
             /\ n = info[t].prev /\ n \notin Bucket
          \/ /\ pc[t] \in {"check", "load", "use", "inserted", "mark", "it_load", "it_mark",
                           "visit", "step", "step_check"}
             /\ n = Cur(t)
      BY <2>5 DEF Touched
    <3> QED
      BY <2>3, <2>4, <3>1 DEF PrevPC, CurPC, FindPC
  <2> QED
    BY <2>2, <2>5
<1> QED
  BY <1>1, Invariance, PTL

-----------------------------------------------------------------------------
(* Second part: HarrisMichaelMap implements ConcurrentMap as long as no    *)
(* lazy insert meets a successor that is not the one it has read, in       *)
(* particular in every workload without lazy inserts.                      *)
(*                                                                         *)
(* Good(R) says of a relation R on the listed nodes that it is the order   *)
(* of the lists.  R only grows by what is linked and loses what is         *)
(* unlinked; no function on paths is needed, nor an induction along them,  *)
(* because R is chosen anew in every state.  The keys of a list are sorted *)
(* in the weak sense of greater_or_equal: no node is behind one whose key  *)
(* is greater or equal to its own.  With memoize_hash that order of keys   *)
(* is partial, and nothing stronger holds.                                 *)
(*                                                                         *)
(* The steps of a search prove their answers from two facts: nothing       *)
(* before info.prev has the key or a greater one (Behind), and what        *)
(* *info.prev leads to at the moment of the decisive comparison is a       *)
(* listed node.  A call may answer what could[t] holds; CouldOK and        *)
(* FoundOK relate it to the map.                                           *)

-----------------------------------------------------------------------------
(* The invariant of the second part                                        *)

GE(m, n) == GreaterOrEqual(data[m].key, data[n].key)
BucketAt(n) == BucketOf(data[n].key)

\* R is the order of the lists: what a place leads to comes next in it, and the
\* head of a bucket leads to the first of its nodes.
Ordered(R) ==
    /\ \A m, n \in Listed : <<m, n>> \in R => ~GE(m, n) /\ BucketAt(m) = BucketAt(n)
    /\ \A m, n \in Listed : BucketAt(m) = BucketAt(n) => m = n \/ <<m, n>> \in R \/ <<n, m>> \in R
    /\ \A l, m, n \in Listed : <<l, m>> \in R /\ <<m, n>> \in R => <<l, n>> \in R
    /\ \A l \in Listed :
          /\ next[l].ptr # Null => <<l, next[l].ptr>> \in R
          /\ \A n \in Listed : <<l, n>> \in R =>
                next[l].ptr # Null /\ (n = next[l].ptr \/ <<next[l].ptr, n>> \in R)
    /\ \A b \in Bucket :
          /\ next[b].ptr # Null => BucketAt(next[b].ptr) = b
          /\ \A n \in Listed : BucketAt(n) = b =>
                next[b].ptr # Null /\ (n = next[b].ptr \/ <<next[b].ptr, n>> \in R)

\* A search for k may go on from l: there is no k at l or before it.
Behind(l, k, R) ==
    /\ l \in Bucket => l = BucketOf(k)
    /\ l \in Listed => /\ BucketAt(l) = BucketOf(k)
                       /\ ~GreaterOrEqual(data[l].key, k)
                       /\ \A x \in Listed : <<x, l>> \in R => ~GreaterOrEqual(data[x].key, k)

\* A search for k stops in front of n and has not found it.
Beyond(n, k) == GreaterOrEqual(data[n].key, k) /\ data[n].key # k

\* The places that find holds for a call are before what it looks for.
SearchOK(t, R) == pc[t] \notin {"idle", "done", "gone"} /\ info[t].then = "call" =>
    /\ pc[t] \in (PrevPC \union {"first"}) \/ pc[t] = "new" => Behind(info[t].prev, info[t].key, R)
    /\ pc[t] \in FindPC \union {"first"} => Behind(info[t].start, info[t].key, R)

\* An insert has found the place of its node.  From its preparation to its CAS
\* emplace keeps the guard of the successor, the lazy version does not.
SuccessorOK(t) ==
    /\ \/ pc[t] = "link"
       \/ pc[t] = "insert" /\ call[t].how = "emplace"
       \/ pc[t] = "new" /\ call[t].how # "emplace"
       => Cur(t) = Null \/ (<<t, info[t].cur>> \in Safe /\ Beyond(Cur(t), info[t].key))
    /\ pc[t] = "insert" /\ call[t].how = "emplace" => next[info[t].mine].ptr = Cur(t)

\* The node that an insert has made holds its element.
MineDataOK(t) == info[t].mine # Null =>
    data[info[t].mine] = [key |-> call[t].key, val |-> call[t].val]

InsertPC == {"new", "link", "insert", "inserted"}
RemovePC == {"mark", "it_load", "it_mark", "it_guard", "unlink", "reclaim"}

\* What a thread at a location may be doing
CallOK(t) ==
    /\ pc[t] \in {"idle", "gone"} \/ info[t].then = "scan" => call[t] = NoCall
    /\ pc[t] \notin {"idle", "gone"} /\ info[t].then # "scan" =>
          /\ call[t] \in MapCalls
          /\ info[t].key = call[t].key /\ info[t].bucket = BucketOf(call[t].key)
          /\ info[t].then \in {"call", "success", "element_not_found"}
          /\ info[t].then # "call" => call[t].op = "remove"
          /\ pc[t] \in InsertPC => call[t].op = "insert"
          /\ pc[t] \in RemovePC => call[t].op = "remove"
          /\ pc[t] = "use" => call[t].op # "remove"
    /\ pc[t] \in InsertPC \union {"use", "mark", "it_load"} => info[t].then = "call"
    /\ pc[t] \in RemovePC => info[t].then # "scan"
    /\ pc[t] = "it_mark" => info[t].then # "success"
    /\ pc[t] \in {"unlink", "reclaim"} => info[t].then # "call"
    /\ pc[t] = "end" => info[t].then = "scan"
    /\ pc[t] = "done" => info[t].then # "scan" /\ res[t] # NoCall
    /\ pc[t] # "done" => res[t] = NoCall

\* The call has changed the map
Effected(t) == info[t].then = "success" \/ pc[t] = "inserted"

\* A call may answer for the present map; after its effect only success.
CouldOK(t) == pc[t] \notin {"idle", "done", "gone"} /\ info[t].then # "scan" =>
    /\ Effected(t) => could[t] = {"success"}
    /\ ~Effected(t) => "success" \notin could[t] /\ M!Answers(call[t], map) \subseteq could[t]
    /\ info[t].then = "element_not_found" /\ pc[t] \notin {"it_load", "it_mark"} => "element_not_found" \in could[t]

\* What a call that has found its key may answer
FoundOK(t) ==
    \/ pc[t] = "check" /\ info[t].then = "call" /\ data[Cur(t)].key = info[t].key
    \/ pc[t] \in {"use", "mark", "it_load", "it_mark"}
    => /\ data[Cur(t)].key = info[t].key
       /\ call[t].op = "get" => data[Cur(t)].val \in could[t]
       /\ call[t].op = "insert" => "already_present" \in could[t]
       /\ call[t].op = "remove" /\ next[Cur(t)].mark => "element_not_found" \in could[t]

\* A lazy insert whose CAS would succeed meets a successor where its search would
\* end.  It may be another node than the one it has compared: see README.md.
SuccessorKept == \A t \in Thread :
    LET n == next[info[t].mine].ptr IN
    pc[t] = "insert" /\ call[t].how # "emplace" /\ At(t) = next[info[t].mine] /\ n # Null =>
       Beyond(n, info[t].key)

HistoryType == DOMAIN res = Thread /\ DOMAIN could = Thread

\* The destructor has not run.
Alive == \E t \in Thread : pc[t] # "gone"

ThreadOK(t, R) == SearchOK(t, R) /\ SuccessorOK(t) /\ MineDataOK(t) /\ CallOK(t) /\ CouldOK(t) /\ FoundOK(t)

Good(R) == Ordered(R) /\ \A t \in Thread : ThreadOK(t, R)

RInv == IInv /\ DataOK /\ HistoryType /\ (Alive => \E R : Good(R))

-----------------------------------------------------------------------------
(* Keys                                                                    *)

LEMMA KeyOrder ==
  /\ \A k \in Key : GreaterOrEqual(k, k)
  /\ \A j, k, l \in Key : GreaterOrEqual(j, k) /\ GreaterOrEqual(k, l) => GreaterOrEqual(j, l)
  /\ \A j, k \in Key : GreaterOrEqual(j, k) /\ GreaterOrEqual(k, j) => j = k
<1>1. \A k \in Key : k[1] \in Nat /\ k[2] \in Nat
  BY HMKeyAssumption
<1>2. \A j, k \in Key : j[2] = k[2] => j = k
  BY HMKeyAssumption
<1> QED
  BY <1>1, <1>2 DEF GreaterOrEqual

LEMMA CallType ==
  \A c \in MapCalls : /\ c.key \in Key /\ c.val \in Value /\ c.op \in {"insert", "get", "remove"}
                      /\ c.op = "remove" => Value \subseteq c.exp
BY HMCallAssumption

\* Nodes that are in the map
Elements == {n \in Listed : ~next[n].mark}

LEMMA ListedData ==
  ASSUME DataOK, NEW n \in Listed
  PROVE  data[n] \in ElementType /\ data[n].key \in Key /\ data[n].val \in Value /\ n \in Node
<1>1. n \in Node /\ status[n] = "live"
  BY DEF Listed
<1>2. data[n] \in ElementType
  BY <1>1 DEF DataOK
<1> QED
  BY <1>1, <1>2 DEF ElementType

LEMMA StrictOrder ==
  ASSUME DataOK, NEW R, Ordered(R)
  PROVE  /\ \A n \in Listed : <<n, n>> \notin R
         /\ \A m, n \in Listed : <<m, n>> \in R => <<n, m>> \notin R
<1>1. \A n \in Listed : <<n, n>> \notin R
  BY ListedData, KeyOrder DEF Ordered, GE
<1>2. \A m, n \in Listed : <<m, n>> \in R => <<n, m>> \notin R
  BY <1>1 DEF Ordered
<1> QED
  BY <1>1, <1>2

\* What is behind a place where the search for k may go on
LEMMA AheadOf ==
  ASSUME DataOK, NEW R, Ordered(R), NEW l \in Source, NEW k \in Key, Behind(l, k, R),
         NEW x \in Listed, BucketAt(x) = BucketOf(k), l \in Bucket \/ (x # l /\ <<x, l>> \notin R)
  PROVE  next[l].ptr # Null /\ (x = next[l].ptr \/ <<next[l].ptr, x>> \in R)
<1>1. CASE l \in Bucket
  BY <1>1 DEF Ordered, Behind
<1>2. CASE l \in Listed /\ l \notin Bucket
  <2>1. BucketAt(l) = BucketAt(x)
    BY <1>2 DEF Behind
  <2>2. <<l, x>> \in R
    BY <1>2, <2>1 DEF Ordered
  <2> QED
    BY <1>2, <2>2 DEF Ordered
<1> QED
  BY <1>1, <1>2 DEF Source

\* A search that stops where it should finds what is there.
LEMMA NotThere ==
  ASSUME DataOK, NEW R, Ordered(R), NEW l \in Source, NEW k \in Key, Behind(l, k, R),
         next[l].ptr # Null => next[l].ptr \in Listed /\ Beyond(next[l].ptr, k)
  PROVE  \A x \in Listed : data[x].key # k
<1> SUFFICES ASSUME NEW x \in Listed, data[x].key = k PROVE FALSE
  OBVIOUS
<1>1. BucketAt(x) = BucketOf(k) /\ GreaterOrEqual(data[x].key, k)
  BY KeyOrder DEF BucketAt
<1>2. l \in Bucket \/ (x # l /\ <<x, l>> \notin R)
  BY <1>1 DEF Behind, Source
<1>3. next[l].ptr # Null /\ (x = next[l].ptr \/ <<next[l].ptr, x>> \in R)
  BY <1>1, <1>2, AheadOf
<1>4. CASE x = next[l].ptr
  BY <1>3, <1>4 DEF Beyond
<1>5. CASE <<next[l].ptr, x>> \in R
  <2>1. ~GE(next[l].ptr, x)
    BY <1>3, <1>5 DEF Ordered
  <2> QED
    BY <2>1, <1>3 DEF GE, Beyond
<1> QED
  BY <1>3, <1>4, <1>5

\* A search goes on behind a node with a smaller key.
LEMMA BehindNext ==
  ASSUME DataOK, NEW R, Ordered(R), NEW l \in Source, NEW k \in Key, Behind(l, k, R),
         next[l].ptr \in Listed, next[l].ptr # Null, ~GreaterOrEqual(data[next[l].ptr].key, k),
         next[l].ptr \notin Bucket
  PROVE  Behind(next[l].ptr, k, R)
<1> DEFINE m == next[l].ptr
<1>1. BucketAt(m) = BucketOf(k)
  <2>1. CASE l \in Bucket
    BY <2>1 DEF Ordered, Behind
  <2>2. CASE l \in Listed
    BY <2>2 DEF Ordered, Behind
  <2> QED
    BY <2>1, <2>2 DEF Source
<1>2. ASSUME NEW x \in Listed, <<x, m>> \in R
      PROVE  ~GreaterOrEqual(data[x].key, k)
  <2>1. BucketAt(x) = BucketOf(k)
    BY <1>1, <1>2 DEF Ordered
  <2>2. x # m /\ <<m, x>> \notin R
    BY <1>2, StrictOrder
  <2>3. l \notin Bucket /\ (x = l \/ <<x, l>> \in R)
    BY <2>1, <2>2, AheadOf
  <2> QED
    BY <2>3 DEF Behind, Source
<1> QED
  BY <1>1, <1>2 DEF Behind

-----------------------------------------------------------------------------
(* The map                                                                 *)

PresentIsElements == \A k : Present(k) = {n \in Elements : data[n].key = k}

LEMMA PresentElements == IInv => PresentIsElements
<1> SUFFICES ASSUME IInv PROVE PresentIsElements
  OBVIOUS
<1>1. \A n \in HeldNodes : next[n].mark
  BY OwnedNodes
<1>2. \A n \in Node : Fresh(n) <=> n \in FreshNodes
  BY DEF Fresh, FreshNodes
<1> QED
  BY <1>1, <1>2 DEF Present, Elements, Listed, PresentIsElements

LEMMA OneElement ==
  ASSUME DataOK, NEW R, Ordered(R), NEW m \in Elements, NEW n \in Elements, data[m].key = data[n].key
  PROVE  m = n
<1>1. m \in Listed /\ n \in Listed /\ BucketAt(m) = BucketAt(n)
  BY DEF Elements, BucketAt
<1>2. GE(m, n) /\ GE(n, m)
  BY <1>1, ListedData, KeyOrder DEF GE
<1> QED
  BY <1>1, <1>2 DEF Ordered

LEMMA MapValue ==
  ASSUME IInv, DataOK, NEW R, Ordered(R), NEW k \in Key
  PROVE  /\ \A n \in Elements : data[n].key = k => map[k] = data[n].val /\ map[k] \in Value
         /\ (\A n \in Elements : data[n].key # k) => map[k] = Absent
<1> DEFINE P == {n \in Elements : data[n].key = k}
<1>0. Present(k) = P
  BY PresentElements DEF PresentIsElements
<1>1. map[k] = IF P = {} THEN Absent ELSE data[CHOOSE n \in P : TRUE].val
  <2> HIDE DEF P
  <2> QED
    BY <1>0 DEF map
<1>2. ASSUME NEW n \in Elements, data[n].key = k
      PROVE  map[k] = data[n].val /\ map[k] \in Value
  <2>1. n \in P /\ (CHOOSE m \in P : TRUE) \in P
    BY <1>2
  <2>2. (CHOOSE m \in P : TRUE) = n
    BY <2>1, <1>2, OneElement
  <2> HIDE DEF P
  <2>3. map[k] = data[n].val
    BY <1>1, <2>1, <2>2
  <2>4. n \in Listed
    BY DEF Elements
  <2> QED
    BY <2>3, <2>4, ListedData
<1>3. ASSUME \A n \in Elements : data[n].key # k
      PROVE  map[k] = Absent
  BY <1>1, <1>3
<1> QED
  BY <1>2, <1>3

MapTyped == \A k \in Key : map[k] \in Value \union {Absent}

LEMMA MapTyping == DataOK => MapTyped
<1> SUFFICES ASSUME DataOK, NEW k \in Key PROVE map[k] \in Value \union {Absent}
  BY DEF MapTyped
<1>1. \A n \in Present(k) : data[n].val \in Value
  BY DEF Present, DataOK, ElementType
<1> QED
  BY <1>1 DEF map

LEMMA SameMap ==
  ASSUME IInv, IInv', Elements' = Elements, \A n \in Elements : data'[n] = data[n]
  PROVE  map' = map
<1>1. PresentIsElements /\ PresentIsElements'
  BY PresentElements, PTL
<1>2. ASSUME NEW k
      PROVE  Present(k)' = Present(k) /\ \A n \in Present(k) : data'[n] = data[n]
  BY <1>1 DEF PresentIsElements
<1>3. ASSUME NEW k
      PROVE  (IF Present(k)' = {} THEN Absent ELSE data'[CHOOSE n \in Present(k)' : TRUE].val)
                = (IF Present(k) = {} THEN Absent ELSE data[CHOOSE n \in Present(k) : TRUE].val)
  <2> DEFINE P == Present(k)
  <2>1. P' = P /\ (P # {} => (CHOOSE n \in P : TRUE) \in P) /\ \A n \in P : data'[n] = data[n]
    BY <1>2
  <2> HIDE DEF P
  <2>2. (IF P' = {} THEN Absent ELSE data'[CHOOSE n \in P' : TRUE].val)
           = (IF P = {} THEN Absent ELSE data[CHOOSE n \in P : TRUE].val)
    BY <2>1
  <2> QED
    BY <2>2 DEF P
<1> QED
  BY <1>3 DEF map

\* A node that is marked leaves the map ...
LEMMA MapLess ==
  ASSUME IInv, IInv', DataOK, NEW R, Ordered(R), NEW n \in Elements, Elements' = Elements \ {n},
         data' = data
  PROVE  map' = [map EXCEPT ![data[n].key] = Absent]
<1>1. PresentIsElements /\ PresentIsElements'
  BY PresentElements, PTL
<1>2. \A m \in Elements : data[m].key = data[n].key => m = n
  BY OneElement
<1>3. Present(data[n].key)' = {}
  BY <1>1, <1>2 DEF PresentIsElements
<1>4. ASSUME NEW k \in Key, k # data[n].key PROVE Present(k)' = Present(k)
  BY <1>1, <1>4 DEF PresentIsElements
<1>5. ASSUME NEW k \in Key
      PROVE  map'[k] = (IF k = data[n].key THEN Absent ELSE map[k])
  <2>1. CASE k = data[n].key
    BY <1>3, <2>1 DEF map
  <2>2. CASE k # data[n].key
    <3> DEFINE P == Present(k)
    <3>1. P' = P
      BY <1>4, <2>2
    <3>2. map'[k] = (IF P' = {} THEN Absent ELSE data'[CHOOSE m \in P' : TRUE].val)
      BY DEF map
    <3>3. map[k] = (IF P = {} THEN Absent ELSE data[CHOOSE m \in P : TRUE].val)
      BY DEF map
    <3> HIDE DEF P
    <3> QED
      BY <2>2, <3>1, <3>2, <3>3
  <2> QED
    BY <2>1, <2>2
<1>6. map = [k \in Key |-> map[k]] /\ map' = [k \in Key |-> map'[k]]
  BY DEF map
<1> HIDE DEF map
<1> QED
  BY <1>5, <1>6

\* ... and one that is linked joins it.
LEMMA MapMore ==
  ASSUME IInv, IInv', NEW n, Elements' = Elements \union {n}, data' = data,
         \A m \in Elements : data[m].key # data[n].key
  PROVE  map' = [map EXCEPT ![data[n].key] = data[n].val]
<1>1. PresentIsElements /\ PresentIsElements'
  BY PresentElements, PTL
<1>3. Present(data[n].key)' = {n}
  BY <1>1 DEF PresentIsElements
<1>4. ASSUME NEW k \in Key, k # data[n].key PROVE Present(k)' = Present(k)
  BY <1>1, <1>4 DEF PresentIsElements
<1>5. ASSUME NEW k \in Key
      PROVE  map'[k] = (IF k = data[n].key THEN data[n].val ELSE map[k])
  <2> DEFINE P == Present(k)
  <2>2. map'[k] = (IF P' = {} THEN Absent ELSE data'[CHOOSE m \in P' : TRUE].val)
    BY DEF map
  <2>3. map[k] = (IF P = {} THEN Absent ELSE data[CHOOSE m \in P : TRUE].val)
    BY DEF map
  <2>4. CASE k = data[n].key
    <3>1. P' = {n}
      BY <1>3, <2>4
    <3>2. (CHOOSE m \in {n} : TRUE) = n
      OBVIOUS
    <3> HIDE DEF P
    <3> QED
      BY <2>2, <2>4, <3>1, <3>2
  <2>5. CASE k # data[n].key
    <3>1. P' = P
      BY <1>4, <2>5
    <3> HIDE DEF P
    <3> QED
      BY <2>2, <2>3, <2>5, <3>1
  <2> QED
    BY <2>4, <2>5
<1>6. map = [k \in Key |-> map[k]] /\ map' = [k \in Key |-> map'[k]]
  BY DEF map
<1> HIDE DEF map
<1> QED
  BY <1>5, <1>6

-----------------------------------------------------------------------------
(* What a step leaves alone                                                *)

LEMMA SameOrder ==
  ASSUME IInv, NEW R, Ordered(R), Listed' = Listed, \A n \in Listed : data'[n] = data[n],
         \A l \in Source : next'[l].ptr = next[l].ptr
  PROVE  Ordered(R)'
<1>1. \A l \in Source : next[l].ptr # Null => next[l].ptr \in Listed
  BY DEF IInv, ListOK
<1>2. \A m, n \in Listed : GE(m, n)' = GE(m, n)
  BY DEF GE, GreaterOrEqual
<1>3. \A n \in Listed : BucketAt(n)' = BucketAt(n)
  BY DEF BucketAt, BucketOf
<1> QED
  BY <1>1, <1>2, <1>3 DEF Ordered, Source

LEMMA SearchKept ==
  ASSUME NEW R, NEW u \in Thread, SearchOK(u, R), pc'[u] = pc[u], info'[u] = info[u],
         Listed' \subseteq Listed, \A n \in Listed : data'[n] = data[n]
  PROVE  SearchOK(u, R)'
<1>1. \A l, k : Behind(l, k, R) => Behind(l, k, R)'
  BY DEF Behind, BucketAt, BucketOf, GreaterOrEqual
<1> QED
  BY <1>1 DEF SearchOK

\* Nodes that are in use keep their element.
DataKept == \A n \in Node : status[n] # "free" => data'[n] = data[n]

LEMMA SafeData ==
  ASSUME DataKept, RTypeOK
  PROVE  /\ \A n \in Listed : data'[n] = data[n]
         /\ \A g \in Safe : data'[slot[g[1]][g[2]]] = data[slot[g[1]][g[2]]]
BY DEF DataKept, Listed, Safe

LEMMA OtherCallOK ==
  ASSUME IInv, NEW R, NEW u \in Thread, ThreadOK(u, R),
         pc'[u] = pc[u], info'[u] = info[u], call'[u] = call[u], res'[u] = res[u],
         slot'[u] = slot[u], DataKept,
         \A s \in Slot : <<u, s>> \in Safe => <<u, s>> \in Safe',
         info[u].mine # Null => next'[info[u].mine] = next[info[u].mine]
  PROVE  /\ SuccessorOK(u)' /\ MineDataOK(u)' /\ CallOK(u)' /\ Cur(u)' = Cur(u)
         /\ pc[u] \in CurPC => data'[Cur(u)] = data[Cur(u)]
<1>1. info[u].cur \in Slot /\ Cur(u)' = Cur(u) /\ InfoOK(u) /\ MineOK(u) /\ LocalOK(u)
  BY SlotNames DEF IInv, Types, InfoOK, Cur
<1>2. /\ <<u, info[u].cur>> \in Safe => data'[Cur(u)] = data[Cur(u)]
      /\ pc[u] \in CurPC => <<u, info[u].cur>> \in Safe
  BY <1>1, SafeData DEF Cur, LocalOK, IInv, Types
<1>3. info[u].mine # Null => data'[info[u].mine] = data[info[u].mine]
  BY <1>1 DEF MineOK, DataKept, InfoOK
<1>4. SuccessorOK(u)'
  BY <1>1, <1>2 DEF ThreadOK, SuccessorOK, Beyond, GreaterOrEqual, MineOK
<1>5. MineDataOK(u)'
  BY <1>3 DEF ThreadOK, MineDataOK
<1>6. CallOK(u)'
  BY DEF ThreadOK, CallOK, BucketOf
<1> QED
  BY <1>1, <1>2, <1>4, <1>5, <1>6

\* What a step of thread t leaves the others
OthersStill(t) == \A u \in Thread \ {t} :
    /\ pc'[u] = pc[u] /\ info'[u] = info[u] /\ call'[u] = call[u] /\ res'[u] = res[u]
    /\ slot'[u] = slot[u]
    /\ \A s \in Slot : <<u, s>> \in Safe => <<u, s>> \in Safe'
    /\ info[u].mine # Null => next'[info[u].mine] = next[info[u].mine]

SameAnswers(t) == \A u \in Thread \ {t} :
    /\ could'[u] = could[u]
    /\ pc[u] \in CurPC => next'[Cur(u)].mark = next[Cur(u)].mark

LEMMA OthersOK ==
  ASSUME IInv, IInv', NEW R, Good(R), NEW t, Ordered(R)', Listed' \subseteq Listed,
         Elements' = Elements, DataKept, OthersStill(t), SameAnswers(t),
         t \in Thread => ThreadOK(t, R)'
  PROVE  Good(R)'
<1>1. \A n \in Listed : data'[n] = data[n]
  BY SafeData DEF IInv, Types
<1>2. map' = map
  BY <1>1, SameMap DEF Elements
<1>3. ASSUME NEW u \in Thread, u # t
      PROVE  ThreadOK(u, R)'
  <2>1. ThreadOK(u, R)
    BY DEF Good
  <2>2. SearchOK(u, R)'
    BY <1>1, <1>3, <2>1, SearchKept DEF OthersStill, ThreadOK
  <2>3. /\ SuccessorOK(u)' /\ MineDataOK(u)' /\ CallOK(u)' /\ Cur(u)' = Cur(u)
        /\ pc[u] \in CurPC => data'[Cur(u)] = data[Cur(u)]
    BY <1>3, <2>1, OtherCallOK DEF OthersStill
  <2>4. CouldOK(u)'
    BY <1>2, <1>3, <2>1 DEF ThreadOK, CouldOK, Effected, M!Answers, OthersStill, SameAnswers
  <2>5. FoundOK(u)'
    BY <1>3, <2>1, <2>3 DEF ThreadOK, FoundOK, CurPC, OthersStill, SameAnswers
  <2> QED
    BY <2>2, <2>3, <2>4, <2>5 DEF ThreadOK
<1> QED
  BY <1>3 DEF Good

\* A step that leaves the lists, the map and the other threads alone
Still(t) ==
    /\ Listed' = Listed /\ Elements' = Elements /\ DataKept
    /\ \A l \in Source : next'[l].ptr = next[l].ptr
    /\ OthersStill(t) /\ SameAnswers(t)

LEMMA StillOK ==
  ASSUME IInv, IInv', NEW R, Good(R), NEW t, Still(t),
         map' = map /\ Listed' = Listed /\ t \in Thread => ThreadOK(t, R)'
  PROVE  Good(R)' /\ map' = map /\ Listed' = Listed
<1>1. \A n \in Listed : data'[n] = data[n]
  BY SafeData DEF Still, IInv, Types
<1>2. map' = map /\ Listed' = Listed
  BY <1>1, SameMap DEF Still, Elements
<1>3. Ordered(R)'
  BY <1>1, SameOrder DEF Still, Good
<1>4. t \in Thread => ThreadOK(t, R)'
  BY <1>2
<1> QED
  BY <1>2, <1>3, <1>4, OthersOK DEF Still

\* What thread t does on its own, without touching a node or a link
Goes(t) == /\ Quietly(t) /\ data' = data
           /\ \A u \in Thread \ {t} : res'[u] = res[u] /\ could'[u] = could[u]

LEMMA QuietlyStill ==
  ASSUME IInv, NEW t \in Thread, Goes(t), NEW S, GuardsKept(t, S)
  PROVE  Still(t)
<1>1. FreshNodes' = FreshNodes
  BY QuietFresh DEF Goes
<1>2. /\ status' = status /\ next' = next /\ data' = data
      /\ \A u \in Thread \ {t} : /\ pc'[u] = pc[u] /\ info'[u] = info[u] /\ call'[u] = call[u]
                               /\ slot'[u] = slot[u] /\ res'[u] = res[u] /\ could'[u] = could[u]
      /\ \A g \in pinned : g[1] # t => g \in pinned'
      /\ pc[t] \notin HeldPC /\ pc'[t] \notin HeldPC
  BY DEF Goes, Quietly, GuardsKept
<1>3. HeldNodes' = HeldNodes
  BY <1>2 DEF HeldNodes
<1>4. Listed' = Listed /\ Elements' = Elements
  BY <1>1, <1>2, <1>3 DEF Listed, Elements
<1>5. ASSUME NEW u \in Thread \ {t}, NEW s \in Slot, <<u, s>> \in Safe
      PROVE  <<u, s>> \in Safe'
  BY <1>1, <1>2, <1>5 DEF Safe, Guard
<1> QED
  BY <1>2, <1>4, <1>5 DEF Still, DataKept, OthersStill, SameAnswers

LEMMA QuietOK ==
  ASSUME IInv, IInv', NEW R, Good(R), NEW t \in Thread, Goes(t), NEW S, GuardsKept(t, S),
         map' = map /\ Listed' = Listed => ThreadOK(t, R)'
  PROVE  Good(R)' /\ map' = map /\ Listed' = Listed
<1>1. Still(t)
  BY QuietlyStill
<1> QED
  BY <1>1, StillOK

\* A step inside a call that neither begins nor ends a search with a result
Inside(t) ==
    /\ call'[t] = call[t] /\ could'[t] = could[t] /\ res'[t] = res[t]
    /\ \A f \in {"key", "bucket", "mine", "then"} : info'[t][f] = info[t][f]
    /\ pc[t] \notin {"idle", "done", "gone", "it_load", "it_mark", "inserted"}
    /\ pc'[t] \notin {"idle", "done", "gone", "inserted", "end"}
    /\ pc'[t] \in InsertPC => call[t].op = "insert"
    /\ pc'[t] \in RemovePC => call[t].op = "remove" /\ info[t].then # "scan"
    /\ pc'[t] = "use" => call[t].op # "remove"
    /\ pc'[t] \in InsertPC \union {"use", "mark", "it_load"} => info[t].then = "call"
    /\ pc'[t] = "it_mark" => info[t].then # "success"
    /\ pc'[t] \in {"unlink", "reclaim"} => info[t].then # "call"

LEMMA InsideOK ==
  ASSUME NEW R, NEW t \in Thread, ThreadOK(t, R), Inside(t), map' = map,
         info[t].mine # Null => data'[info[t].mine] = data[info[t].mine]
  PROVE  MineDataOK(t)' /\ CallOK(t)' /\ CouldOK(t)'
<1>0. info'[t].key = info[t].key /\ info'[t].bucket = info[t].bucket
      /\ info'[t].mine = info[t].mine /\ info'[t].then = info[t].then
  BY DEF Inside
<1>1. MineDataOK(t)'
  BY <1>0 DEF ThreadOK, MineDataOK, Inside
<1>2. CallOK(t)'
  BY <1>0 DEF ThreadOK, CallOK, Inside, BucketOf
<1>3. CouldOK(t)'
  BY <1>0 DEF ThreadOK, CouldOK, Effected, M!Answers, Inside
<1> QED
  BY <1>1, <1>2, <1>3

LEMMA BehindSame ==
  ASSUME NEW l, NEW k, NEW R, Listed' = Listed, data' = data
  PROVE  Behind(l, k, R)' = Behind(l, k, R)
BY DEF Behind, BucketAt, BucketOf, GreaterOrEqual

\* A step of a search or call without an effect on the abstract map
Hidden == map' = map /\ UNCHANGED <<call, could, res>>
MStep == Hidden \/ M!MNext

LEMMA EnterGood ==
  ASSUME IInv, IInv', DataOK, NEW R, Good(R), NEW t \in Thread, Enter(t)
  PROVE  Good(R)' /\ MStep
<1>1. Types /\ RTypeOK /\ InfoOK(t) /\ ThreadOK(t, R)
  BY DEF IInv, Types, Good
<1>2. /\ pc[t] = "enter" /\ pc'[t] = "first"
      /\ Kept(t, {"start"}) /\ info'[t].start = info[t].prev
      /\ Goes(t) /\ UNCHANGED <<call, could, res>>
  BY <1>1 DEF Types, InfoOK, Enter, Goto, Set, Quiet, Pure, Fields, Kept, Goes, Quietly, HeldPC
<1>3. GuardsKept(t, {"start"})
  <2>1. slot[t][info[t].save] \in Node \union {Null} /\ "start" \in Slot
    BY <1>1, SlotNames DEF RTypeOK, InfoOK
  <2> QED
    BY <1>1, <1>2, <2>1, QuietFresh, PublishGuard DEF Enter, Quietly, Goes
<1>4. ASSUME map' = map, Listed' = Listed PROVE ThreadOK(t, R)'
  <2>1. MineDataOK(t)' /\ CallOK(t)' /\ CouldOK(t)'
    BY <1>1, <1>2, <1>4, InsideOK DEF Inside, Kept, Fields, Goes, InsertPC, RemovePC
  <2>2. SearchOK(t, R)'
    BY <1>1, <1>2, <1>4, BehindSame
       DEF ThreadOK, SearchOK, Kept, Fields, Goes, PrevPC, FindPC
  <2>3. SuccessorOK(t)' /\ FoundOK(t)'
    BY <1>2 DEF SuccessorOK, FoundOK
  <2> QED
    BY <2>1, <2>2, <2>3 DEF ThreadOK
<1> QED
  BY <1>2, <1>3, <1>4, QuietOK DEF MStep, Hidden

LEMMA RetryGood ==
  ASSUME IInv, IInv', DataOK, NEW R, Good(R), NEW t \in Thread, Retry(t)
  PROVE  Good(R)' /\ MStep
<1>1. Types /\ RTypeOK /\ InfoOK(t) /\ LocalOK(t) /\ ThreadOK(t, R)
  BY DEF IInv, Types, Good
<1>2. /\ pc[t] = "retry" /\ pc'[t] = "first"
      /\ Kept(t, {"prev"}) /\ info'[t].prev = info[t].start
      /\ Goes(t) /\ UNCHANGED <<call, could, res>>
  BY <1>1 DEF Types, InfoOK, Retry, Goto, Set, Quiet, Pure, Fields, Kept, Goes, Quietly, HeldPC
<1>3. GuardsKept(t, {info[t].save})
  <2>1. slot[t]["start"] \in Node \union {Null} /\ info[t].save \in Slot
    BY <1>1, SlotNames DEF RTypeOK, InfoOK, LinkType
  <2> QED
    BY <1>1, <1>2, <2>1, QuietFresh, PublishGuard DEF Retry, Quietly, Goes
<1>4. ASSUME map' = map, Listed' = Listed PROVE ThreadOK(t, R)'
  <2>1. MineDataOK(t)' /\ CallOK(t)' /\ CouldOK(t)'
    BY <1>1, <1>2, <1>4, InsideOK
       DEF Inside, Kept, Fields, Goes, InsertPC, RemovePC, ThreadOK, CallOK, LocalOK
  <2>2. SearchOK(t, R)'
    BY <1>1, <1>2, <1>4, BehindSame
       DEF ThreadOK, SearchOK, CallOK, LocalOK, Kept, Fields, Goes, PrevPC, FindPC
  <2>3. SuccessorOK(t)'
    BY <1>2 DEF SuccessorOK
  <2>4. FoundOK(t)'
    BY <1>2 DEF FoundOK
  <2> QED
    BY <2>1, <2>2, <2>3, <2>4 DEF ThreadOK
<1> QED
  BY <1>2, <1>3, <1>4, QuietOK DEF MStep, Hidden

LEMMA FirstGood ==
  ASSUME IInv, IInv', DataOK, NEW R, Good(R), NEW t \in Thread, First(t)
  PROVE  Good(R)' /\ MStep
<1>1. Types /\ RTypeOK /\ InfoOK(t) /\ LocalOK(t) /\ ThreadOK(t, R)
  BY DEF IInv, Types, Good
<1>2. /\ pc[t] = "first" /\ pc'[t] = "acquire"
      /\ Kept(t, {"next"})
      /\ Goes(t) /\ UNCHANGED <<call, could, res>>
  BY <1>1 DEF Types, InfoOK, First, Goto, Set, Quiet, Pure, Fields, Kept, Goes, Quietly, HeldPC
<1>3. GuardsKept(t, {})
  BY <1>1, <1>2, QuietFresh, SameGuards DEF First, Pure, Quietly, Goes
<1>4. ASSUME map' = map, Listed' = Listed PROVE ThreadOK(t, R)'
  <2>1. MineDataOK(t)' /\ CallOK(t)' /\ CouldOK(t)'
    BY <1>1, <1>2, <1>4, InsideOK
       DEF Inside, Kept, Fields, Goes, InsertPC, RemovePC, ThreadOK, CallOK, LocalOK
  <2>2. SearchOK(t, R)'
    BY <1>1, <1>2, <1>4, BehindSame
       DEF ThreadOK, SearchOK, CallOK, LocalOK, Kept, Fields, Goes, PrevPC, FindPC
  <2>3. SuccessorOK(t)'
    BY <1>2 DEF SuccessorOK
  <2>4. FoundOK(t)'
    BY <1>2 DEF FoundOK
  <2> QED
    BY <2>1, <2>2, <2>3, <2>4 DEF ThreadOK
<1> QED
  BY <1>2, <1>3, <1>4, QuietOK DEF MStep, Hidden

LEMMA FirstMarkedGood ==
  ASSUME IInv, IInv', DataOK, NEW R, Good(R), NEW t \in Thread, FirstMarked(t)
  PROVE  Good(R)' /\ MStep
<1>1. Types /\ RTypeOK /\ InfoOK(t) /\ LocalOK(t) /\ ThreadOK(t, R)
  BY DEF IInv, Types, Good
<1>2. /\ pc[t] = "first" /\ pc'[t] = "retry"
      /\ Kept(t, {"start"}) /\ info'[t].start = info[t].bucket
      /\ Goes(t) /\ UNCHANGED <<call, could, res>>
  BY <1>1 DEF Types, InfoOK, FirstMarked, Goto, Set, Quiet, Pure, Fields, Kept, Goes, Quietly,
     HeldPC
<1>3. GuardsKept(t, {"start"})
  <2>1. {"start"} \in SUBSET Slot
    BY <1>1, SlotNames DEF InfoOK
  <2> QED
    BY <1>1, <1>2, <2>1, QuietFresh, ReleaseGuard DEF FirstMarked, Quietly, Goes
<1>5. info[t].then = "call" => Behind(info[t].bucket, info[t].key, R)
  <2>1. info[t].bucket \in Bucket /\ (info[t].then = "call" => info[t].bucket = BucketOf(info[t].key))
    BY <1>1, <1>2 DEF LocalOK, ThreadOK, CallOK
  <2>2. info[t].bucket \notin Listed
    BY <2>1, BucketType DEF Listed
  <2> QED
    BY <2>1, <2>2 DEF Behind
<1>4. ASSUME map' = map, Listed' = Listed PROVE ThreadOK(t, R)'
  <2>1. MineDataOK(t)' /\ CallOK(t)' /\ CouldOK(t)'
    BY <1>1, <1>2, <1>4, InsideOK
       DEF Inside, Kept, Fields, Goes, InsertPC, RemovePC, ThreadOK, CallOK, LocalOK
  <2>2. SearchOK(t, R)'
    BY <1>1, <1>2, <1>4, BehindSame, <1>5
       DEF ThreadOK, SearchOK, CallOK, LocalOK, Kept, Fields, Goes, PrevPC, FindPC
  <2>3. SuccessorOK(t)'
    BY <1>2 DEF SuccessorOK
  <2>4. FoundOK(t)'
    BY <1>2 DEF FoundOK
  <2> QED
    BY <2>1, <2>2, <2>3, <2>4 DEF ThreadOK
<1> QED
  BY <1>2, <1>3, <1>4, QuietOK DEF MStep, Hidden

LEMMA AcquireGood ==
  ASSUME IInv, IInv', DataOK, NEW R, Good(R), NEW t \in Thread, Acquire(t)
  PROVE  Good(R)' /\ MStep
<1>1. Types /\ RTypeOK /\ InfoOK(t) /\ LocalOK(t) /\ ThreadOK(t, R)
  BY DEF IInv, Types, Good
<1>2. /\ pc[t] = "acquire" /\ pc'[t] = "validate"
      /\ Kept(t, {})
      /\ Goes(t) /\ UNCHANGED <<call, could, res>>
  BY <1>1 DEF Types, InfoOK, Acquire, Goto, Set, Quiet, Pure, Fields, Kept, Goes, Quietly, HeldPC
<1>3. GuardsKept(t, {info[t].cur})
  <2>1. info[t].next.ptr \in Node \union {Null} /\ info[t].cur \in Slot
    BY <1>1, SlotNames DEF RTypeOK, InfoOK, LinkType
  <2> QED
    BY <1>1, <1>2, <2>1, QuietFresh, PublishGuard DEF Acquire, Quietly, Goes
<1>4. ASSUME map' = map, Listed' = Listed PROVE ThreadOK(t, R)'
  <2>1. MineDataOK(t)' /\ CallOK(t)' /\ CouldOK(t)'
    BY <1>1, <1>2, <1>4, InsideOK
       DEF Inside, Kept, Fields, Goes, InsertPC, RemovePC, ThreadOK, CallOK, LocalOK
  <2>2. SearchOK(t, R)'
    BY <1>1, <1>2, <1>4, BehindSame
       DEF ThreadOK, SearchOK, CallOK, LocalOK, Kept, Fields, Goes, PrevPC, FindPC
  <2>3. SuccessorOK(t)'
    BY <1>2 DEF SuccessorOK
  <2>4. FoundOK(t)'
    BY <1>2 DEF FoundOK
  <2> QED
    BY <2>1, <2>2, <2>3, <2>4 DEF ThreadOK
<1> QED
  BY <1>2, <1>3, <1>4, QuietOK DEF MStep, Hidden

LEMMA ValidateGood ==
  ASSUME IInv, IInv', DataOK, NEW R, Good(R), NEW t \in Thread, Validate(t)
  PROVE  Good(R)' /\ MStep
<1>1. Types /\ RTypeOK /\ InfoOK(t) /\ LocalOK(t) /\ ThreadOK(t, R)
  BY DEF IInv, Types, Good
<1>2. /\ pc[t] = "validate" /\ pc'[t] \in {"load", "retry"}
      /\ Kept(t, {})
      /\ Goes(t) /\ UNCHANGED <<call, could, res>>
  BY <1>1 DEF Types, InfoOK, Validate, Goto, Set, Quiet, Pure, Fields, Kept, Goes, Quietly, HeldPC
<1>3. GuardsKept(t, {info[t].cur})
  <2>1. CASE At(t) = info[t].next
    <3>1. GuardsKept(t, {})
      BY <1>1, <1>2, <2>1, QuietFresh, SameGuards DEF Validate, Quietly, Goes
    <3> QED
      BY <3>1 DEF GuardsKept
  <2>2. CASE At(t) # info[t].next
    <3>1. {info[t].cur} \in SUBSET Slot
      BY <1>1, SlotNames DEF InfoOK
    <3> QED
      BY <1>1, <1>2, <2>2, <3>1, QuietFresh, ReleaseGuard DEF Validate, Quietly, Goes
  <2> QED
    BY <2>1, <2>2
<1>4. ASSUME map' = map, Listed' = Listed PROVE ThreadOK(t, R)'
  <2>1. MineDataOK(t)' /\ CallOK(t)' /\ CouldOK(t)'
    BY <1>1, <1>2, <1>4, InsideOK
       DEF Inside, Kept, Fields, Goes, InsertPC, RemovePC, ThreadOK, CallOK, LocalOK
  <2>2. SearchOK(t, R)'
    BY <1>1, <1>2, <1>4, BehindSame
       DEF ThreadOK, SearchOK, CallOK, LocalOK, Kept, Fields, Goes, PrevPC, FindPC
  <2>3. SuccessorOK(t)'
    BY <1>2 DEF SuccessorOK
  <2>4. FoundOK(t)'
    BY <1>2 DEF FoundOK
  <2> QED
    BY <2>1, <2>2, <2>3, <2>4 DEF ThreadOK
<1> QED
  BY <1>2, <1>3, <1>4, QuietOK DEF MStep, Hidden

\* A node that is not marked when its link is loaded is in the map then.

LEMMA LoadGood ==
  ASSUME IInv, IInv', DataOK, NEW R, Good(R), NEW t \in Thread, Load(t)
  PROVE  Good(R)' /\ MStep
<1>1. Types /\ RTypeOK /\ InfoOK(t) /\ LocalOK(t) /\ ThreadOK(t, R)
  BY DEF IInv, Types, Good
<1>2. /\ pc[t] = "load" /\ pc'[t] \in {"splice", "check"}
      /\ (pc'[t] = "check" => ~next[Cur(t)].mark)
      /\ Kept(t, {"next"})
      /\ Goes(t) /\ UNCHANGED <<call, could, res>>
  BY <1>1 DEF Types, InfoOK, Load, Goto, Set, Quiet, Pure, Fields, Kept, Goes, Quietly, HeldPC
<1>3. GuardsKept(t, {})
  BY <1>1, <1>2, QuietFresh, SameGuards DEF Load, Pure, Quietly, Goes
<1>5. Cur(t)' = Cur(t) /\ next' = next
  BY <1>2 DEF Cur, Kept, Fields, Load, Pure
<1>6. ~next[Cur(t)].mark => Cur(t) \in Elements
  BY <1>1, <1>2, SafeListed, SlotNames DEF LocalOK, CurPC, InfoOK, Cur, Elements
<1>4. ASSUME map' = map, Listed' = Listed PROVE ThreadOK(t, R)'
  <2>1. MineDataOK(t)' /\ CallOK(t)' /\ CouldOK(t)'
    BY <1>1, <1>2, <1>4, InsideOK
       DEF Inside, Kept, Fields, Goes, InsertPC, RemovePC, ThreadOK, CallOK, LocalOK
  <2>2. SearchOK(t, R)'
    BY <1>1, <1>2, <1>4, BehindSame
       DEF ThreadOK, SearchOK, CallOK, LocalOK, Kept, Fields, Goes, PrevPC, FindPC
  <2>3. SuccessorOK(t)'
    BY <1>2 DEF SuccessorOK
  <2>4. FoundOK(t)'
    <3> SUFFICES ASSUME pc'[t] = "check", info[t].then = "call", data[Cur(t)].key = info[t].key
                 PROVE  FoundOK(t)'
      BY <1>2, <1>5 DEF FoundOK, Goes, Kept, Fields
    <3>0. CallOK(t) /\ pc[t] = "load"
      BY <1>1, <1>2 DEF ThreadOK
    <3>4. info[t].key = call[t].key /\ call[t] \in MapCalls
      BY <3>0 DEF CallOK
    <3>1. info[t].key \in Key /\ info[t].key = call[t].key /\ call[t] \in MapCalls
      BY <3>4, CallType
    <3>2. map[call[t].key] = data[Cur(t)].val /\ map[call[t].key] \in Value
      BY <1>2, <1>6, <3>1, MapValue DEF Good
    <3>3. M!Answers(call[t], map) \subseteq could[t]
      BY <1>2 DEF ThreadOK, CouldOK, Effected, Good
    <3> QED
      BY <1>2, <1>5, <3>1, <3>2, <3>3, HMAnswerAssumption DEF FoundOK, Goes, Kept, Fields, M!Answers
  <2> QED
    BY <2>1, <2>2, <2>3, <2>4 DEF ThreadOK
<1> QED
  BY <1>2, <1>3, <1>4, QuietOK DEF MStep, Hidden

LEMMA SpliceFailsGood ==
  ASSUME IInv, IInv', DataOK, NEW R, Good(R), NEW t \in Thread, SpliceFails(t)
  PROVE  Good(R)' /\ MStep
<1>1. Types /\ RTypeOK /\ InfoOK(t) /\ LocalOK(t) /\ ThreadOK(t, R)
  BY DEF IInv, Types, Good
<1>2. /\ pc[t] = "splice" /\ pc'[t] = "retry"
      /\ Kept(t, {})
      /\ Goes(t) /\ UNCHANGED <<call, could, res>>
  BY <1>1 DEF Types, InfoOK, SpliceFails, Goto, Set, Quiet, Pure, Fields, Kept, Goes, Quietly,
     HeldPC
<1>3. GuardsKept(t, {})
  BY <1>1, <1>2, QuietFresh, SameGuards DEF SpliceFails, Pure, Quietly, Goes
<1>4. ASSUME map' = map, Listed' = Listed PROVE ThreadOK(t, R)'
  <2>1. MineDataOK(t)' /\ CallOK(t)' /\ CouldOK(t)'
    BY <1>1, <1>2, <1>4, InsideOK
       DEF Inside, Kept, Fields, Goes, InsertPC, RemovePC, ThreadOK, CallOK, LocalOK
  <2>2. SearchOK(t, R)'
    BY <1>1, <1>2, <1>4, BehindSame
       DEF ThreadOK, SearchOK, CallOK, LocalOK, Kept, Fields, Goes, PrevPC, FindPC
  <2>3. SuccessorOK(t)'
    BY <1>2 DEF SuccessorOK
  <2>4. FoundOK(t)'
    BY <1>2 DEF FoundOK
  <2> QED
    BY <2>1, <2>2, <2>3, <2>4 DEF ThreadOK
<1> QED
  BY <1>2, <1>3, <1>4, QuietOK DEF MStep, Hidden

LEMMA InsertCasFailsGood ==
  ASSUME IInv, IInv', DataOK, NEW R, Good(R), NEW t \in Thread, InsertCasFails(t)
  PROVE  Good(R)' /\ MStep
<1>1. Types /\ RTypeOK /\ InfoOK(t) /\ LocalOK(t) /\ ThreadOK(t, R)
  BY DEF IInv, Types, Good
<1>2. /\ pc[t] = "insert" /\ pc'[t] = "enter"
      /\ Kept(t, {})
      /\ Goes(t) /\ UNCHANGED <<call, could, res>>
  BY <1>1 DEF Types, InfoOK, InsertCasFails, Goto, Set, Quiet, Pure, Fields, Kept, Goes, Quietly,
     HeldPC
<1>3. GuardsKept(t, {info[t].new})
  <2>1. {info[t].new} \in SUBSET Slot
    BY <1>1, SlotNames DEF InfoOK
  <2> QED
    BY <1>1, <1>2, <2>1, QuietFresh, ReleaseGuard DEF InsertCasFails, Quietly, Goes
<1>4. ASSUME map' = map, Listed' = Listed PROVE ThreadOK(t, R)'
  <2>1. MineDataOK(t)' /\ CallOK(t)' /\ CouldOK(t)'
    BY <1>1, <1>2, <1>4, InsideOK
       DEF Inside, Kept, Fields, Goes, InsertPC, RemovePC, ThreadOK, CallOK, LocalOK
  <2>2. SearchOK(t, R)'
    BY <1>1, <1>2, <1>4, BehindSame
       DEF ThreadOK, SearchOK, CallOK, LocalOK, Kept, Fields, Goes, PrevPC, FindPC
  <2>3. SuccessorOK(t)'
    BY <1>2 DEF SuccessorOK
  <2>4. FoundOK(t)'
    BY <1>2 DEF FoundOK
  <2> QED
    BY <2>1, <2>2, <2>3, <2>4 DEF ThreadOK
<1> QED
  BY <1>2, <1>3, <1>4, QuietOK DEF MStep, Hidden

LEMMA MarkFailsGood ==
  ASSUME IInv, IInv', DataOK, NEW R, Good(R), NEW t \in Thread, MarkFails(t)
  PROVE  Good(R)' /\ MStep
<1>1. Types /\ RTypeOK /\ InfoOK(t) /\ LocalOK(t) /\ ThreadOK(t, R)
  BY DEF IInv, Types, Good
<1>2. /\ pc[t] = "mark" /\ pc'[t] = "enter"
      /\ Kept(t, {})
      /\ Goes(t) /\ UNCHANGED <<call, could, res>>
  BY <1>1 DEF Types, InfoOK, MarkFails, Goto, Set, Quiet, Pure, Fields, Kept, Goes, Quietly, HeldPC
<1>3. GuardsKept(t, {})
  BY <1>1, <1>2, QuietFresh, SameGuards DEF MarkFails, Pure, Quietly, Goes
<1>4. ASSUME map' = map, Listed' = Listed PROVE ThreadOK(t, R)'
  <2>1. MineDataOK(t)' /\ CallOK(t)' /\ CouldOK(t)'
    BY <1>1, <1>2, <1>4, InsideOK
       DEF Inside, Kept, Fields, Goes, InsertPC, RemovePC, ThreadOK, CallOK, LocalOK
  <2>2. SearchOK(t, R)'
    BY <1>1, <1>2, <1>4, BehindSame
       DEF ThreadOK, SearchOK, CallOK, LocalOK, Kept, Fields, Goes, PrevPC, FindPC
  <2>3. SuccessorOK(t)'
    BY <1>2 DEF SuccessorOK
  <2>4. FoundOK(t)'
    BY <1>2 DEF FoundOK
  <2> QED
    BY <2>1, <2>2, <2>3, <2>4 DEF ThreadOK
<1> QED
  BY <1>2, <1>3, <1>4, QuietOK DEF MStep, Hidden

LEMMA UnlinkFailsGood ==
  ASSUME IInv, IInv', DataOK, NEW R, Good(R), NEW t \in Thread, UnlinkFails(t)
  PROVE  Good(R)' /\ MStep
<1>1. Types /\ RTypeOK /\ InfoOK(t) /\ LocalOK(t) /\ ThreadOK(t, R)
  BY DEF IInv, Types, Good
<1>2. /\ pc[t] = "unlink" /\ pc'[t] = "enter"
      /\ Kept(t, {})
      /\ Goes(t) /\ UNCHANGED <<call, could, res>>
  BY <1>1 DEF Types, InfoOK, UnlinkFails, Goto, Set, Quiet, Pure, Fields, Kept, Goes, Quietly,
     HeldPC
<1>3. GuardsKept(t, {info[t].new})
  <2>1. {info[t].new} \in SUBSET Slot
    BY <1>1, SlotNames DEF InfoOK
  <2> QED
    BY <1>1, <1>2, <2>1, QuietFresh, ReleaseGuard DEF UnlinkFails, Quietly, Goes
<1>4. ASSUME map' = map, Listed' = Listed PROVE ThreadOK(t, R)'
  <2>1. MineDataOK(t)' /\ CallOK(t)' /\ CouldOK(t)'
    BY <1>1, <1>2, <1>4, InsideOK
       DEF Inside, Kept, Fields, Goes, InsertPC, RemovePC, ThreadOK, CallOK, LocalOK
  <2>2. SearchOK(t, R)'
    BY <1>1, <1>2, <1>4, BehindSame
       DEF ThreadOK, SearchOK, CallOK, LocalOK, Kept, Fields, Goes, PrevPC, FindPC
  <2>3. SuccessorOK(t)'
    BY <1>2 DEF SuccessorOK
  <2>4. FoundOK(t)'
    BY <1>2 DEF FoundOK
  <2> QED
    BY <2>1, <2>2, <2>3, <2>4 DEF ThreadOK
<1> QED
  BY <1>2, <1>3, <1>4, QuietOK DEF MStep, Hidden

LEMMA ItGuardGood ==
  ASSUME IInv, IInv', DataOK, NEW R, Good(R), NEW t \in Thread, ItGuard(t)
  PROVE  Good(R)' /\ MStep
<1>1. Types /\ RTypeOK /\ InfoOK(t) /\ LocalOK(t) /\ ThreadOK(t, R)
  BY DEF IInv, Types, Good
<1>2. /\ pc[t] = "it_guard" /\ pc'[t] = "unlink"
      /\ Kept(t, {})
      /\ Goes(t) /\ UNCHANGED <<call, could, res>>
  BY <1>1 DEF Types, InfoOK, ItGuard, Goto, Set, Quiet, Pure, Fields, Kept, Goes, Quietly, HeldPC
<1>3. GuardsKept(t, {info[t].new})
  <2>1. info[t].next.ptr \in Node \union {Null} /\ info[t].new \in Slot
    BY <1>1, SlotNames DEF RTypeOK, InfoOK, LinkType
  <2> QED
    BY <1>1, <1>2, <2>1, QuietFresh, PublishGuard DEF ItGuard, Quietly, Goes
<1>4. ASSUME map' = map, Listed' = Listed PROVE ThreadOK(t, R)'
  <2>1. MineDataOK(t)' /\ CallOK(t)' /\ CouldOK(t)'
    BY <1>1, <1>2, <1>4, InsideOK
       DEF Inside, Kept, Fields, Goes, InsertPC, RemovePC, ThreadOK, CallOK, LocalOK
  <2>2. SearchOK(t, R)'
    BY <1>1, <1>2, <1>4, BehindSame
       DEF ThreadOK, SearchOK, CallOK, LocalOK, Kept, Fields, Goes, PrevPC, FindPC
  <2>3. SuccessorOK(t)'
    BY <1>2 DEF SuccessorOK
  <2>4. FoundOK(t)'
    BY <1>2 DEF FoundOK
  <2> QED
    BY <2>1, <2>2, <2>3, <2>4 DEF ThreadOK
<1> QED
  BY <1>2, <1>3, <1>4, QuietOK DEF MStep, Hidden

-----------------------------------------------------------------------------
(* Answers                                                                 *)

\* A call gets an answer that it may give.
LEMMA DecideStep ==
  ASSUME HistoryType, NEW R, NEW t \in Thread, CallOK(t), pc[t] \notin {"idle", "gone", "done"},
         info[t].then # "scan", NEW a \in could[t], a # NoCall,
         res' = [res EXCEPT ![t] = a], UNCHANGED <<call, could>>, map' = map, pc'[t] = "done",
         \A f \in {"key", "bucket", "then"} : info'[t][f] = info[t][f], MineDataOK(t)'
  PROVE  M!MNext /\ ThreadOK(t, R)'
<1>1. call[t] \in MapCalls /\ res[t] = NoCall
  BY DEF CallOK
<1>2. call[t] # NoCall
  BY <1>1, HMAnswerAssumption
<1>3. M!Decide(t, a)
  BY <1>1, <1>2 DEF M!Decide
<1>4. res'[t] = a /\ call'[t] = call[t]
  BY DEF HistoryType
<1>5. CallOK(t)'
  BY <1>4 DEF CallOK, InsertPC, RemovePC, BucketOf
<1>6. SearchOK(t, R)' /\ SuccessorOK(t)' /\ CouldOK(t)' /\ FoundOK(t)'
  BY DEF SearchOK, SuccessorOK, CouldOK, FoundOK
<1> QED
  BY <1>3, <1>5, <1>6 DEF M!MNext, ThreadOK

\* What follows once a search is over
LEMMA SearchEnds ==
  ASSUME IInv, IInv', HistoryType, NEW R, Good(R), NEW t \in Thread, NEW found \in BOOLEAN,
         Outcome(t, found), pc[t] \in {"acquire", "check"}, NEW S, GuardsKept(t, S),
         UNCHANGED <<status, next, data, call, could, info>>,
         info[t].then = "call" /\ ~found =>
            /\ map[info[t].key] = Absent
            /\ \/ Cur(t)' = Null
               \/ <<t, info[t].cur>> \in Safe' /\ Cur(t)' = Cur(t) /\ Beyond(Cur(t), info[t].key),
         info[t].then = "call" /\ found =>
            pc[t] = "check" /\ data[Cur(t)].key = info[t].key /\ Cur(t)' = Cur(t)
  PROVE  Good(R)' /\ MStep
<1>1. Types /\ InfoOK(t) /\ LocalOK(t) /\ ThreadOK(t, R) /\ MineOK(t)
  BY DEF IInv, Types, Good
<1>2. /\ DOMAIN pc' = Thread /\ \A u \in Thread \ {t} : pc'[u] = pc[u]
      /\ pc'[t] \in {"next_bucket", "visit", "done", "use", "mark", "it_load", "new", "link"}
      /\ pc'[t] \in {"next_bucket", "visit"} => info[t].then = "scan"
      /\ pc'[t] \in {"use", "mark", "it_load"} => info[t].then = "call" /\ found
      /\ pc'[t] = "use" => call[t].op # "remove"
      /\ pc'[t] \in {"mark", "it_load"} => call[t].op = "remove"
      /\ pc'[t] \in {"new", "link"} => info[t].then = "call" /\ ~found /\ call[t].op = "insert"
  BY <1>1, OutcomeCases DEF Types
<1>3. /\ pc'[t] # "done" => res' = res
      /\ pc'[t] = "done" =>
            /\ info[t].then # "scan"
            /\ info[t].then = "call" => ~found /\ call[t].op # "insert"
            /\ res' = [res EXCEPT ![t] = IF info[t].then # "call" THEN info[t].then
                                         ELSE IF call[t].op = "get" THEN Absent
                                         ELSE "element_not_found"]
  BY <1>1 DEF Outcome, Continue, Answer, Types
<1>4. \A u \in Thread \ {t} : res'[u] = res[u]
  BY <1>3 DEF HistoryType
<1>5. Goes(t)
  BY <1>1, <1>2, <1>4 DEF Goes, Quietly, Types, HeldPC
<1>6. ASSUME map' = map, Listed' = Listed, pc'[t] = "done"
      PROVE  M!MNext /\ ThreadOK(t, R)'
  <2> DEFINE a == IF info[t].then # "call" THEN info[t].then
                  ELSE IF call[t].op = "get" THEN Absent ELSE "element_not_found"
  <2>1. CallOK(t) /\ CouldOK(t) /\ MineDataOK(t)
    BY <1>1 DEF ThreadOK
  <2>2. call[t] \in MapCalls /\ info[t].key = call[t].key /\ info[t].then # "scan"
        /\ info[t].then \in {"call", "success", "element_not_found"}
    BY <1>3, <1>6, <2>1 DEF CallOK
  <2>3. /\ Effected(t) => could[t] = {"success"}
        /\ ~Effected(t) => M!Answers(call[t], map) \subseteq could[t]
        /\ info[t].then = "element_not_found" => "element_not_found" \in could[t]
    BY <1>3, <1>6, <2>1 DEF CouldOK
  <2>4. a \in could[t]
    <3>1. CASE info[t].then = "success"
      BY <2>3, <3>1 DEF Effected
    <3>2. CASE info[t].then = "element_not_found"
      BY <2>3, <3>2
    <3>3. CASE info[t].then = "call"
      <4>1. map[call[t].key] = Absent /\ call[t].op # "insert"
        BY <1>3, <1>6, <2>2, <3>3
      <4>2. M!Answers(call[t], map) \subseteq could[t]
        BY <2>3, <3>3 DEF Effected
      <4>3. call[t].op = "get" \/ call[t].op = "remove"
        BY <2>2, <4>1, CallType
      <4> QED
        BY <3>3, <4>1, <4>2, <4>3 DEF M!Answers
    <3> QED
      BY <2>2, <3>1, <3>2, <3>3
  <2>5. a # NoCall
    BY <2>2, HMAnswerAssumption
  <2>6. MineDataOK(t)'
    BY <2>1 DEF MineDataOK
  <2>7. res' = [res EXCEPT ![t] = a]
    BY <1>3, <1>6
  <2> HIDE DEF a
  <2> QED
    BY <1>6, <2>1, <2>2, <2>4, <2>5, <2>6, <2>7, DecideStep
<1>7. ASSUME map' = map, Listed' = Listed, pc'[t] # "done"
      PROVE  ThreadOK(t, R)'
  <2>1. MineDataOK(t)' /\ CallOK(t)' /\ CouldOK(t)'
    BY <1>1, <1>2, <1>3, <1>7, InsideOK DEF Inside, InsertPC, RemovePC
  <2>2. SearchOK(t, R)'
    BY <1>1, <1>2, <1>7, BehindSame DEF ThreadOK, SearchOK, PrevPC, FindPC
  <2>3. SuccessorOK(t)'
    BY <1>2, <1>7 DEF SuccessorOK, Beyond, GreaterOrEqual
  <2>4. FoundOK(t)'
    BY <1>1, <1>2, <1>7 DEF ThreadOK, FoundOK
  <2> QED
    BY <2>1, <2>2, <2>3, <2>4 DEF ThreadOK
<1>8. Good(R)' /\ map' = map /\ Listed' = Listed
  BY <1>5, <1>6, <1>7, QuietOK
<1> QED
  BY <1>3, <1>6, <1>8 DEF MStep, Hidden

LEMMA AcquireNullGood ==
  ASSUME IInv, IInv', DataOK, HistoryType, NEW R, Good(R), NEW t \in Thread, AcquireNull(t)
  PROVE  Good(R)' /\ MStep
<1>1. Types /\ RTypeOK /\ InfoOK(t) /\ LocalOK(t) /\ ThreadOK(t, R) /\ Ordered(R)
  BY DEF IInv, Types, Good
<1>2. /\ pc[t] = "acquire" /\ info[t].next.ptr = Null
      /\ UNCHANGED <<status, next, data, call, could, info>>
  BY DEF AcquireNull, Quiet
<1>3. CASE At(t) = info[t].next
  <2>1. Outcome(t, FALSE) /\ Release(t, {info[t].cur, "start"})
    BY <1>3 DEF AcquireNull
  <2>2. FreshNodes' = FreshNodes /\ {info[t].cur, "start"} \in SUBSET Slot
    BY <1>1, <1>2, SlotNames DEF FreshNodes, InfoOK
  <2>3. /\ GuardsKept(t, {info[t].cur, "start"})
        /\ \A s \in {info[t].cur, "start"} : slot'[t][s] = Null
    BY <1>1, <1>2, <2>1, <2>2, ReleaseGuard
  <2>4. Cur(t)' = Null
    BY <1>2, <2>3 DEF Cur
  <2>5. ASSUME info[t].then = "call" PROVE map[info[t].key] = Absent
    <3>1. info[t].key \in Key /\ Behind(info[t].prev, info[t].key, R)
      BY <1>1, <1>2, <2>5, CallType DEF ThreadOK, CallOK, SearchOK, PrevPC, FindPC
    <3>2. info[t].prev \in Source /\ next[info[t].prev].ptr = Null
      BY <1>1, <1>2, <1>3, PrevSource DEF At, LocalOK, NextPC, PrevPC, FindPC
    <3>3. \A x \in Listed : data[x].key # info[t].key
      BY <1>1, <3>1, <3>2, NotThere
    <3> QED
      BY <1>1, <3>1, <3>3, MapValue DEF Elements
  <2> HIDE DEF IInv
  <2> QED
    BY <1>2, <2>1, <2>3, <2>4, <2>5, SearchEnds
<1>4. CASE At(t) # info[t].next
  <2>1. pc' = [pc EXCEPT ![t] = "retry"] /\ res' = res /\ Release(t, {info[t].cur})
    BY <1>4 DEF AcquireNull, Continue
  <2>2. Goes(t) /\ pc'[t] = "retry" /\ Kept(t, {})
    BY <1>1, <1>2, <2>1 DEF Goes, Quietly, Types, HeldPC, Kept, InfoOK
  <2>3. GuardsKept(t, {info[t].cur})
    <3>1. FreshNodes' = FreshNodes /\ {info[t].cur} \in SUBSET Slot
      BY <1>1, <1>2, SlotNames DEF FreshNodes, InfoOK
    <3> QED
      BY <1>1, <1>2, <2>1, <3>1, ReleaseGuard
  <2>4. ASSUME map' = map, Listed' = Listed PROVE ThreadOK(t, R)'
    <3>1. MineDataOK(t)' /\ CallOK(t)' /\ CouldOK(t)'
      BY <1>1, <1>2, <2>1, <2>2, <2>4, InsideOK DEF Inside, InsertPC, RemovePC
    <3>2. SearchOK(t, R)'
      BY <1>1, <1>2, <2>2, <2>4, BehindSame DEF ThreadOK, SearchOK, PrevPC, FindPC
    <3>3. SuccessorOK(t)' /\ FoundOK(t)'
      BY <2>2 DEF SuccessorOK, FoundOK
    <3> QED
      BY <3>1, <3>2, <3>3 DEF ThreadOK
  <2> QED
    BY <1>2, <2>1, <2>2, <2>3, <2>4, QuietOK DEF MStep, Hidden
<1> QED
  BY <1>3, <1>4

LEMMA CheckGood ==
  ASSUME IInv, IInv', DataOK, HistoryType, NEW R, Good(R), NEW t \in Thread, Check(t)
  PROVE  Good(R)' /\ MStep
<1> DEFINE k == data[Cur(t)].key
           found == (k = info[t].key)
<1>1. Types /\ RTypeOK /\ InfoOK(t) /\ LocalOK(t) /\ ThreadOK(t, R) /\ Ordered(R)
  BY DEF IInv, Types, Good
<1>2. /\ pc[t] = "check" /\ UNCHANGED <<status, next, data, call, could>>
      /\ Cur(t) \in Node /\ Cur(t) \notin Bucket /\ info[t].cur \in Slot
  BY <1>1, CurNode, BucketType, SlotNames DEF Check, Quiet, CurPC, InfoOK
<1>3. /\ info[t].then = "call" => info[t].key \in Key /\ Behind(info[t].prev, info[t].key, R)
      /\ At(t) = Link(Cur(t)) => /\ info[t].prev \in Source /\ next[info[t].prev].ptr = Cur(t)
                                 /\ Cur(t) \in Listed /\ Cur(t) # Null
  <2>1. info[t].then = "call" => info[t].key \in Key /\ Behind(info[t].prev, info[t].key, R)
    BY <1>1, <1>2, CallType DEF ThreadOK, CallOK, SearchOK, PrevPC, FindPC
  <2>2. ASSUME At(t) = Link(Cur(t)) PROVE info[t].prev \in Source /\ next[info[t].prev].ptr = Cur(t)
    BY <1>2, <2>2, PrevSource DEF At, Link, PrevPC, FindPC
  <2> QED
    BY <1>2, <2>1, <2>2, NextListed, NullAssumption
<1>4. CASE At(t) # Link(Cur(t))
  <2>1. pc' = [pc EXCEPT ![t] = "retry"] /\ UNCHANGED <<slot, pinned, info, res>>
    BY <1>4 DEF Check, Continue
  <2>2. Goes(t) /\ pc'[t] = "retry"
    BY <1>1, <1>2, <2>1 DEF Goes, Quietly, Types, HeldPC
  <2>3. GuardsKept(t, {})
    BY <1>1, <1>2, <2>1, SameGuards DEF FreshNodes
  <2>4. ASSUME map' = map, Listed' = Listed PROVE ThreadOK(t, R)'
    <3>1. MineDataOK(t)' /\ CallOK(t)' /\ CouldOK(t)'
      BY <1>1, <1>2, <2>1, <2>2, <2>4, InsideOK DEF Inside, InsertPC, RemovePC
    <3>2. SearchOK(t, R)'
      BY <1>1, <1>2, <2>1, <2>2, <2>4, BehindSame DEF ThreadOK, SearchOK, PrevPC, FindPC
    <3>3. SuccessorOK(t)' /\ FoundOK(t)'
      BY <2>2 DEF SuccessorOK, FoundOK
    <3> QED
      BY <3>1, <3>2, <3>3 DEF ThreadOK
  <2> QED
    BY <1>2, <2>1, <2>2, <2>3, <2>4, QuietOK DEF MStep, Hidden
<1>5. CASE At(t) = Link(Cur(t)) /\ ~GreaterOrEqual(k, info[t].key)
  <2>1. /\ pc' = [pc EXCEPT ![t] = "acquire"] /\ UNCHANGED <<slot, pinned, res>>
        /\ Set(t, [prev |-> Cur(t), cur |-> info[t].save, save |-> info[t].cur])
    BY <1>5 DEF Check, Compare, Continue
  <2>2. /\ Goes(t) /\ pc'[t] = "acquire"
        /\ Kept(t, {"prev", "cur", "save"}) /\ info'[t].prev = Cur(t)
    BY <1>1, <1>2, <2>1 DEF Goes, Quietly, Types, HeldPC, Set, Kept, Fields, InfoOK
  <2>3. GuardsKept(t, {})
    BY <1>1, <1>2, <2>1, <2>2, SameGuards, QuietFresh DEF Goes
  <2>4. info[t].then = "call" => Behind(Cur(t), info[t].key, R)
    BY <1>1, <1>2, <1>3, <1>5, BehindNext
  <2>5. ASSUME map' = map, Listed' = Listed PROVE ThreadOK(t, R)'
    <3>1. MineDataOK(t)' /\ CallOK(t)' /\ CouldOK(t)'
      BY <1>1, <1>2, <2>1, <2>2, <2>5, InsideOK DEF Inside, InsertPC, RemovePC, Kept, Fields
    <3>2. SearchOK(t, R)'
      BY <1>1, <1>2, <2>2, <2>4, <2>5, BehindSame
         DEF ThreadOK, SearchOK, PrevPC, FindPC, Kept, Fields
    <3>3. SuccessorOK(t)' /\ FoundOK(t)'
      BY <2>2 DEF SuccessorOK, FoundOK
    <3> QED
      BY <3>1, <3>2, <3>3 DEF ThreadOK
  <2> QED
    BY <1>2, <2>1, <2>2, <2>3, <2>5, QuietOK DEF MStep, Hidden
<1>6. CASE At(t) = Link(Cur(t)) /\ GreaterOrEqual(k, info[t].key)
  <2>1. Outcome(t, found) /\ Release(t, {"start"}) /\ info' = info
    BY <1>6 DEF Check, Compare
  <2>2. FreshNodes' = FreshNodes /\ {"start"} \in SUBSET Slot /\ info[t].cur # "start"
    BY <1>1, <2>1, SlotNames DEF FreshNodes, InfoOK
  <2>3. GuardsKept(t, {"start"})
    BY <1>1, <1>2, <2>1, <2>2, ReleaseGuard
  <2>4. Cur(t)' = Cur(t) /\ <<t, info[t].cur>> \in Safe'
    BY <1>1, <1>2, <2>1, <2>2, <2>3 DEF GuardsKept, Cur, LocalOK, CurPC
  <2>5. ASSUME info[t].then = "call", ~found
        PROVE  map[info[t].key] = Absent /\ Beyond(Cur(t), info[t].key)
    <3>1. Beyond(Cur(t), info[t].key)
      BY <1>6, <2>5 DEF Beyond
    <3>2. \A x \in Listed : data[x].key # info[t].key
      BY <1>1, <1>3, <1>6, <2>5, <3>1, NotThere
    <3> QED
      BY <1>1, <1>3, <2>5, <3>1, <3>2, MapValue DEF Elements
  <2>6. found \in BOOLEAN
    OBVIOUS
  <2>7. UNCHANGED <<status, next, data, call, could, info>> /\ pc[t] \in {"acquire", "check"}
    BY <1>2, <2>1
  <2>8. info[t].then = "call" /\ found =>
            pc[t] = "check" /\ data[Cur(t)].key = info[t].key /\ Cur(t)' = Cur(t)
    BY <1>2, <2>4
  <2>9. info[t].then = "call" /\ ~found =>
            /\ map[info[t].key] = Absent
            /\ \/ Cur(t)' = Null
               \/ <<t, info[t].cur>> \in Safe' /\ Cur(t)' = Cur(t) /\ Beyond(Cur(t), info[t].key)
    BY <2>4, <2>5
  <2> HIDE DEF found, IInv
  <2> QED
    BY <2>1, <2>3, <2>6, <2>7, <2>8, <2>9, SearchEnds
<1> QED
  BY <1>4, <1>5, <1>6

-----------------------------------------------------------------------------
(* The steps of a call that leave nodes and links alone                    *)

LEMMA AnswersType ==
  ASSUME NEW c \in MapCalls, NEW m, m[c.key] \in Value \union {Absent}
  PROVE  "success" \notin M!Answers(c, m)
<1>1. "success" \notin Value \union {Absent}
  BY HMAnswerAssumption
<1>2. c.op \in {"insert", "get", "remove"}
  BY CallType
<1> QED
  BY <1>1, <1>2 DEF M!Answers

LEMMA CallGood ==
  ASSUME IInv, IInv', DataOK, HistoryType, NEW R, Good(R), NEW t \in Thread, NEW c \in MapCalls,
         Call(t, c)
  PROVE  Good(R)' /\ MStep
<1>1. Types /\ RTypeOK /\ InfoOK(t) /\ LocalOK(t) /\ ThreadOK(t, R) /\ Ordered(R)
  BY DEF IInv, Types, Good
<1>2. /\ pc[t] = "idle"
      /\ pc'[t] = (IF c.op = "insert" /\ c.how = "emplace" THEN "new" ELSE "first")
      /\ Kept(t, {"key", "bucket", "prev", "start"})
      /\ info'[t].key = c.key /\ info'[t].bucket = BucketOf(c.key)
      /\ info'[t].prev = BucketOf(c.key) /\ info'[t].start = BucketOf(c.key)
      /\ call' = [call EXCEPT ![t] = c] /\ call'[t] = c
      /\ could' = [could EXCEPT ![t] = M!Answers(c, map)] /\ could'[t] = M!Answers(c, map)
      /\ res' = res
      /\ Goes(t)
  BY <1>1 DEF Types, InfoOK, Call, Goto, Set, rvars, Fields, Kept, Goes, Quietly, HeldPC,
              HistoryType
<1>3. GuardsKept(t, {})
  BY <1>1, <1>2, QuietFresh, SameGuards DEF Call, rvars, Quietly, Goes
<1>4. info[t].mine = Null /\ info[t].then = "call" /\ call[t] = NoCall /\ res[t] = NoCall
  <2>1. info[t] = NoInfo
    BY <1>1, <1>2 DEF LocalOK
  <2> QED
    BY <1>1, <1>2, <2>1 DEF NoInfo, ThreadOK, CallOK
<1>5. ASSUME map' = map, Listed' = Listed PROVE ThreadOK(t, R)'
  <2>1. c.key \in Key /\ BucketOf(c.key) \in Bucket /\ BucketOf(c.key) \notin Listed
    BY CallType, BucketOfType, BucketType DEF Listed
  <2>2. Behind(BucketOf(c.key), c.key, R)'
    BY <1>5, <2>1 DEF Behind, BucketOf
  <2>3. "success" \notin M!Answers(c, map)
    BY <2>1, MapTyping, AnswersType DEF MapTyped
  <2>4. MineDataOK(t)' /\ SearchOK(t, R)'
    BY <1>2, <1>4, <2>2, NullAssumption DEF MineDataOK, SearchOK, Kept, Fields
  <2>5. CallOK(t)'
    BY <1>2, <1>4 DEF CallOK, BucketOf, Kept, Fields, InsertPC, RemovePC
  <2>6. CouldOK(t)'
    <3>1. info'[t].then = "call" /\ pc'[t] # "inserted"
      BY <1>2, <1>4 DEF Kept, Fields
    <3>2. M!Answers(c, map)' = M!Answers(c, map)
      BY <1>5 DEF M!Answers
    <3>3. M!Answers(call[t], map)' = M!Answers(c, map)
      BY <1>2, <1>5 DEF M!Answers
    <3> QED
      BY <1>2, <2>3, <3>1, <3>3 DEF CouldOK, Effected
  <2>7. SuccessorOK(t)' /\ FoundOK(t)'
    BY <1>2 DEF SuccessorOK, FoundOK
  <2> QED
    BY <2>4, <2>5, <2>6, <2>7 DEF ThreadOK
<1>6. Good(R)' /\ map' = map
  BY <1>2, <1>3, <1>5, QuietOK
<1>7. M!Begin(t, c)
  BY <1>2, <1>4, <1>6 DEF M!Begin
<1> QED
  BY <1>6, <1>7 DEF MStep, M!MNext

LEMMA ReturnGood ==
  ASSUME IInv, IInv', DataOK, HistoryType, NEW R, Good(R), NEW t \in Thread, Return(t)
  PROVE  Good(R)' /\ MStep
<1>1. Types /\ RTypeOK /\ InfoOK(t) /\ LocalOK(t) /\ ThreadOK(t, R) /\ MineOK(t)
  BY DEF IInv, Types, Good
<1>2. /\ pc[t] = "done" /\ pc'[t] = "idle" /\ info'[t] = NoInfo
      /\ call' = [call EXCEPT ![t] = NoCall] /\ call'[t] = NoCall
      /\ could' = [could EXCEPT ![t] = {}]
      /\ res' = [res EXCEPT ![t] = NoCall] /\ res'[t] = NoCall
  BY <1>1 DEF Types, Return, Goto, HistoryType
<1>3. NoInfo.mine = Null /\ NoInfo.then = "call" /\ info[t].mine = Null
  BY <1>1, <1>2 DEF NoInfo, MineOK, MinePC, FindPC
<1>4. Goes(t)
  BY <1>1, <1>2, <1>3 DEF Types, Return, Goto, Goes, Quietly, HeldPC, HistoryType
<1>5. GuardsKept(t, Slot)
  BY <1>1, <1>4, QuietFresh, ReleaseGuard DEF Return, Quietly, Goes
<1>6. ASSUME map' = map, Listed' = Listed PROVE ThreadOK(t, R)'
  BY <1>2, <1>3
     DEF ThreadOK, SearchOK, SuccessorOK, MineDataOK, CallOK, CouldOK, FoundOK
<1>7. Good(R)' /\ map' = map
  BY <1>4, <1>5, <1>6, QuietOK
<1>8. res[t] # NoCall
  BY <1>1, <1>2 DEF ThreadOK, CallOK
<1> QED
  BY <1>2, <1>7, <1>8 DEF MStep, M!MNext, M!Return

LEMMA InsertedGood ==
  ASSUME IInv, IInv', DataOK, HistoryType, NEW R, Good(R), NEW t \in Thread, Inserted(t)
  PROVE  Good(R)' /\ MStep
<1>1. Types /\ RTypeOK /\ InfoOK(t) /\ LocalOK(t) /\ ThreadOK(t, R)
  BY DEF IInv, Types, Good
<1>2. /\ pc[t] = "inserted" /\ pc'[t] = "done" /\ info' = info
      /\ res' = [res EXCEPT ![t] = "success"] /\ UNCHANGED <<call, could>>
      /\ Goes(t)
  BY <1>1 DEF Types, Inserted, Answer, Pure, Quiet, Goes, Quietly, HeldPC, HistoryType
<1>3. GuardsKept(t, {})
  BY <1>1, <1>2, QuietFresh, SameGuards DEF Inserted, Pure, Quietly, Goes
<1>4. ASSUME map' = map, Listed' = Listed PROVE M!MNext /\ ThreadOK(t, R)'
  <2>1. CallOK(t) /\ info[t].then # "scan"
    BY <1>1, <1>2 DEF ThreadOK, CallOK, InsertPC
  <2>2. "success" \in could[t]
    BY <1>1, <1>2, <2>1 DEF ThreadOK, CouldOK, Effected
  <2>3. "success" # NoCall
    BY HMAnswerAssumption
  <2>4. MineDataOK(t)'
    BY <1>1, <1>2 DEF ThreadOK, MineDataOK, Goes
  <2> QED
    BY <1>2, <1>4, <2>1, <2>2, <2>3, <2>4, DecideStep
<1> QED
  BY <1>2, <1>3, <1>4, QuietOK DEF MStep

LEMMA ItLoadGood ==
  ASSUME IInv, IInv', DataOK, HistoryType, NEW R, Good(R), NEW t \in Thread, ItLoad(t)
  PROVE  Good(R)' /\ MStep
<1>1. Types /\ RTypeOK /\ InfoOK(t) /\ LocalOK(t) /\ ThreadOK(t, R) /\ MineOK(t)
  BY DEF IInv, Types, Good
<1>2. /\ pc[t] \in {"it_load", "it_mark"}
      /\ pc'[t] = (IF next[Cur(t)].mark THEN "it_guard" ELSE "it_mark")
      /\ Kept(t, {"next", "then"}) /\ info'[t].then = "element_not_found"
      /\ Goes(t) /\ UNCHANGED <<call, could, res>>
  BY <1>1 DEF Types, InfoOK, ItLoad, Goto, Continue, Set, Quiet, Pure, Fields, Kept, Goes, Quietly,
              HeldPC
<1>3. GuardsKept(t, {})
  BY <1>1, <1>2, QuietFresh, SameGuards DEF ItLoad, Pure, Quietly, Goes
<1>4. Cur(t)' = Cur(t) /\ next' = next /\ call[t].op = "remove" /\ info[t].then # "success"
      /\ info[t].then # "scan"
  <2>1. CallOK(t) /\ slot' = slot /\ next' = next
    BY <1>1, <1>2 DEF ThreadOK, ItLoad, Pure
  <2>2. call[t].op = "remove" /\ info[t].then # "success" /\ info[t].then # "scan"
    BY <1>2, <2>1 DEF CallOK, RemovePC
  <2> QED
    BY <1>2, <2>1, <2>2 DEF Cur, Kept, Fields
<1>5. ASSUME map' = map, Listed' = Listed PROVE ThreadOK(t, R)'
  <2>1. SearchOK(t, R)' /\ SuccessorOK(t)'
    BY <1>2 DEF SearchOK, SuccessorOK, PrevPC, FindPC
  <2>2. MineDataOK(t)' /\ CallOK(t)'
    BY <1>1, <1>2, <1>4
       DEF ThreadOK, MineDataOK, CallOK, Kept, Fields, Goes, InsertPC, RemovePC, BucketOf
  <2>3. FoundOK(t)'
    BY <1>1, <1>2, <1>4 DEF ThreadOK, FoundOK, Kept, Fields, Goes
  <2>4. next[Cur(t)].mark => "element_not_found" \in could[t]
    BY <1>1, <1>2, <1>4 DEF ThreadOK, FoundOK
  <2>5. "success" \notin could[t] /\ M!Answers(call[t], map) \subseteq could[t]
    BY <1>1, <1>2, <1>4 DEF ThreadOK, CouldOK, Effected
  <2>6. M!Answers(call[t], map)' = M!Answers(call[t], map)
    BY <1>2, <1>5 DEF M!Answers
  <2>7. CouldOK(t)'
    BY <1>2, <2>4, <2>5, <2>6 DEF CouldOK, Effected
  <2> QED
    BY <2>1, <2>2, <2>3, <2>7 DEF ThreadOK
<1> QED
  BY <1>2, <1>3, <1>5, QuietOK DEF MStep, Hidden

-----------------------------------------------------------------------------
(* A loop over the map has no effect, and gives no answer.                 *)

LEMMA ScanCalm ==
  ASSUME NEW R, NEW t \in Thread, InfoOK(t), MineOK(t), ThreadOK(t, R), map' = map,
         pc'[t] \in ScanPC \union {"enter", "end", "idle"},
         pc'[t] = "idle" => info'[t].then = "call",
         pc'[t] # "idle" => info'[t].then = "scan",
         info[t].then = "scan" \/ pc[t] = "idle",
         info'[t].mine = Null, UNCHANGED <<call, could, res>>
  PROVE  ThreadOK(t, R)'
<1>1. call[t] = NoCall
  BY DEF ThreadOK, CallOK
<1>2. pc[t] # "done" /\ res[t] = NoCall
  BY DEF ThreadOK, CallOK
<1>3. MineDataOK(t)' /\ SearchOK(t, R)' /\ SuccessorOK(t)' /\ CouldOK(t)' /\ FoundOK(t)'
  BY DEF MineDataOK, SearchOK, SuccessorOK, CouldOK, FoundOK, ScanPC
<1>4. CallOK(t)'
  BY <1>1, <1>2 DEF CallOK, ScanPC, InsertPC, RemovePC
<1> QED
  BY <1>3, <1>4 DEF ThreadOK

LEMMA ScanGood ==
  ASSUME IInv, IInv', DataOK, HistoryType, NEW R, Good(R), NEW t \in Thread, ScanStep(t)
  PROVE  Good(R)' /\ MStep
<1>1. Types /\ RTypeOK /\ InfoOK(t) /\ LocalOK(t) /\ ThreadOK(t, R) /\ MineOK(t)
  BY DEF IInv, Types, Good
<1>2. /\ pc[t] \in ScanPC \union {"idle", "end"} /\ UNCHANGED <<status, next, data, call, could, res>>
      /\ DOMAIN pc' = Thread /\ DOMAIN info' = Thread
      /\ \A u \in Thread \ {t} : pc'[u] = pc[u] /\ info'[u] = info[u]
  BY <1>1 DEF Types, ScanStep, ScanBegin, Head, HeadCheck, NextBucket, Visit, Step, StepCheckFails,
         StepCheck, ScanEnd, ScanPC, Goto, Continue, Set, Quiet, Pure, rvars, history
<1>3. info[t].mine = Null /\ NoInfo.mine = Null /\ NoInfo.then = "call"
      /\ (pc[t] = "idle" => info[t] = NoInfo)
  BY <1>1, <1>2 DEF MineOK, MinePC, FindPC, ScanPC, LocalOK, NoInfo
<1>4. /\ pc'[t] \in ScanPC \union {"enter", "end", "idle"}
      /\ pc'[t] = "idle" <=> pc[t] = "end"
  BY <1>1 DEF Types, ScanStep, ScanBegin, Head, HeadCheck, NextBucket, Visit, Step, StepCheckFails,
         StepCheck, ScanEnd, ScanPC, Goto, Continue
<1>5. /\ pc'[t] = "idle" => info'[t] = NoInfo
      /\ pc'[t] # "idle" /\ pc[t] # "idle" => info'[t].then = info[t].then
      /\ pc'[t] # "idle" => info'[t].mine = Null
      /\ pc'[t] # "idle" /\ pc[t] = "idle" => info'[t].then = "scan"
  <2>1. CASE ScanEnd(t)
    BY <1>1, <2>1 DEF ScanEnd, Goto, Types
  <2>2. CASE ScanBegin(t)
    BY <1>1, <1>3, <2>2 DEF ScanBegin, Goto, Types, Set, InfoOK, Fields
  <2>3. CASE \/ Head(t) \/ HeadCheck(t) \/ NextBucket(t) \/ Visit(t) \/ Step(t)
             \/ StepCheckFails(t) \/ StepCheck(t)
    BY <1>1, <1>3, <2>3 DEF Head, HeadCheck, NextBucket, Visit, Step, StepCheckFails,
         StepCheck, Goto, Continue, Types, Set, InfoOK, Fields, Pure
  <2> QED
    BY <2>1, <2>2, <2>3 DEF ScanStep
<1>6. Goes(t)
  <2>1. info'[t].mine = info[t].mine
    BY <1>3, <1>5
  <2>2. pc[t] # "gone" /\ pc[t] \notin HeldPC /\ pc'[t] \notin HeldPC
    BY <1>2, <1>4 DEF ScanPC, HeldPC
  <2> QED
    BY <1>1, <1>2, <2>1, <2>2 DEF Goes, Quietly, Types
<1>7. PICK S : GuardsKept(t, S)
  <2>1. FreshNodes' = FreshNodes
    BY <1>6, QuietFresh DEF Goes
  <2>2. CASE ScanBegin(t) \/ HeadCheck(t) \/ Visit(t)
    BY <1>1, <1>2, <2>1, <2>2, SameGuards DEF ScanBegin, HeadCheck, Visit, Pure, rvars
  <2>3. CASE Head(t)
    <3>1. At(t).ptr \in Node \union {Null} /\ info[t].cur \in Slot
      BY <1>1, <2>3, PrevPlace, SlotNames DEF Head, LinkType, InfoOK
    <3> QED
      BY <1>1, <1>2, <2>1, <2>3, <3>1, PublishGuard DEF Head
  <2>4. CASE Step(t)
    <3>1. next[Cur(t)].ptr \in Node \union {Null} /\ info[t].new \in Slot
      BY <1>1, <2>4, CurNode, SlotNames DEF Step, Goto, LinkType, InfoOK, CurPC
    <3> QED
      BY <1>1, <1>2, <2>1, <2>4, <3>1, PublishGuard, SameGuards DEF Step
  <2>5. CASE NextBucket(t) \/ StepCheckFails(t) \/ StepCheck(t) \/ ScanEnd(t)
    <3>1. PICK S \in SUBSET Slot : Release(t, S)
      <4>1. {info[t].save} \in SUBSET Slot /\ {info[t].new} \in SUBSET Slot /\ Slot \in SUBSET Slot
        BY <1>1, SlotNames DEF InfoOK
      <4> QED
        BY <2>5, <4>1 DEF NextBucket, StepCheckFails, StepCheck, ScanEnd
    <3> QED
      BY <1>1, <1>2, <2>1, <3>1, ReleaseGuard
  <2> QED
    BY <2>2, <2>3, <2>4, <2>5 DEF ScanStep
<1>8. info[t].then = "scan" \/ pc[t] = "idle"
  BY <1>1, <1>2 DEF LocalOK, ThreadOK, CallOK
<1>9. ASSUME map' = map PROVE ThreadOK(t, R)'
  <2>1. info'[t].mine = Null /\ (pc'[t] = "idle" => info'[t].then = "call")
        /\ (pc'[t] # "idle" => info'[t].then = "scan")
    BY <1>3, <1>4, <1>5, <1>8
  <2> QED
    BY <1>1, <1>2, <1>4, <1>8, <1>9, <2>1, ScanCalm
<1> QED
  BY <1>2, <1>6, <1>7, <1>9, QuietOK DEF MStep, Hidden

-----------------------------------------------------------------------------
(* Steps that change nodes or links, and not the map                       *)

LEMMA UseGood ==
  ASSUME IInv, IInv', DataOK, HistoryType, NEW R, Good(R), NEW t \in Thread, Use(t)
  PROVE  Good(R)' /\ MStep
<1>1. Types /\ RTypeOK /\ InfoOK(t) /\ LocalOK(t) /\ ThreadOK(t, R) /\ Ordered(R)
  BY DEF IInv, Types, Good
<1>2. /\ pc[t] = "use" /\ pc'[t] = "done" /\ Kept(t, {"mine"}) /\ info'[t].mine = Null
      /\ \A u \in Thread \ {t} : pc'[u] = pc[u] /\ info'[u] = info[u]
      /\ call' = call /\ slot' = slot /\ next' = next
      /\ Listed' = Listed /\ \A g \in Safe : g \in Safe'
  BY UseEffect
<1>3. /\ data' = data /\ could' = could
      /\ res' = [res EXCEPT ![t] = IF call[t].op = "get" THEN data[Cur(t)].val
                                   ELSE "already_present"]
  BY DEF Use, Answer
<1>4. CallOK(t) /\ FoundOK(t) /\ info[t].then = "call" /\ call[t] \in MapCalls
      /\ call[t].op \in {"get", "insert"}
  BY <1>1, <1>2, CallType DEF ThreadOK, CallOK
<1>5. Still(t)
  <2>1. Elements' = Elements /\ DataKept
    BY <1>2, <1>3 DEF Elements, DataKept
  <2>2. \A u \in Thread \ {t} : res'[u] = res[u]
    BY <1>3 DEF HistoryType
  <2>3. \A u \in Thread, s \in Slot : <<u, s>> \in Safe => <<u, s>> \in Safe'
    BY <1>2
  <2>4. OthersStill(t)
    BY <1>2, <2>2, <2>3 DEF OthersStill
  <2>5. SameAnswers(t)
    BY <1>2, <1>3 DEF SameAnswers
  <2> QED
    BY <1>2, <2>1, <2>4, <2>5 DEF Still
<1>6. ASSUME map' = map PROVE M!MNext /\ ThreadOK(t, R)'
  <2> DEFINE a == IF call[t].op = "get" THEN data[Cur(t)].val ELSE "already_present"
  <2>1. a \in could[t]
    BY <1>2, <1>4 DEF FoundOK
  <2>2. a # NoCall
    <3>1. Cur(t) \in Node /\ status[Cur(t)] # "free"
      BY <1>2, CurNode DEF CurPC
    <3>2. data[Cur(t)].val \in Value
      BY <3>1 DEF DataOK, ElementType
    <3> QED
      BY <3>2, HMAnswerAssumption
  <2>3. MineDataOK(t)'
    BY <1>2 DEF MineDataOK
  <2>4. \A f \in {"key", "bucket", "then"} : info'[t][f] = info[t][f]
    BY <1>2 DEF Kept, Fields
  <2>5. res' = [res EXCEPT ![t] = a]
    BY <1>3
  <2> HIDE DEF a
  <2> QED
    BY <1>2, <1>3, <1>4, <1>6, <2>1, <2>2, <2>3, <2>4, <2>5, DecideStep
<1> QED
  BY <1>5, <1>6, StillOK DEF MStep

LEMMA RetireGood ==
  ASSUME IInv, IInv', DataOK, HistoryType, NEW R, Good(R), NEW t \in Thread,
         RetireCur(t) \/ ReclaimErased(t)
  PROVE  Good(R)' /\ MStep
<1>1. Types /\ RTypeOK /\ InfoOK(t) /\ LocalOK(t) /\ ThreadOK(t, R) /\ Ordered(R)
  BY DEF IInv, Types, Good
<1>2. /\ \/ pc[t] = "retire" /\ pc'[t] = "acquire" /\ Kept(t, {})
         \/ pc[t] = "reclaim" /\ pc'[t] = "done" /\ Kept(t, {"cur", "new"})
      /\ \A u \in Thread \ {t} : pc'[u] = pc[u] /\ info'[u] = info[u] /\ slot'[u] = slot[u]
      /\ call' = call /\ next' = next
      /\ Listed' = Listed /\ \A g \in Safe \ {<<t, info[t].cur>>} : g \in Safe'
  BY RetireEffect
<1>3. /\ data' = data /\ could' = could
      /\ pc[t] = "retire" => res' = res
      /\ pc[t] = "reclaim" => res' = [res EXCEPT ![t] = info[t].then]
  BY DEF RetireCur, ReclaimErased, Answer, Goto, history
<1>4. Still(t)
  <2>1. Elements' = Elements /\ DataKept
    BY <1>2, <1>3 DEF Elements, DataKept
  <2>2. \A u \in Thread \ {t} : res'[u] = res[u]
    BY <1>2, <1>3 DEF HistoryType
  <2>3. \A u \in Thread \ {t}, s \in Slot : <<u, s>> \in Safe => <<u, s>> \in Safe'
    BY <1>2
  <2>4. OthersStill(t)
    BY <1>2, <2>2, <2>3 DEF OthersStill
  <2>5. SameAnswers(t)
    BY <1>2, <1>3 DEF SameAnswers, Cur
  <2> QED
    BY <1>2, <2>1, <2>4, <2>5 DEF Still
<1>5. CASE pc[t] = "retire"
  <2>1. ASSUME map' = map, Listed' = Listed PROVE ThreadOK(t, R)'
    <3>1. MineDataOK(t)' /\ CallOK(t)' /\ CouldOK(t)'
      BY <1>1, <1>2, <1>3, <1>5, <2>1, InsideOK DEF Inside, InsertPC, RemovePC, Kept, Fields
    <3>2. SearchOK(t, R)'
      BY <1>1, <1>2, <1>3, <1>5, <2>1, BehindSame
         DEF ThreadOK, SearchOK, PrevPC, FindPC, Kept, Fields
    <3>3. SuccessorOK(t)' /\ FoundOK(t)'
      BY <1>2, <1>5 DEF SuccessorOK, FoundOK
    <3> QED
      BY <3>1, <3>2, <3>3 DEF ThreadOK
  <2> QED
    BY <1>2, <1>3, <1>4, <1>5, <2>1, StillOK DEF MStep, Hidden
<1>6. CASE pc[t] = "reclaim"
  <2>1. CallOK(t) /\ info[t].then # "scan" /\ info[t].then \in {"call", "success", "element_not_found"}
    BY <1>1, <1>6 DEF ThreadOK, CallOK, RemovePC
  <2>2. info[t].then # "call"
    BY <1>1, <1>6 DEF ThreadOK, CallOK
  <2>3. info[t].then \in could[t]
    BY <1>1, <1>6, <2>1, <2>2 DEF ThreadOK, CouldOK, Effected
  <2>4. info[t].then # NoCall
    BY <2>1, <2>2, HMAnswerAssumption
  <2>5. ASSUME map' = map PROVE M!MNext /\ ThreadOK(t, R)'
    <3>1. MineDataOK(t)'
      BY <1>1, <1>2, <1>3, <1>6 DEF ThreadOK, MineDataOK, Kept, Fields
    <3>2. \A f \in {"key", "bucket", "then"} : info'[t][f] = info[t][f]
      BY <1>2, <1>6 DEF Kept, Fields
    <3> QED
      BY <1>2, <1>3, <1>6, <2>1, <2>3, <2>4, <2>5, <3>1, <3>2, DecideStep
  <2> QED
    BY <1>4, <2>5, StillOK DEF MStep
<1> QED
  BY <1>2, <1>5, <1>6

LEMMA NewNodeGood ==
  ASSUME IInv, IInv', DataOK, HistoryType, NEW R, Good(R), NEW t \in Thread, NewNode(t)
  PROVE  Good(R)' /\ MStep
<1>1. Types /\ RTypeOK /\ InfoOK(t) /\ LocalOK(t) /\ ThreadOK(t, R) /\ Ordered(R)
  BY DEF IInv, Types, Good
<1>2. PICK n \in Node : /\ Allocate(n) /\ Store(n, Link(Null)) /\ Set(t, [mine |-> n])
                        /\ data' = [data EXCEPT ![n] = [key |-> call[t].key, val |-> call[t].val]]
  BY DEF NewNode
<1>3. /\ pc[t] = "new" /\ pc'[t] = (IF call[t].how = "emplace" THEN "first" ELSE "link")
      /\ \A u \in Thread \ {t} : pc'[u] = pc[u] /\ info'[u] = info[u]
      /\ Kept(t, {"mine"}) /\ info'[t].mine = n
      /\ call' = call /\ slot' = slot
      /\ status[n] = "free" /\ \A l \in Place : l # n => next'[l] = next[l]
      /\ info[t].mine = Null /\ NewOK(t)
      /\ Listed' = Listed /\ n \notin Source
      /\ \A g \in Safe : g \in Safe' /\ slot[g[1]][g[2]] \in Node \ {n}
  BY <1>2, NewNodeEffect
<1>4. UNCHANGED <<call, could, res>>
  BY DEF NewNode, history
<1>5. /\ \A m \in Node : m # n => data'[m] = data[m]
      /\ data'[n] = [key |-> call[t].key, val |-> call[t].val]
      /\ DataKept
  BY <1>2, <1>3 DEF DataOK, DataKept
<1>6. Still(t)
  <2>1. \A l \in Source : next'[l] = next[l]
    BY <1>3 DEF Source, Place, Listed
  <2>2. Elements' = Elements
    BY <1>3, <2>1 DEF Elements, Source
  <2>3. ASSUME NEW u \in Thread \ {t}
        PROVE  /\ info[u].mine # Null => next'[info[u].mine] = next[info[u].mine]
               /\ pc[u] \in CurPC => next'[Cur(u)].mark = next[Cur(u)].mark
    <3>1. info[u].mine # Null => info[u].mine \in Node /\ info[u].mine # n
      BY <1>3 DEF IInv, Types, InfoOK, MineOK
    <3>2. pc[u] \in CurPC => Cur(u) \in Node /\ Cur(u) # n
      BY <1>3, CurNode
    <3> QED
      BY <1>3, <3>1, <3>2 DEF Place
  <2>4. OthersStill(t)
    BY <1>3, <1>4, <2>3 DEF OthersStill
  <2>5. SameAnswers(t)
    BY <1>3, <1>4, <2>3 DEF SameAnswers
  <2> QED
    BY <1>3, <1>5, <2>1, <2>2, <2>4, <2>5 DEF Still
<1>7. ASSUME map' = map, Listed' = Listed PROVE ThreadOK(t, R)'
  <2>1. Cur(t)' = Cur(t) /\ info[t].cur \in Slot
    BY <1>1, <1>3, SlotNames DEF Cur, Kept, Fields, InfoOK
  <2>2. \A l, k : Behind(l, k, R) => Behind(l, k, R)'
    <3>1. \A m \in Listed : data'[m] = data[m]
      BY <1>5, SafeData, <1>1
    <3> QED
      BY <1>7, <3>1 DEF Behind, BucketAt, BucketOf, GreaterOrEqual
  <2>3. SearchOK(t, R)'
    BY <1>1, <1>3, <2>2 DEF ThreadOK, SearchOK, NewOK, PrevPC, FindPC, Kept, Fields
  <2>4. SuccessorOK(t)'
    <3> SUFFICES ASSUME call[t].how # "emplace", Cur(t) # Null
                 PROVE  <<t, info[t].cur>> \in Safe' /\ Beyond(Cur(t), info[t].key)'
      BY <1>3, <2>1 DEF SuccessorOK, Kept, Fields
    <3>1. <<t, info[t].cur>> \in Safe /\ Beyond(Cur(t), info[t].key)
      BY <1>1, <1>3 DEF ThreadOK, SuccessorOK
    <3>2. <<t, info[t].cur>> \in Safe' /\ Cur(t) \in Node \ {n}
      BY <1>3, <2>1, <3>1 DEF Cur
    <3>3. data'[Cur(t)] = data[Cur(t)] /\ info'[t].key = info[t].key
      BY <1>3, <1>5, <3>2 DEF Kept, Fields
    <3> QED
      BY <2>1, <3>1, <3>2, <3>3 DEF Beyond, GreaterOrEqual
  <2>5. MineDataOK(t)'
    BY <1>3, <1>4, <1>5 DEF MineDataOK
  <2>6. CallOK(t)'
    BY <1>1, <1>3, <1>4 DEF ThreadOK, CallOK, InsertPC, RemovePC, Kept, Fields, BucketOf
  <2>7. CouldOK(t)'
    BY <1>1, <1>3, <1>4, <1>7 DEF ThreadOK, CouldOK, Effected, M!Answers, Kept, Fields
  <2>8. FoundOK(t)'
    BY <1>3 DEF FoundOK
  <2> QED
    BY <2>3, <2>4, <2>5, <2>6, <2>7, <2>8 DEF ThreadOK
<1> QED
  BY <1>4, <1>6, <1>7, StillOK DEF MStep, Hidden

LEMMA LinkNodeGood ==
  ASSUME IInv, IInv', DataOK, HistoryType, NEW R, Good(R), NEW t \in Thread, LinkNode(t)
  PROVE  Good(R)' /\ MStep
<1> DEFINE n == info[t].mine
           s == IF call[t].how = "emplace" THEN info[t].new ELSE info[t].cur
<1>1. Types /\ RTypeOK /\ InfoOK(t) /\ LocalOK(t) /\ ThreadOK(t, R) /\ Ordered(R)
  BY DEF IInv, Types, Good
<1>2. /\ pc[t] = "link" /\ pc' = [pc EXCEPT ![t] = "insert"]
      /\ info' = info /\ call' = call
      /\ n \in Node /\ n \in FreshNodes
      /\ \A l \in Place : next'[l] = (IF l = n THEN Link(Cur(t)) ELSE next[l])
      /\ GuardsKept(t, {s})
      /\ Listed' = Listed /\ n \notin Source
      /\ \A u \in Thread \ {t}, x \in Slot : <<u, x>> \in Safe =>
            <<u, x>> \in Safe' /\ slot[u][x] \in Node \ {n}
  BY LinkNodeEffect
<1>3. data' = data /\ UNCHANGED <<could, res>> /\ pc'[t] = "insert"
      /\ \A u \in Thread \ {t} : pc'[u] = pc[u] /\ slot'[u] = slot[u]
  BY <1>1, <1>2 DEF LinkNode, Quiet, Types, GuardsKept
<1>4. Still(t)
  <2>1. \A l \in Source : next'[l] = next[l]
    BY <1>2 DEF Source, Place, Listed
  <2>2. Elements' = Elements /\ DataKept
    BY <1>2, <1>3, <2>1 DEF Elements, Source, DataKept
  <2>3. ASSUME NEW u \in Thread \ {t}
        PROVE  /\ info[u].mine # Null => next'[info[u].mine] = next[info[u].mine]
               /\ pc[u] \in CurPC => next'[Cur(u)].mark = next[Cur(u)].mark
    <3>1. info[u].mine # Null => info[u].mine \in Node /\ info[u].mine # n
      BY DEF IInv, Types, InfoOK, MineOK
    <3>2. pc[u] \in CurPC => Cur(u) \in Node /\ Cur(u) # n
      BY <1>2, CurNode
    <3> QED
      BY <1>2, <3>1, <3>2 DEF Place
  <2>4. OthersStill(t)
    BY <1>2, <1>3, <2>3 DEF OthersStill
  <2>5. SameAnswers(t)
    BY <1>3, <2>3 DEF SameAnswers
  <2> QED
    BY <1>2, <2>1, <2>2, <2>4, <2>5 DEF Still
<1>5. ASSUME map' = map, Listed' = Listed PROVE ThreadOK(t, R)'
  <2>1. MineDataOK(t)' /\ CallOK(t)' /\ CouldOK(t)'
    BY <1>1, <1>2, <1>3, <1>5, InsideOK DEF Inside, InsertPC, RemovePC, ThreadOK, CallOK
  <2>2. SearchOK(t, R)'
    BY <1>1, <1>2, <1>3, <1>5, BehindSame DEF ThreadOK, SearchOK, PrevPC, FindPC
  <2>3. SuccessorOK(t)'
    <3> SUFFICES ASSUME call[t].how = "emplace" PROVE SuccessorOK(t)'
      BY <1>2, <1>3 DEF SuccessorOK
    <3>1. info[t].cur \in Slot /\ info[t].cur # s
      BY <1>1, SlotNames DEF InfoOK
    <3>2. Cur(t)' = Cur(t) /\ (<<t, info[t].cur>> \in Safe => <<t, info[t].cur>> \in Safe')
      BY <1>2, <3>1 DEF GuardsKept, Cur
    <3>3. next'[n].ptr = Cur(t)
      BY <1>2 DEF Place, Link
    <3>4. Beyond(Cur(t), info[t].key)' = Beyond(Cur(t), info[t].key)
      BY <1>2, <1>3, <3>2 DEF Beyond, GreaterOrEqual
    <3>5. Cur(t) = Null \/ (<<t, info[t].cur>> \in Safe /\ Beyond(Cur(t), info[t].key))
      BY <1>1, <1>2 DEF ThreadOK, SuccessorOK
    <3> QED
      BY <1>2, <1>3, <3>2, <3>3, <3>4, <3>5 DEF SuccessorOK
  <2>4. FoundOK(t)'
    BY <1>3 DEF FoundOK
  <2> QED
    BY <2>1, <2>2, <2>3, <2>4 DEF ThreadOK
<1> QED
  BY <1>2, <1>3, <1>4, <1>5, StillOK DEF MStep, Hidden

LEMMA DeleteGood ==
  ASSUME IInv, IInv', DataOK, NEW R, Good(R), NEW n \in Node, Delete(n)
  PROVE  Good(R)' /\ MStep
<1>1. /\ UNCHANGED <<slot, next, pc, info, call>> /\ Listed' = Listed /\ \A g \in Safe : g \in Safe'
  BY DeleteEffect
<1>2. UNCHANGED <<data, could, res>>
  BY DEF Delete, history
<1> DEFINE t == {x \in Thread : x \notin x}
<1>3. t \notin Thread
  OBVIOUS
<1> HIDE DEF t
<1>4. Elements' = Elements /\ DataKept
  BY <1>1, <1>2 DEF Elements, DataKept
<1>5. OthersStill(t) /\ SameAnswers(t)
  BY <1>1, <1>2 DEF OthersStill, SameAnswers
<1>6. Still(t)
  BY <1>1, <1>4, <1>5 DEF Still
<1> QED
  BY <1>1, <1>2, <1>3, <1>6, StillOK DEF MStep, Hidden

LEMMA CutGood ==
  ASSUME IInv, IInv', DataOK, HistoryType, NEW R, Good(R), NEW t \in Thread, Splice(t) \/ Unlink(t)
  PROVE  Good(R)' /\ MStep
<1> DEFINE n == Cur(t)
           p == info[t].prev
           q == info[t].next.ptr
<1>1. Types /\ RTypeOK /\ InfoOK(t) /\ LocalOK(t) /\ ThreadOK(t, R) /\ Ordered(R) /\ ListOK
  BY DEF IInv, Types, Good
<1>2. /\ \/ pc[t] = "splice" /\ pc'[t] = "retire"
         \/ pc[t] = "unlink" /\ pc'[t] = "reclaim"
      /\ info' = info /\ call' = call /\ slot' = slot
      /\ \A u \in Thread \ {t} : pc'[u] = pc[u]
      /\ n \in Node /\ n \notin FreshNodes /\ next[n].mark /\ next[n].ptr = q
      /\ p \in Source /\ next[p].ptr = n /\ p # n /\ n \in Listed /\ Source \subseteq Place
      /\ \A l \in Place : next'[l] = (IF l = p THEN info[t].next ELSE next[l])
      /\ Listed' = Listed \ {n} /\ Source' = Source \ {n}
      /\ \A g \in Safe : g \in Safe'
      /\ \A l \in Place : next[l].mark => next'[l] = next[l]
  BY CutEffect
<1>3. UNCHANGED <<status, data, could, res>>
  BY DEF Splice, Unlink, Quiet
<1>4. ~next[p].mark /\ ~info[t].next.mark
  BY CutEffect
<1>5. \A l \in Place : next'[l].mark = next[l].mark
  <2>1. info[t].next.mark \in BOOLEAN /\ next[p].mark \in BOOLEAN
    BY <1>1, <1>2 DEF Types, InfoOK, LinkType
  <2> QED
    BY <1>2, <1>4, <2>1
<1>6. Elements' = Elements
  BY <1>2, <1>5 DEF Elements, Source
<1>7. Ordered(R)'
  <2>1. \A l \in Source' : l \in Source /\ next'[l].ptr = (IF l = p THEN q ELSE next[l].ptr)
    BY <1>2
  <2>2. \A l \in Source' : l # p => next[l].ptr # n
    BY <1>1, <1>2, NullAssumption DEF ListOK
  <2>3. q # Null => q \in Listed /\ <<n, q>> \in R /\ q # n
    <3>1. q # Null => q \in Listed /\ <<n, q>> \in R
      BY <1>1, <1>2, NextListed DEF Ordered, Source
    <3> QED
      BY <1>1, <3>1, StrictOrder
  <2>4. \A x \in Listed : <<n, x>> \in R => q # Null /\ (x = q \/ <<q, x>> \in R)
    BY <1>1, <1>2 DEF Ordered
  <2>5. \A l \in Source' : next'[l].ptr # Null => next'[l].ptr \in Listed' /\ next'[l].ptr \in Listed
    BY <1>2, <2>1, <2>2, <2>3, NextListed
  <2>6. \A x, y : GE(x, y)' = GE(x, y) /\ BucketAt(x)' = BucketAt(x)
    BY <1>3 DEF GE, BucketAt, GreaterOrEqual, BucketOf
  <2>7. ASSUME NEW l \in Listed'
        PROVE  /\ next'[l].ptr # Null => <<l, next'[l].ptr>> \in R
               /\ \A x \in Listed' : <<l, x>> \in R =>
                     next'[l].ptr # Null /\ (x = next'[l].ptr \/ <<next'[l].ptr, x>> \in R)
    <3>1. l \in Source' /\ l \in Listed /\ Listed' \subseteq Listed /\ n \notin Listed'
      BY <1>2 DEF Source
    <3>2. /\ next[l].ptr # Null => <<l, next[l].ptr>> \in R
          /\ \A x \in Listed : <<l, x>> \in R =>
                next[l].ptr # Null /\ (x = next[l].ptr \/ <<next[l].ptr, x>> \in R)
      BY <1>1, <3>1 DEF Ordered
    <3>3. CASE l # p
      BY <2>1, <3>1, <3>2, <3>3
    <3>4. CASE l = p
      <4>1. next'[l].ptr = q /\ next[l].ptr = n
        BY <1>2, <2>1, <3>1, <3>4
      <4>2. q # Null => <<l, q>> \in R
        BY <1>1, <1>2, <2>3, <3>1, <3>2, <4>1, NullAssumption DEF Ordered
      <4>3. ASSUME NEW x \in Listed', <<l, x>> \in R
            PROVE  q # Null /\ (x = q \/ <<q, x>> \in R)
        BY <2>4, <3>1, <3>2, <4>1, <4>3
      <4> QED
        BY <4>1, <4>2, <4>3
    <3> QED
      BY <3>3, <3>4
  <2>8. ASSUME NEW b \in Bucket
        PROVE  /\ next'[b].ptr # Null => BucketAt(next'[b].ptr) = b
               /\ \A x \in Listed' : BucketAt(x) = b =>
                     next'[b].ptr # Null /\ (x = next'[b].ptr \/ <<next'[b].ptr, x>> \in R)
    <3>1. b \in Source' /\ Listed' \subseteq Listed /\ n \notin Listed'
      BY <1>2 DEF Source
    <3>2. /\ next[b].ptr # Null => BucketAt(next[b].ptr) = b
          /\ \A x \in Listed : BucketAt(x) = b =>
                next[b].ptr # Null /\ (x = next[b].ptr \/ <<next[b].ptr, x>> \in R)
      BY <1>1 DEF Ordered
    <3>3. CASE b # p
      BY <2>1, <3>1, <3>2, <3>3
    <3>4. CASE b = p
      <4>1. next'[b].ptr = q /\ next[b].ptr = n
        BY <1>2, <2>1, <3>1, <3>4
      <4>2. q # Null => BucketAt(q) = b
        BY <1>1, <1>2, <2>3, <3>2, <4>1, NullAssumption DEF Ordered
      <4>3. ASSUME NEW x \in Listed', BucketAt(x) = b
            PROVE  q # Null /\ (x = q \/ <<q, x>> \in R)
        BY <2>4, <3>1, <3>2, <4>1, <4>3
      <4> QED
        BY <4>1, <4>2, <4>3
    <3> QED
      BY <3>3, <3>4
  <2>9. \A x, y, z \in Listed' : <<x, y>> \in R /\ <<y, z>> \in R => <<x, z>> \in R
    BY <1>1, <1>2 DEF Ordered
  <2>10. \A x, y \in Listed' :
            /\ <<x, y>> \in R => ~GE(x, y) /\ BucketAt(x) = BucketAt(y)
            /\ BucketAt(x) = BucketAt(y) => x = y \/ <<x, y>> \in R \/ <<y, x>> \in R
    BY <1>1, <1>2 DEF Ordered
  <2> HIDE DEF IInv, n, p, q
  <2> QED
    BY <2>6, <2>7, <2>8, <2>9, <2>10 DEF Ordered
<1>8. OthersStill(t) /\ SameAnswers(t) /\ DataKept
  <2>1. ASSUME NEW u \in Thread \ {t}
        PROVE  /\ info[u].mine # Null => next'[info[u].mine] = next[info[u].mine]
               /\ pc[u] \in CurPC => next'[Cur(u)].mark = next[Cur(u)].mark
    <3>1. info[u].mine # Null => info[u].mine \in Place /\ info[u].mine \notin Source
      BY <1>1, BucketType DEF IInv, Types, InfoOK, MineOK, Place, Source, Listed, FreshNodes
    <3>2. pc[u] \in CurPC => Cur(u) \in Place
      BY CurNode DEF Place
    <3> QED
      BY <1>2, <1>5, <3>1, <3>2
  <2>2. DataKept
    BY <1>3 DEF DataKept
  <2>3. OthersStill(t)
    BY <1>2, <1>3, <2>1 DEF OthersStill
  <2>4. SameAnswers(t)
    BY <1>2, <1>3, <2>1 DEF SameAnswers
  <2> QED
    BY <2>2, <2>3, <2>4
<1>9. map' = map
  BY <1>3, <1>6, SameMap
<1>10. ThreadOK(t, R)'
  <2>1. MineDataOK(t)' /\ CallOK(t)' /\ CouldOK(t)'
    BY <1>1, <1>2, <1>3, <1>9, InsideOK
       DEF Inside, InsertPC, RemovePC, LocalOK, ThreadOK, CallOK
  <2>2. \A l, k : Behind(l, k, R) => Behind(l, k, R)'
    BY <1>2, <1>3 DEF Behind, BucketAt, BucketOf, GreaterOrEqual
  <2>3. SearchOK(t, R)'
    BY <1>1, <1>2, <1>3, <2>2 DEF ThreadOK, SearchOK, PrevPC, FindPC
  <2>4. SuccessorOK(t)' /\ FoundOK(t)'
    BY <1>2 DEF SuccessorOK, FoundOK
  <2> QED
    BY <2>1, <2>3, <2>4 DEF ThreadOK
<1> HIDE DEF IInv, n, p, q
<1>11. Good(R)'
  <2>1. Listed' \subseteq Listed
    BY <1>2
  <2> QED
    BY <1>6, <1>7, <1>8, <1>10, <2>1, OthersOK
<1> QED
  BY <1>2, <1>3, <1>9, <1>11 DEF MStep, Hidden

-----------------------------------------------------------------------------
(* Effects                                                                 *)

\* When thread t changes the map, the others may answer for the new map as well.
LEMMA EffectOK ==
  ASSUME IInv, IInv', DataOK, DataOK', HistoryType, NEW R, Good(R), NEW R1, NEW t \in Thread, Ordered(R1)',
         data' = data, call' = call, OthersStill(t), M!Witness(t, map'), ThreadOK(t, R1)',
         \A u \in Thread \ {t} :
            /\ SearchOK(u, R1)'
            /\ pc[u] \in CurPC /\ next'[Cur(u)].mark =>
                  next[Cur(u)].mark \/ map'[data[Cur(u)].key] = Absent
  PROVE  Good(R1)'
<1>1. MapTyped'
  BY MapTyping, PTL
<1>2. DataKept
  BY DEF DataKept
<1>3. ASSUME NEW u \in Thread, u # t
      PROVE  ThreadOK(u, R1)'
  <2>1. ThreadOK(u, R) /\ LocalOK(u)
    BY DEF Good, IInv
  <2>2. /\ SuccessorOK(u)' /\ MineDataOK(u)' /\ CallOK(u)' /\ Cur(u)' = Cur(u)
    BY <1>2, <1>3, <2>1, OtherCallOK DEF OthersStill
  <2>3. pc'[u] = pc[u] /\ info'[u] = info[u]
    BY <1>3 DEF OthersStill
  <2>4. ASSUME pc[u] \notin {"idle", "done", "gone"}, info[u].then # "scan"
        PROVE  /\ Effected(u) => could'[u] = {"success"}
               /\ ~Effected(u) => /\ "success" \notin could'[u]
                                  /\ could'[u] = could[u] \union M!Answers(call[u], map')
    <3>1. call[u] \in MapCalls
      BY <2>1, <2>4 DEF ThreadOK, CallOK
    <3>2. call[u] # NoCall
      BY <3>1, HMAnswerAssumption
    <3>3. /\ Effected(u) => could[u] = {"success"}
          /\ ~Effected(u) => "success" \notin could[u]
      BY <2>1, <2>4 DEF ThreadOK, CouldOK
    <3>4. "success" \notin M!Answers(call[u], map')
      <4>1. map'[call[u].key] \in Value \union {Absent} /\ call[u].op \in {"insert", "get", "remove"}
        BY <1>1, <3>1, CallType DEF MapTyped
      <4>2. "success" # map'[call[u].key]
        BY <4>1, HMAnswerAssumption
      <4> HIDE DEF map
      <4> QED
        BY <4>1, <4>2 DEF M!Answers
    <3>5. could'[u] = IF call[u] = NoCall \/ "success" \in could[u] THEN could[u]
                      ELSE could[u] \union M!Answers(call[u], map')
      BY <1>3 DEF M!Witness
    <3> HIDE DEF map
    <3> QED
      BY <3>2, <3>3, <3>4, <3>5
  <2>5. Effected(u)' = Effected(u)
    BY <2>3 DEF Effected
  <2>6. M!Answers(call[u], map)' = M!Answers(call[u], map')
    BY DEF M!Answers
  <2>7. CouldOK(u)'
    BY <2>1, <2>3, <2>4, <2>5, <2>6 DEF ThreadOK, CouldOK
  <2>8. FoundOK(u)'
    <3> SUFFICES ASSUME \/ pc[u] = "check" /\ info[u].then = "call" /\ data[Cur(u)].key = info[u].key
                        \/ pc[u] \in {"use", "mark", "it_load", "it_mark"}
                 PROVE  /\ data[Cur(u)].key = info[u].key
                        /\ call[u].op = "get" => data[Cur(u)].val \in could'[u]
                        /\ call[u].op = "insert" => "already_present" \in could'[u]
                        /\ call[u].op = "remove" /\ next'[Cur(u)].mark =>
                              "element_not_found" \in could'[u]
      BY <2>2, <2>3 DEF FoundOK
    <3>1. info[u].then # "scan" /\ ~Effected(u) /\ pc[u] \in CurPC
      BY <2>1 DEF ThreadOK, CallOK, Effected, RemovePC, CurPC
    <3>2. /\ data[Cur(u)].key = info[u].key
          /\ call[u].op = "get" => data[Cur(u)].val \in could[u]
          /\ call[u].op = "insert" => "already_present" \in could[u]
          /\ call[u].op = "remove" /\ next[Cur(u)].mark => "element_not_found" \in could[u]
      BY <2>1 DEF ThreadOK, FoundOK
    <3>3. could'[u] = could[u] \union M!Answers(call[u], map')
      BY <2>4, <3>1 DEF CurPC
    <3>4. ASSUME call[u].op = "remove", next'[Cur(u)].mark, ~next[Cur(u)].mark
          PROVE  "element_not_found" \in M!Answers(call[u], map')
      <4>1. map'[call[u].key] = Absent
        BY <1>3, <2>1, <3>1, <3>2, <3>4 DEF ThreadOK, CallOK, CurPC
      <4> HIDE DEF map
      <4> QED
        BY <3>4, <4>1 DEF M!Answers
    <3> HIDE DEF map
    <3> QED
      BY <3>2, <3>3, <3>4
  <2> QED
    BY <1>3, <2>2, <2>7, <2>8 DEF ThreadOK
<1> QED
  BY <1>3 DEF Good

\* A node that is marked was in the map until then.
LEMMA MarkedGood ==
  ASSUME IInv, IInv', DataOK, DataOK', HistoryType, NEW R, Good(R), NEW t \in Thread,
         Mark(t) \/ ItMark(t)
  PROVE  Good(R)' /\ MStep
<1> DEFINE n == Cur(t)
<1>1. Types /\ RTypeOK /\ InfoOK(t) /\ LocalOK(t) /\ ThreadOK(t, R) /\ Ordered(R)
  BY DEF IInv, Types, Good
<1>2. /\ \/ pc[t] = "mark" /\ pc'[t] = "unlink"
         \/ pc[t] = "it_mark" /\ pc'[t] = "it_guard"
      /\ \A u \in Thread \ {t} : pc'[u] = pc[u] /\ info'[u] = info[u]
      /\ Kept(t, {"then"}) /\ info'[t].then = "success"
      /\ call' = call /\ slot' = slot
      /\ n \in Node /\ n \notin FreshNodes /\ ~next[n].mark
      /\ \A l \in Place : next'[l].ptr = next[l].ptr /\ (l # n => next'[l] = next[l])
      /\ next'[n].mark /\ Listed' = Listed /\ \A g \in Safe : g \in Safe'
  BY MarkedEffect
<1>3. data' = data /\ res' = res /\ M!Witness(t, map')
  BY DEF Mark, ItMark, Effect
<1>4. n \in Listed /\ n \in Elements /\ n \in Place
  <2>1. <<t, info[t].cur>> \in Safe /\ info[t].cur \in Slot /\ pc[t] # "gone"
    BY <1>1, <1>2, SlotNames DEF LocalOK, CurPC, InfoOK
  <2>2. n \in Listed
    BY <1>2, <2>1, SafeListed DEF Cur
  <2> QED
    BY <1>2, <2>2 DEF Elements, Place
<1>5. Elements' = Elements \ {n}
  BY <1>2 DEF Elements, Listed, Place
<1>6. /\ call[t] \in MapCalls /\ call[t].op = "remove" /\ call[t].key = data[n].key
      /\ "success" \notin could[t]
  BY <1>1, <1>2 DEF ThreadOK, CallOK, FoundOK, CouldOK, Effected, RemovePC
<1>7. map' = [map EXCEPT ![call[t].key] = Absent] /\ map'[call[t].key] = Absent
  <2>1. map' = [map EXCEPT ![call[t].key] = Absent]
    <3> HIDE DEF n, map, IInv
    <3> QED
      BY <1>1, <1>3, <1>4, <1>5, <1>6, MapLess
  <2>2. DOMAIN map = Key
    BY DEF map
  <2>3. call[t].key \in Key
    BY <1>6, CallType
  <2> HIDE DEF map
  <2> QED
    BY <2>1, <2>2, <2>3
<1>8. map[call[t].key] \in call[t].exp
  <2>1. call[t].key \in Key /\ Value \subseteq call[t].exp
    BY <1>6, CallType
  <2>2. map[call[t].key] \in Value
    BY <1>1, <1>4, <1>6, <2>1, MapValue
  <2> QED
    BY <2>1, <2>2
<1>9. M!Apply(t)
  <2>1. call[t] # NoCall
    BY <1>6, HMAnswerAssumption
  <2> HIDE DEF map
  <2> QED
    BY <1>2, <1>3, <1>6, <1>7, <1>8, <2>1 DEF M!Apply, M!Applies, M!After
<1>10. Ordered(R)'
  <2>1. Source \subseteq Place
    BY DEF Source, Place, Listed
  <2> QED
    BY <1>1, <1>2, <1>3, <2>1, SameOrder
<1>11. OthersStill(t)
  <2>1. ASSUME NEW u \in Thread \ {t}, info[u].mine # Null
        PROVE  next'[info[u].mine] = next[info[u].mine]
    <3>1. info[u].mine \in FreshNodes /\ info[u].mine \in Place
      BY <2>1 DEF IInv, Types, InfoOK, FreshNodes, Place
    <3> QED
      BY <1>2, <3>1
  <2> QED
    BY <1>2, <1>3, <2>1 DEF OthersStill
<1>12. ASSUME NEW u \in Thread \ {t}
       PROVE  /\ SearchOK(u, R)'
              /\ pc[u] \in CurPC /\ next'[Cur(u)].mark =>
                    next[Cur(u)].mark \/ map'[data[Cur(u)].key] = Absent
  <2>1. SearchOK(u, R)'
    BY <1>2, <1>3, SearchKept DEF Good, ThreadOK
  <2>2. pc[u] \in CurPC => Cur(u) \in Place
    BY CurNode DEF Place
  <2> HIDE DEF map
  <2> QED
    BY <1>2, <1>6, <1>7, <2>1, <2>2
<1>13. ThreadOK(t, R)'
  <2>1. could'[t] = {"success"}
    BY <1>3 DEF M!Witness
  <2>2. MineDataOK(t)'
    BY <1>1, <1>2, <1>3 DEF ThreadOK, MineDataOK, Kept, Fields
  <2>3. CallOK(t)'
    BY <1>1, <1>2, <1>3, <1>6 DEF ThreadOK, CallOK, InsertPC, RemovePC, Kept, Fields, BucketOf
  <2>4. SearchOK(t, R)' /\ SuccessorOK(t)' /\ FoundOK(t)' /\ CouldOK(t)'
    BY <1>2, <2>1 DEF SearchOK, SuccessorOK, FoundOK, CouldOK, Effected
  <2> QED
    BY <2>2, <2>3, <2>4 DEF ThreadOK
<1> HIDE DEF IInv, n, map
<1>14. Good(R)'
  BY <1>2, <1>3, <1>10, <1>11, <1>12, <1>13, EffectOK
<1> QED
  BY <1>9, <1>14 DEF MStep, M!MNext

\* The order of the lists once node n is linked behind p
WithNode(R, n, p) ==
    LET q == next[p].ptr
        above == {y \in Listed : q # Null /\ (y = q \/ <<q, y>> \in R)}
    IN {e \in Node \X Node :
           \/ e \in R /\ e[1] \in Listed /\ e[2] \in Listed
           \/ e[1] = n /\ e[2] \in above
           \/ e[2] = n /\ e[1] \in Listed \ above /\ BucketAt(e[1]) = BucketAt(n)}

\* R1 is that order: what is above n and what is below
Joins(R, R1, n, p) ==
    LET q == next[p].ptr IN
    /\ <<n, n>> \notin R1
    /\ \A x, y \in Listed : <<x, y>> \in R1 <=> <<x, y>> \in R
    /\ \A y \in Listed : <<n, y>> \in R1 <=> q # Null /\ (y = q \/ <<q, y>> \in R)
    /\ \A x \in Listed : <<x, n>> \in R1 <=> BucketAt(x) = BucketAt(n) /\ <<n, x>> \notin R1

LEMMA WithNodeJoins ==
  ASSUME NEW R, NEW n \in Node, n \notin Listed, NEW p
  PROVE  Joins(R, WithNode(R, n, p), n, p)
<1> DEFINE q == next[p].ptr
           above == {y \in Listed : q # Null /\ (y = q \/ <<q, y>> \in R)}
           R1 == WithNode(R, n, p)
<1>1. Listed \subseteq Node
  BY DEF Listed
<1>2. ASSUME NEW x \in Node, NEW y \in Node
      PROVE  <<x, y>> \in R1 <=> \/ <<x, y>> \in R /\ x \in Listed /\ y \in Listed
                                 \/ x = n /\ y \in above
                                 \/ y = n /\ x \in Listed \ above /\ BucketAt(x) = BucketAt(n)
  BY DEF WithNode
<1> HIDE DEF R1
<1>3. <<n, n>> \notin R1
  BY <1>2
<1>7. ASSUME NEW x \in Listed, NEW y \in Listed
      PROVE  <<x, y>> \in R1 <=> <<x, y>> \in R
  <2>1. x \in Node /\ y \in Node /\ x # n /\ y # n
    BY <1>1
  <2> HIDE DEF above
  <2> QED
    BY <1>2, <2>1
<1>4. \A y \in Listed : <<n, y>> \in R1 <=> y \in above
  BY <1>1, <1>2
<1>5. \A x \in Listed : <<x, n>> \in R1 <=> BucketAt(x) = BucketAt(n) /\ x \notin above
  BY <1>1, <1>2
<1>6. Joins(R, R1, n, p)
  BY <1>3, <1>4, <1>5, <1>7 DEF Joins
<1> QED
  BY <1>6 DEF R1

\* Where a search has ended, a node with the key that it looked for may be linked.
LinkPlace(R, n, p) ==
    /\ n \in Node \ Listed /\ p \in Source /\ data[n].key \in Key
    /\ Behind(p, data[n].key, R)
    /\ next[p].ptr # Null => next[p].ptr \in Listed /\ Beyond(next[p].ptr, data[n].key)

Fits(R, R1, n, p) ==
    /\ p \in Listed => <<p, n>> \in R1
    /\ \A x \in Listed : <<x, n>> \in R1 => p \in Listed /\ (x = p \/ <<x, p>> \in R)
    /\ \A y \in Listed : <<n, y>> \in R1 => BucketAt(y) = BucketAt(n) /\ ~GE(n, y)
    /\ \A x \in Listed : <<x, n>> \in R1 => ~GE(x, n)

LEMMA Neighbours ==
  ASSUME DataOK, NEW R, Ordered(R), NEW R1, NEW n, NEW p, Joins(R, R1, n, p), LinkPlace(R, n, p)
  PROVE  Fits(R, R1, n, p)
<1> DEFINE q == next[p].ptr
           k == data[n].key
<1>1. /\ BucketAt(n) = BucketOf(k) /\ p \in Source /\ Behind(p, k, R)
      /\ q # Null => q \in Listed /\ Beyond(q, k)
      /\ p \in Listed => BucketAt(p) = BucketAt(n)
  BY DEF LinkPlace, BucketAt, Behind
<1>2. q # Null => BucketAt(q) = BucketAt(n)
  <2>1. CASE p \in Bucket
    BY <1>1, <2>1 DEF Ordered, Behind
  <2>2. CASE p \in Listed
    BY <1>1, <2>2 DEF Ordered
  <2> QED
    BY <1>1, <2>1, <2>2 DEF Source
<1>3. ASSUME p \in Listed PROVE <<p, n>> \in R1
  <2>1. q # Null => <<p, q>> \in R
    BY <1>3 DEF Ordered
  <2>2. q # Null => p # q /\ <<q, p>> \notin R
    BY <1>1, <1>3, <2>1, StrictOrder
  <2> QED
    BY <1>1, <1>3, <2>2 DEF Joins
<1>4. ASSUME NEW x \in Listed, <<x, n>> \in R1
      PROVE  p \in Listed /\ (x = p \/ <<x, p>> \in R)
  <2>1. BucketAt(x) = BucketAt(n) /\ ~(q # Null /\ (x = q \/ <<q, x>> \in R))
    BY <1>4 DEF Joins
  <2>2. p \notin Bucket
    BY <1>1, <2>1 DEF Ordered, Behind
  <2>3. p \in Listed /\ BucketAt(x) = BucketAt(p)
    BY <1>1, <2>1, <2>2 DEF Source
  <2>4. <<p, x>> \notin R
    BY <2>1, <2>3 DEF Ordered
  <2> QED
    BY <2>3, <2>4 DEF Ordered
<1>5. ASSUME NEW x \in Listed, <<x, n>> \in R1
      PROVE  ~GE(x, n)
  BY <1>1, <1>4, <1>5 DEF Behind, GE
<1>6. ASSUME NEW y \in Listed, <<n, y>> \in R1
      PROVE  BucketAt(y) = BucketAt(n) /\ ~GE(n, y)
  <2>1. q # Null /\ q \in Listed /\ (y = q \/ <<q, y>> \in R) /\ GreaterOrEqual(data[q].key, k)
        /\ data[q].key # k
    BY <1>1, <1>6 DEF Joins, Beyond
  <2>2. data[q].key \in Key /\ data[y].key \in Key /\ k \in Key
    BY <2>1, ListedData DEF LinkPlace
  <2>3. CASE y = q
    BY <1>2, <2>1, <2>2, <2>3, KeyOrder DEF GE
  <2>4. CASE <<q, y>> \in R
    <3>1. ~GreaterOrEqual(data[q].key, data[y].key) /\ BucketAt(y) = BucketAt(n)
      BY <1>2, <2>1, <2>4 DEF Ordered, GE
    <3> QED
      BY <2>1, <2>2, <3>1, KeyOrder DEF GE
  <2> QED
    BY <2>1, <2>3, <2>4
<1> QED
  BY <1>3, <1>4, <1>5, <1>6 DEF Fits

LEMMA JoinedOrdered ==
  ASSUME DataOK, NEW R, Ordered(R), NEW R1, NEW n, NEW p, Joins(R, R1, n, p), LinkPlace(R, n, p),
         ListOK, Listed' = Listed \union {n}, data' = data, next'[p].ptr = n, next'[n].ptr = next[p].ptr,
         \A l \in Source : l # p => next'[l].ptr = next[l].ptr, n # Null, n \notin Bucket
  PROVE  Ordered(R1)'
<1> DEFINE q == next[p].ptr
<1>1. /\ p \in Listed => <<p, n>> \in R1
      /\ \A x \in Listed : <<x, n>> \in R1 => p \in Listed /\ (x = p \/ <<x, p>> \in R)
      /\ \A y \in Listed : <<n, y>> \in R1 => BucketAt(y) = BucketAt(n) /\ ~GE(n, y)
      /\ \A x \in Listed : <<x, n>> \in R1 => ~GE(x, n)
  <2>1. Fits(R, R1, n, p)
    BY Neighbours
  <2> QED
    BY <2>1 DEF Fits
<1>2. /\ <<n, n>> \notin R1
      /\ \A x, y \in Listed : <<x, y>> \in R1 <=> <<x, y>> \in R
      /\ \A y \in Listed : <<n, y>> \in R1 <=> q # Null /\ (y = q \/ <<q, y>> \in R)
      /\ \A x \in Listed : <<x, n>> \in R1 <=> BucketAt(x) = BucketAt(n) /\ <<n, x>> \notin R1
  BY DEF Joins
<1>3. /\ n \notin Listed /\ p \in Source /\ (q # Null => q \in Listed)
      /\ p \in Bucket => p = BucketAt(n)
      /\ p \in Listed => BucketAt(p) = BucketAt(n)
      /\ Source = Bucket \union Listed
      /\ \A l \in Source : next[l].ptr # Null => next[l].ptr \in Listed
  BY DEF LinkPlace, Behind, BucketAt, Source, ListOK
<1>4. /\ \A x, y \in Listed : <<x, y>> \in R => ~GE(x, y) /\ BucketAt(x) = BucketAt(y)
      /\ \A x, y \in Listed : BucketAt(x) = BucketAt(y) => x = y \/ <<x, y>> \in R \/ <<y, x>> \in R
      /\ \A x, y, z \in Listed : <<x, y>> \in R /\ <<y, z>> \in R => <<x, z>> \in R
      /\ \A l \in Listed :
            /\ next[l].ptr # Null => <<l, next[l].ptr>> \in R
            /\ \A y \in Listed : <<l, y>> \in R =>
                  next[l].ptr # Null /\ (y = next[l].ptr \/ <<next[l].ptr, y>> \in R)
      /\ \A b \in Bucket :
            /\ next[b].ptr # Null => BucketAt(next[b].ptr) = b
            /\ \A y \in Listed : BucketAt(y) = b =>
                  next[b].ptr # Null /\ (y = next[b].ptr \/ <<next[b].ptr, y>> \in R)
  BY DEF Ordered
<1>5. /\ \A x \in Listed : <<x, x>> \notin R
      /\ \A x, y \in Listed : <<x, y>> \in R => <<y, x>> \notin R
  BY StrictOrder
<1>6. \A x, y : GE(x, y)' = GE(x, y) /\ BucketAt(x)' = BucketAt(x)
  BY DEF GE, BucketAt, GreaterOrEqual, BucketOf
<1>7. ASSUME NEW x \in Listed', NEW y \in Listed', <<x, y>> \in R1
      PROVE  ~GE(x, y) /\ BucketAt(x) = BucketAt(y)
  <2>1. CASE x \in Listed /\ y \in Listed
    BY <1>2, <1>4, <1>7, <2>1
  <2>2. CASE x = n /\ y \in Listed
    BY <1>1, <1>7, <2>2
  <2>3. CASE x \in Listed /\ y = n
    BY <1>1, <1>2, <1>7, <2>3
  <2> QED
    BY <1>2, <1>7, <2>1, <2>2, <2>3
<1>8. ASSUME NEW x \in Listed', NEW y \in Listed', BucketAt(x) = BucketAt(y)
      PROVE  x = y \/ <<x, y>> \in R1 \/ <<y, x>> \in R1
  <2>1. CASE x \in Listed /\ y \in Listed
    BY <1>2, <1>4, <1>8, <2>1
  <2>2. CASE x = n /\ y \in Listed
    BY <1>2, <1>8, <2>2
  <2>3. CASE x \in Listed /\ y = n
    BY <1>2, <1>8, <2>3
  <2> QED
    BY <2>1, <2>2, <2>3
<1>9. ASSUME NEW x \in Listed, NEW y \in Listed, <<x, y>> \in R, <<y, n>> \in R1
      PROVE  <<x, n>> \in R1
  <2>1. BucketAt(x) = BucketAt(n) /\ ~(q # Null /\ (y = q \/ <<q, y>> \in R))
    BY <1>2, <1>4, <1>9
  <2>2. ~(q # Null /\ (x = q \/ <<q, x>> \in R))
    BY <1>3, <1>4, <1>9, <2>1
  <2> HIDE DEF q
  <2> QED
    BY <1>2, <2>1, <2>2
<1>10. ASSUME NEW x \in Listed', NEW y \in Listed', NEW z \in Listed', <<x, y>> \in R1, <<y, z>> \in R1
       PROVE  <<x, z>> \in R1
  <2>1. CASE x # n /\ y # n /\ z # n
    BY <1>2, <1>4, <1>10, <2>1
  <2>2. CASE x = n /\ y # n
    BY <1>2, <1>3, <1>4, <1>10, <2>2
  <2>3. CASE x # n /\ y = n
    <3>1. z # n /\ x \in Listed /\ z \in Listed /\ BucketAt(x) = BucketAt(z)
      BY <1>1, <1>2, <1>10, <2>3
    <3>2. x # z /\ <<z, x>> \notin R
      BY <1>2, <1>3, <1>4, <1>10, <2>3, <3>1
    <3> QED
      BY <1>2, <1>4, <3>1, <3>2
  <2>4. CASE x # n /\ y # n /\ z = n
    BY <1>2, <1>9, <1>10, <2>4
  <2> QED
    BY <1>2, <1>10, <2>1, <2>2, <2>3, <2>4
<1>11. \A x \in Listed : p \in Listed /\ (x = p \/ <<x, p>> \in R) => <<x, n>> \in R1
  BY <1>1, <1>9
<1>12. ASSUME NEW l \in Listed'
       PROVE  /\ next'[l].ptr # Null => <<l, next'[l].ptr>> \in R1
              /\ \A y \in Listed' : <<l, y>> \in R1 =>
                    next'[l].ptr # Null /\ (y = next'[l].ptr \/ <<next'[l].ptr, y>> \in R1)
  <2>1. CASE l = n
    BY <1>2, <1>3, <2>1
  <2>2. CASE l = p /\ l # n
    BY <1>1, <1>2, <1>4, <2>2
  <2>3. CASE l # p /\ l # n
    <3> DEFINE m == next[l].ptr
    <3>1. l \in Listed /\ next'[l].ptr = m /\ (m # Null => m \in Listed /\ <<l, m>> \in R)
      BY <1>3, <1>4, <2>3
    <3>2. ASSUME NEW y \in Listed, <<l, y>> \in R1
          PROVE  m # Null /\ (y = m \/ <<m, y>> \in R1)
      BY <1>2, <1>4, <3>1, <3>2
    <3>3. ASSUME <<l, n>> \in R1
          PROVE  m # Null /\ <<m, n>> \in R1
      <4>1. p \in Listed /\ <<l, p>> \in R
        BY <1>1, <2>3, <3>1, <3>3
      <4>2. m # Null /\ (p = m \/ <<m, p>> \in R)
        BY <1>4, <3>1, <4>1
      <4> QED
        BY <1>11, <3>1, <4>1, <4>2
    <3> QED
      BY <1>2, <3>1, <3>2, <3>3
  <2> QED
    BY <2>1, <2>2, <2>3
<1>13. ASSUME NEW b \in Bucket
       PROVE  /\ next'[b].ptr # Null => BucketAt(next'[b].ptr) = b
              /\ \A y \in Listed' : BucketAt(y) = b =>
                    next'[b].ptr # Null /\ (y = next'[b].ptr \/ <<next'[b].ptr, y>> \in R1)
  <2>1. CASE b = p
    BY <1>2, <1>3, <1>4, <2>1
  <2>2. CASE b # p
    <3> DEFINE m == next[b].ptr
    <3>1. next'[b].ptr = m /\ (m # Null => m \in Listed /\ BucketAt(m) = b)
      BY <1>3, <1>4, <2>2
    <3>2. ASSUME NEW y \in Listed, BucketAt(y) = b
          PROVE  m # Null /\ (y = m \/ <<m, y>> \in R1)
      BY <1>2, <1>4, <3>1, <3>2
    <3>3. ASSUME BucketAt(n) = b
          PROVE  m # Null /\ <<m, n>> \in R1
      <4>1. p \in Listed /\ BucketAt(p) = b
        BY <1>3, <2>2, <3>3
      <4>2. m # Null /\ (p = m \/ <<m, p>> \in R)
        BY <1>4, <4>1
      <4> QED
        BY <1>11, <3>1, <4>1, <4>2
    <3> QED
      BY <3>1, <3>2, <3>3
  <2> QED
    BY <2>1, <2>2
<1> HIDE DEF q
<1> QED
  BY <1>6, <1>7, <1>8, <1>10, <1>12, <1>13 DEF Ordered

\* An insert puts its node where the search has ended ...
LEMMA InsertPlace ==
  ASSUME IInv, DataOK, NEW R, Good(R), SuccessorKept, NEW t \in Thread, InsertCas(t)
  PROVE  LinkPlace(R, info[t].mine, info[t].prev) /\ data[info[t].mine].key = call[t].key
<1> DEFINE n == info[t].mine
           p == info[t].prev
           q == next[p].ptr
<1>1. Types /\ InfoOK(t) /\ LocalOK(t) /\ ThreadOK(t, R) /\ Ordered(R)
  BY DEF IInv, Types, Good
<1>2. /\ pc[t] = "insert" /\ At(t) = next[n] /\ n \in Node /\ n \in FreshNodes
      /\ p \in Source /\ n \notin Source
  BY InsertCasEffect
<1>3. n # Null
  BY <1>2, NullAssumption
<1>4. /\ call[t] \in MapCalls /\ info[t].key = call[t].key /\ info[t].then = "call"
      /\ data[n].key = call[t].key
  BY <1>1, <1>2, <1>3 DEF ThreadOK, CallOK, MineDataOK, InsertPC
<1>5. call[t].key \in Key
  BY <1>4, CallType
<1>6. Behind(p, call[t].key, R)
  BY <1>1, <1>2, <1>4 DEF ThreadOK, SearchOK, PrevPC
<1>7. q = next[n].ptr
  BY <1>2 DEF At
<1>8. q # Null => Beyond(q, call[t].key)
  <2>1. CASE call[t].how = "emplace"
    BY <1>1, <1>2, <1>4, <1>7, <2>1 DEF ThreadOK, SuccessorOK
  <2>2. CASE call[t].how # "emplace"
    BY <1>2, <1>4, <1>7, <2>2 DEF SuccessorKept
  <2> QED
    BY <2>1, <2>2
<1>9. q # Null => q \in Listed
  BY <1>2, NextListed
<1> HIDE DEF IInv
<1> QED
  BY <1>2, <1>4, <1>5, <1>6, <1>8, <1>9 DEF LinkPlace, Source

LEMMA BehindJoined ==
  ASSUME DataOK, NEW R, NEW R1, NEW n, NEW p, Joins(R, R1, n, p), LinkPlace(R, n, p),
         Listed' = Listed \union {n}, data' = data,
         NEW l, l # n, NEW k \in Key, Behind(l, k, R)
  PROVE  Behind(l, k, R1)'
<1> DEFINE q == next[p].ptr
<1>1. ASSUME l \in Listed, <<n, l>> \in R1
      PROVE  ~GreaterOrEqual(data[n].key, k)
  <2>1. q # Null /\ (l = q \/ <<q, l>> \in R) /\ q \in Listed /\ Beyond(q, data[n].key)
    BY <1>1 DEF Joins, LinkPlace
  <2>2. ~GreaterOrEqual(data[q].key, k)
    BY <1>1, <2>1 DEF Behind
  <2>3. data[q].key \in Key /\ data[n].key \in Key /\ GreaterOrEqual(data[q].key, data[n].key)
    BY <2>1, ListedData DEF LinkPlace, Beyond
  <2> QED
    BY <2>2, <2>3, KeyOrder
<1>2. ASSUME l \in Listed, NEW x \in Listed, <<x, l>> \in R1
      PROVE  ~GreaterOrEqual(data[x].key, k)
  <2>1. <<x, l>> \in R
    BY <1>2 DEF Joins
  <2> QED
    BY <1>2, <2>1 DEF Behind
<1>3. \A x \in Listed' : l \in Listed /\ <<x, l>> \in R1 => ~GreaterOrEqual(data[x].key, k)
  BY <1>1, <1>2
<1>4. /\ l \in Bucket => l = BucketOf(k)
      /\ l \in Listed' => l \in Listed /\ BucketAt(l) = BucketOf(k) /\ ~GreaterOrEqual(data[l].key, k)
  BY DEF Behind
<1> QED
  BY <1>3, <1>4 DEF Behind, BucketAt, BucketOf, GreaterOrEqual

\* ... so that its key was not in the map.
LEMMA InsertCasGood ==
  ASSUME IInv, IInv', DataOK, DataOK', HistoryType, NEW R, Good(R), SuccessorKept,
         NEW t \in Thread, InsertCas(t)
  PROVE  (\E R1 : Good(R1)') /\ MStep
<1> DEFINE n == info[t].mine
           p == info[t].prev
           q == next[p].ptr
<1>1. Types /\ RTypeOK /\ InfoOK(t) /\ LocalOK(t) /\ ThreadOK(t, R) /\ Ordered(R) /\ ListOK
  BY DEF IInv, Types, Good
<1>2. /\ pc[t] = "insert" /\ pc'[t] = "inserted" /\ call' = call /\ slot' = slot
      /\ \A u \in Thread \ {t} : pc'[u] = pc[u] /\ info'[u] = info[u]
      /\ Kept(t, {"mine", "cur", "new"}) /\ info'[t].mine = Null
      /\ At(t) = next[n]
      /\ n \in Node /\ n \in FreshNodes /\ ~next[n].mark
      /\ p \in Source /\ p \in Place /\ p # n /\ n \notin Source
      /\ \A l \in Place : next'[l] = (IF l = p THEN Link(n) ELSE next[l])
      /\ Listed' = Listed \union {n} /\ \A g \in Safe : g \in Safe'
  BY InsertCasEffect
<1>3. data' = data /\ res' = res /\ M!Witness(t, map')
  BY DEF InsertCas, Effect
<1>4. /\ LinkPlace(R, n, p) /\ n \in Place /\ n # Null /\ n \notin Bucket /\ Source \subseteq Place
      /\ data[n].key = call[t].key
  BY <1>2, InsertPlace, BucketType, NullAssumption DEF Place, Source, Listed
<1>5. /\ call[t] \in MapCalls /\ call[t].op = "insert" /\ info[t].key = call[t].key
      /\ info[t].then = "call" /\ info[t].bucket = BucketOf(call[t].key)
      /\ "success" \notin could[t] /\ data[n].val = call[t].val
  BY <1>1, <1>2, <1>4 DEF ThreadOK, CallOK, CouldOK, Effected, InsertPC, MineDataOK
<1>6. PICK R1 : Joins(R, R1, n, p)
  BY <1>4, WithNodeJoins DEF LinkPlace
<1>7. next'[p].ptr = n /\ ~next'[p].mark /\ next'[n] = next[n] /\ next[n] = next[p]
      /\ \A l \in Source : l # p => next'[l] = next[l]
  BY <1>2, <1>4 DEF Link, At
<1>8. Ordered(R1)'
  <2>1. \A l \in Source : l # p => next'[l].ptr = next[l].ptr
    BY <1>7
  <2>2. next'[n].ptr = next[p].ptr
    BY <1>7
  <2>3. /\ Ordered(R) /\ ListOK /\ Joins(R, R1, n, p) /\ LinkPlace(R, n, p)
        /\ Listed' = Listed \union {n} /\ data' = data /\ next'[p].ptr = n
        /\ n # Null /\ n \notin Bucket
    BY <1>1, <1>2, <1>3, <1>4, <1>6, <1>7
  <2> HIDE DEF n, p, q, IInv
  <2> QED
    BY <2>1, <2>2, <2>3, JoinedOrdered
<1>9. Elements' = Elements \union {n}
  BY <1>2, <1>4, <1>7 DEF Elements, Source
<1>10. \A x \in Listed : data[x].key # data[n].key
  BY <1>1, <1>4, NotThere DEF LinkPlace
<1>11. map' = [map EXCEPT ![call[t].key] = call[t].val]
  <2> HIDE DEF n, map, IInv
  <2> QED
    BY <1>3, <1>4, <1>5, <1>9, <1>10, MapMore DEF Elements
<1>12. map[call[t].key] = Absent
  BY <1>1, <1>4, <1>5, <1>10, CallType, MapValue DEF Elements
<1>13. M!Apply(t)
  <2>1. call[t] # NoCall
    BY <1>5, HMAnswerAssumption
  <2> HIDE DEF map
  <2> QED
    BY <1>2, <1>3, <1>5, <1>11, <1>12, <2>1 DEF M!Apply, M!Applies, M!After
<1>14. OthersStill(t)
  <2>1. ASSUME NEW u \in Thread \ {t}, info[u].mine # Null
        PROVE  next'[info[u].mine] = next[info[u].mine]
    <3>1. info[u].mine \in FreshNodes /\ info[u].mine \in Place /\ info[u].mine \notin Source
      BY <2>1, BucketType DEF IInv, Types, InfoOK, FreshNodes, Place, Source, Listed
    <3> QED
      BY <1>2, <3>1
  <2> QED
    BY <1>2, <1>3, <2>1 DEF OthersStill
<1>15. ASSUME NEW l, l # n, NEW k \in Key, Behind(l, k, R)
       PROVE  Behind(l, k, R1)'
  <2>1. Listed' = Listed \union {n} /\ data' = data
    BY <1>2, <1>3
  <2> HIDE DEF n, p, q, IInv
  <2> QED
    BY <1>4, <1>6, <1>15, <2>1, BehindJoined
<1>16. ASSUME NEW u \in Thread \ {t}
       PROVE  /\ SearchOK(u, R1)'
              /\ pc[u] \in CurPC /\ next'[Cur(u)].mark =>
                    next[Cur(u)].mark \/ map'[data[Cur(u)].key] = Absent
  <2>1. LocalOK(u) /\ ThreadOK(u, R) /\ InfoOK(u) /\ pc'[u] = pc[u] /\ info'[u] = info[u]
    BY <1>2 DEF IInv, Types, Good
  <2>2. \A g \in Safe : slot[g[1]][g[2]] # n
    BY <1>2 DEF Safe
  <2>3. /\ pc[u] \in (PrevPC \union {"first"}) \/ (pc[u] = "new" /\ info[u].then = "call") => info[u].prev # n
        /\ pc[u] \in FindPC \union {"first"} => info[u].start # n
    BY <1>4, <2>1, <2>2 DEF LocalOK, PrevOK, StartOK, FirstOK, NewOK
  <2>4. pc[u] \notin {"idle", "done", "gone"} /\ info[u].then = "call" => info[u].key \in Key
    BY <2>1, CallType DEF ThreadOK, CallOK
  <2>5. SearchOK(u, R1)'
    BY <1>15, <2>1, <2>3, <2>4 DEF ThreadOK, SearchOK
  <2>6. pc[u] \in CurPC => Cur(u) \in Place
    BY CurNode DEF Place
  <2>7. pc[u] \in CurPC /\ next'[Cur(u)].mark => next[Cur(u)].mark
    BY <1>2, <1>7, <2>6
  <2> QED
    BY <2>5, <2>7
<1>17. ThreadOK(t, R1)'
  <2>1. could'[t] = {"success"}
    BY <1>3 DEF M!Witness
  <2>2. MineDataOK(t)'
    BY <1>2 DEF MineDataOK
  <2>3. CallOK(t)'
    BY <1>1, <1>2, <1>3, <1>5 DEF ThreadOK, CallOK, InsertPC, RemovePC, Kept, Fields, BucketOf
  <2>4. SearchOK(t, R1)' /\ SuccessorOK(t)' /\ FoundOK(t)'
    BY <1>2 DEF SearchOK, SuccessorOK, FoundOK, PrevPC, FindPC
  <2>5. CouldOK(t)'
    BY <1>2, <1>5, <2>1 DEF CouldOK, Effected, Kept, Fields
  <2> QED
    BY <2>2, <2>3, <2>4, <2>5 DEF ThreadOK
<1> HIDE DEF IInv, n, p, q, map
<1>18. Good(R1)'
  BY <1>2, <1>3, <1>8, <1>14, <1>16, <1>17, EffectOK
<1> QED
  BY <1>13, <1>18 DEF MStep, M!MNext

-----------------------------------------------------------------------------
(* Every step of the map is one of the abstract map, or none               *)

LEMMA HistoryNext == HistoryType /\ [Next]_vars => HistoryType'
<1> SUFFICES ASSUME HistoryType, [Next]_vars PROVE HistoryType'
  OBVIOUS
<1>1. ASSUME NEW t \in Thread, FindStep(t) PROVE HistoryType'
  BY <1>1 DEF HistoryType, FindStep, Enter, Retry, First, FirstMarked, AcquireNull, Acquire,
     Validate, Load,
              Splice, SpliceFails, RetireCur, Check, Compare, Outcome, Continue, Answer, Quiet, Pure, history
<1>2. ASSUME NEW t \in Thread, CallStep(t) PROVE HistoryType'
  BY <1>2 DEF HistoryType, CallStep, NewNode, LinkNode, InsertCas, InsertCasFails, Inserted, Use,
     Mark,
              MarkFails, Unlink, UnlinkFails, ReclaimErased, ItLoad, ItMark, ItGuard, Return, Effect,
              M!Witness, Continue, Answer, Quiet, Pure, history
<1>3. ASSUME NEW t \in Thread, ScanStep(t) PROVE HistoryType'
  BY <1>3 DEF HistoryType, ScanStep, ScanBegin, Head, HeadCheck, NextBucket, Visit, Step,
     StepCheckFails,
              StepCheck, ScanEnd, Continue, Quiet, Pure, history
<1>4. ASSUME NEW t \in Thread, NEW c \in MapCalls, Call(t, c) PROVE HistoryType'
  BY <1>4 DEF HistoryType, Call
<1>5. CASE Destroy \/ UNCHANGED vars
  BY <1>5 DEF HistoryType, Destroy, vars, history
<1>6. ASSUME NEW n \in Node, Delete(n) PROVE HistoryType'
  BY <1>6 DEF HistoryType, Delete, history
<1> QED
  BY <1>1, <1>2, <1>3, <1>4, <1>5, <1>6 DEF Next

LEMMA StutterGood ==
  ASSUME IInv, IInv', DataOK, NEW R, Good(R), UNCHANGED vars
  PROVE  Good(R)' /\ MStep
<1>1. UNCHANGED <<status, slot, pinned, next, data, pc, info, call, could, res>>
  BY DEF vars, rvars, history
<1>2. Listed' = Listed /\ Safe' = Safe
  BY <1>1 DEF Listed, Safe, FreshNodes, HeldNodes
<1> DEFINE t == {x \in Thread : x \notin x}
<1>3. t \notin Thread
  OBVIOUS
<1> HIDE DEF t
<1>4. Elements' = Elements /\ DataKept
  BY <1>1, <1>2 DEF Elements, DataKept
<1>5. OthersStill(t) /\ SameAnswers(t)
  BY <1>1, <1>2 DEF OthersStill, SameAnswers, Cur
<1>6. Still(t)
  BY <1>1, <1>2, <1>4, <1>5 DEF Still
<1> QED
  BY <1>1, <1>3, <1>6, StillOK DEF MStep, Hidden

\* Once the map is destroyed nothing happens to it.
LEMMA GoneStep ==
  ASSUME IInv, ~Alive, [Next]_vars
  PROVE  ~Alive' /\ (MStep \/ Destroy)
<1>1. \A t \in Thread : pc[t] = "gone"
  BY DEF Alive
<1>2. \A t \in Thread : ~FindStep(t)
  BY <1>1 DEF FindStep, Enter, Retry, First, FirstMarked, AcquireNull, Acquire, Validate, Load,
              Splice, SpliceFails, RetireCur, Check, Goto
<1>3. \A t \in Thread : ~CallStep(t)
  BY <1>1 DEF CallStep, NewNode, LinkNode, InsertCas, InsertCasFails, Inserted, Use, Mark,
              MarkFails, Unlink, UnlinkFails, ReclaimErased, ItLoad, ItMark, ItGuard, Return, Goto
<1>4. \A t \in Thread : ~ScanStep(t)
  BY <1>1 DEF ScanStep, ScanBegin, Head, HeadCheck, NextBucket, Visit, Step, StepCheckFails,
              StepCheck, ScanEnd, Goto
<1>5. \A t \in Thread, c \in MapCalls : ~Call(t, c)
  BY <1>1 DEF Call, Goto
<1>6. ASSUME NEW n \in Node, Delete(n) PROVE MStep /\ pc' = pc
  <2>1. UNCHANGED <<slot, pinned, next, data, pc, info, call, could, res>>
    BY <1>6 DEF Delete, history
  <2>2. status' = [status EXCEPT ![n] = "free"] /\ status[n] = "retired"
    BY <1>6 DEF Delete, Reclaim
  <2>3. ASSUME NEW k PROVE Present(k)' = Present(k)
    BY <2>1, <2>2 DEF Present, Fresh, IInv, Types, RTypeOK
  <2>4. ASSUME NEW k
        PROVE  (IF Present(k)' = {} THEN Absent ELSE data'[CHOOSE m \in Present(k)' : TRUE].val)
                  = (IF Present(k) = {} THEN Absent ELSE data[CHOOSE m \in Present(k) : TRUE].val)
    <3> DEFINE P == Present(k)
    <3>1. P' = P
      BY <2>3
    <3> HIDE DEF P
    <3>2. (IF P' = {} THEN Absent ELSE data'[CHOOSE m \in P' : TRUE].val)
             = (IF P = {} THEN Absent ELSE data[CHOOSE m \in P : TRUE].val)
      BY <2>1, <3>1
    <3> QED
      BY <3>2 DEF P
  <2>5. map' = map
    BY <2>4 DEF map
  <2> QED
    BY <2>1, <2>5 DEF MStep, Hidden
<1>7. CASE UNCHANGED vars
  BY <1>7 DEF MStep, Hidden, vars, rvars, history, map, Present, Fresh, Alive
<1>8. CASE Destroy
  BY <1>8 DEF Destroy, Alive
<1> QED
  BY <1>1, <1>2, <1>3, <1>4, <1>5, <1>6, <1>7, <1>8 DEF Next, Alive

LEMMA StepGood ==
  ASSUME RInv, SuccessorKept, [Next]_vars
  PROVE  RInv' /\ (MStep \/ Destroy)
<1>1. IInv /\ IInv' /\ DataOK /\ DataOK' /\ HistoryType /\ HistoryType'
  BY NextInv, DataNext, HistoryNext DEF RInv
<1>2. CASE ~Alive
  BY <1>1, <1>2, GoneStep DEF RInv
<1>3. CASE Alive
  <2>1. PICK R : Good(R)
    BY <1>3 DEF RInv
  <2>2. ASSUME NEW t \in Thread, FindStep(t) PROVE Good(R)' /\ MStep
    BY <1>1, <2>1, <2>2, EnterGood, RetryGood, FirstGood, FirstMarkedGood, AcquireNullGood,
       AcquireGood,
       ValidateGood, LoadGood, CutGood, SpliceFailsGood, RetireGood, CheckGood DEF FindStep
  <2>3. ASSUME NEW t \in Thread, CallStep(t) PROVE (\E R1 : Good(R1)') /\ MStep
    <3>1. CASE InsertCas(t)
      BY <1>1, <2>1, <3>1, InsertCasGood
    <3>2. CASE ~InsertCas(t)
      BY <1>1, <2>1, <2>3, <3>2, NewNodeGood, LinkNodeGood, InsertCasFailsGood, InsertedGood,
         UseGood,
         MarkedGood, MarkFailsGood, CutGood, UnlinkFailsGood, RetireGood, ItLoadGood, ItGuardGood,
         ReturnGood DEF CallStep
    <3> QED
      BY <3>1, <3>2
  <2>4. ASSUME NEW t \in Thread, ScanStep(t) PROVE Good(R)' /\ MStep
    BY <1>1, <2>1, <2>4, ScanGood
  <2>5. ASSUME NEW t \in Thread, NEW c \in MapCalls, Call(t, c) PROVE Good(R)' /\ MStep
    BY <1>1, <2>1, <2>5, CallGood
  <2>6. ASSUME NEW n \in Node, Delete(n) PROVE Good(R)' /\ MStep
    BY <1>1, <2>1, <2>6, DeleteGood
  <2>7. ASSUME UNCHANGED vars PROVE Good(R)' /\ MStep
    BY <1>1, <2>1, <2>7, StutterGood
  <2>8. CASE Destroy
    BY <1>1, <2>8 DEF Destroy, Alive, RInv
  <2> HIDE DEF IInv, DataOK
  <2>9. (\E R1 : Good(R1)') /\ MStep => RInv' /\ (MStep \/ Destroy)
    BY <1>1 DEF RInv
  <2> QED
    BY <2>2, <2>3, <2>4, <2>5, <2>6, <2>7, <2>8, <2>9 DEF Next
<1> QED
  BY <1>2, <1>3

LEMMA InitGood == Init => RInv /\ M!MInit
<1> SUFFICES ASSUME Init PROVE RInv /\ M!MInit
  OBVIOUS
<1>1. IInv /\ DataOK
  BY InitInv DEF Init, RInit, DataOK
<1>2. Listed = {}
  BY DEF Init, RInit, Listed
<1>3. Ordered({})
  <2>1. \A b \in Bucket : next[b].ptr = Null
    BY DEF Init, Link
  <2> QED
    BY <1>2, <2>1 DEF Ordered
<1>4. ASSUME NEW t \in Thread PROVE ThreadOK(t, {})
  <2>1. pc[t] = "idle" /\ info[t].then = "call" /\ info[t].mine = Null /\ call[t] = NoCall /\ res[t] = NoCall
    BY DEF Init, NoInfo
  <2> QED
    BY <2>1 DEF ThreadOK, SearchOK, SuccessorOK, MineDataOK, CallOK, CouldOK, FoundOK, InsertPC,
       RemovePC
<1>5. \E R : Good(R)
  BY <1>3, <1>4 DEF Good
<1>6. M!MInit
  <2>1. MapTyped /\ map = [k \in Key |-> map[k]]
    BY <1>1, MapTyping DEF map
  <2>2. map \in [Key -> Value \union {Absent}]
    <3> HIDE DEF map
    <3> QED
      BY <2>1 DEF MapTyped
  <2> HIDE DEF map
  <2> QED
    BY <2>2 DEF M!MInit, Init
<1> QED
  BY <1>1, <1>5, <1>6 DEF RInv, HistoryType, Init

-----------------------------------------------------------------------------
(* Theorems                                                                *)

\* The steps of Linearizable
AbstractStep == [M!MNext \/ Destroy]_(M!mvars)

LEMMA StepAbstract == RInv /\ SuccessorKept /\ [Next]_vars => RInv' /\ AbstractStep
<1> SUFFICES ASSUME RInv, SuccessorKept, [Next]_vars PROVE RInv' /\ AbstractStep
  OBVIOUS
<1>1. RInv' /\ (MStep \/ Destroy)
  BY StepGood
<1> HIDE DEF map
<1> QED
  BY <1>1 DEF AbstractStep, MStep, Hidden, M!mvars

\* Every insert, find, contains and erase of the map takes effect, or reads, at one
\* moment of its call, whatever workload the threads run, as long as no lazy insert
\* finds the address of its successor in use by another node out of order
\* (harris_michael_hash_map.hpp, find, do_get_or_emplace_lazy, emplace_or_get, erase).
THEOREM SuccessorLinearizable == Spec /\ []SuccessorKept => Linearizable
<1>1. RInv /\ SuccessorKept /\ [Next]_vars => RInv' /\ [M!MNext \/ Destroy]_(M!mvars)
  BY StepAbstract DEF AbstractStep
<1> QED
  BY <1>1, InitGood, PTL DEF Spec, Linearizable

\* Under the same condition no key has two elements until the destructor runs:
\* concurrent inserts of one key agree on one node, which is what
\* lines 128 and 167 of harris_michael_hash_map.hpp promise.
THEOREM UniqueKeys == Spec /\ []SuccessorKept => [](Alive => OneElementPerKey)
<1>1. RInv /\ SuccessorKept /\ [Next]_vars => RInv'
  BY StepAbstract
<1>2. RInv => (Alive => OneElementPerKey)
  <2> SUFFICES ASSUME RInv, Alive, NEW k \in Key PROVE Cardinality(Present(k)) <= 1
    BY DEF OneElementPerKey
  <2>1. PICK R : Good(R)
    BY DEF RInv
  <2>2. \A m, n \in Present(k) : m = n
    BY <2>1, PresentElements, OneElement DEF PresentIsElements, RInv, Good
  <2>3. Present(k) = {} \/ \E n : Present(k) = {n}
    BY <2>2
  <2>4. Cardinality({}) = 0 /\ \A n : Cardinality({n}) = 1
    BY FS_EmptySet, FS_Singleton
  <2>5. CASE Present(k) = {}
    BY <2>4, <2>5
  <2>6. ASSUME NEW n, Present(k) = {n}
        PROVE  Cardinality(Present(k)) <= 1
    <3>1. Cardinality(Present(k)) = 1
      BY <2>4, <2>6, Zenon
    <3> QED
      BY <3>1
  <2> QED
    BY <2>3, <2>5, <2>6
<1> QED
  BY <1>1, <1>2, InitGood, PTL DEF Spec

\* The workload has no get_or_emplace_lazy and no operator[].
Eager == \A c \in MapCalls : c.op = "insert" => c.how = "emplace"

\* Without lazy inserts the condition is met: emplace_or_get guards the successor of
\* its node until the CAS, so the map is linearizable, with erasures by key and by
\* iterator, loops and the reuse of addresses.
THEOREM EagerLinearizable == ASSUME Eager PROVE Spec => Linearizable
<1>1. RInv => SuccessorKept
  <2> SUFFICES ASSUME RInv, NEW t \in Thread, pc[t] = "insert" PROVE call[t].how = "emplace"
    BY DEF SuccessorKept
  <2>1. PICK R : Good(R)
    BY DEF RInv, Alive
  <2>2. CallOK(t)
    BY <2>1 DEF Good, ThreadOK
  <2>3. call[t] \in MapCalls /\ call[t].op = "insert"
    BY <2>2 DEF CallOK, InsertPC
  <2> QED
    BY <2>3 DEF Eager
<1>2. RInv /\ [Next]_vars => RInv' /\ [M!MNext \/ Destroy]_(M!mvars)
  BY <1>1, StepAbstract DEF AbstractStep
<1> QED
  BY <1>2, InitGood, PTL DEF Spec, Linearizable
=============================================================================
