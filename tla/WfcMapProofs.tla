----------------------------- MODULE WfcMapProofs -----------------------------
(***************************************************************************)
(* Proofs about WfcMap, for any number of threads, nodes, keys and levels  *)
(* and for all workloads: nodes are owned, found and deleted as they       *)
(* should, and nothing that a thread reads has been deleted.  The second   *)
(* part proves that WfcMap implements ConcurrentMap where an update meets  *)
(* no call of another thread but inserts.                                  *)
(***************************************************************************)
EXTENDS WfcMap, FiniteSetTheorems, WellFoundedInduction, TLAPS

-----------------------------------------------------------------------------
(* The invariant                                                           *)

Width(p) == IF p = << >> THEN 2 ^ ArrayLength ELSE ArrayLength

\* The arrays are on the paths of keys.
TreeType == /\ << >> \in DOMAIN tree
            /\ \A p \in DOMAIN tree : /\ \E k \in Key, l \in 0..(Levels - 1) : p = PathTo(k, l)
                                      /\ tree[p] \in [0..(Width(p) - 1) -> Content]

LocalType(t) ==
    /\ pc[t] \in PC
    /\ watched[t] \in Content /\ node[t] \in Content
    /\ mine[t] \in Node \union {Null}
    /\ seen[t] \subseteq Thread
    /\ call[t] \in AllCalls \union {NoCall}
    /\ call[t] # NoCall => call[t] \in Roles[role][t]
    /\ pc[t] = "idle" <=> call[t] = NoCall
    /\ loc[t] \in DOMAIN tree
    /\ lvl[t] \in 0..Levels /\ (lvl[t] = 0 => loc[t] = << >>)
    /\ pc[t] # "clear" => lvl[t] < Levels
    /\ pc[t] = "idle" => lvl[t] = 0

HeapType == heap \in [Node -> [key : Key, val : Value] \union {Free}]

Domains == /\ DOMAIN watched = Thread /\ DOMAIN pc = Thread /\ DOMAIN loc = Thread
           /\ DOMAIN lvl = Thread /\ DOMAIN node = Thread /\ DOMAIN mine = Thread
           /\ DOMAIN seen = Thread /\ DOMAIN call = Thread /\ size \in Nat

WType == TreeType /\ HeapType /\ Domains /\ \A t \in Thread : LocalType(t)

\* There is an array behind exactly the places that refer to one.
PathsOK ==
    /\ \A p \in DOMAIN tree : \A i \in DOMAIN tree[p] :
          tree[p][i] = Array => Append(p, i) \in DOMAIN tree
    /\ \A k \in Key, l \in 0..(Levels - 1), m \in 0..(Levels - 1) :
          PathTo(k, l) \in DOMAIN tree /\ m < l =>
             PathTo(k, m) \in DOMAIN tree /\ tree[PathTo(k, m)][Pos(k, m)] = Array

\* A node in the tree is where its hash leads.
PlacesOK == \A p \in DOMAIN tree : \A i \in DOMAIN tree[p] : tree[p][i] \in Node =>
    /\ heap[tree[p][i]] # Free
    /\ p = PathTo(heap[tree[p][i]].key, Len(p))
    /\ i = Pos(heap[tree[p][i]].key, Len(p))

InTree(n) == \E p \in DOMAIN tree : \E i \in DOMAIN tree[p] : tree[p][i] = n

\* The thread that has made node n, or will delete it
Owns(t, n) == n \in Node /\ (mine[t] = n \/ (pc[t] = "s_read" /\ node[t] = n))

\* An allocated node is in the tree or has one owner.
OwnersOK ==
    /\ \A n \in Node : heap[n] # Free <=> InTree(n) \/ \E t \in Thread : Owns(t, n)
    /\ \A t \in Thread, n \in Node : Owns(t, n) => ~InTree(n)
    /\ \A t, u \in Thread, n \in Node : Owns(t, n) /\ Owns(u, n) => t = u

MineOK(t) ==
    /\ mine[t] # Null => pc[t] \in {"i_cas", "m_cas"} /\ heap[mine[t]].key = call[t].key
    /\ pc[t] = "i_cas" => mine[t] # Null
    /\ pc[t] = "m_cas" /\ call[t].op = "update" => mine[t] # Null

Inserting == {"insert", "i_cas", "i_count", "i_reload", "i_watch", "i_check", "i_hash",
              "x_load", "x_watch", "x_check", "x_cas", "x_last"}
Expanding == {"x_load", "x_watch", "x_check", "x_cas"}
Ensuring == {"e_load", "e_watch", "e_check"}
Reading == {"get", "g_watch", "g_check", "g_read"}
Modifying == {"modify", "m_watch", "m_check", "m_read", "m_cas", "m_reload", "s_read"}
Checking == {"i_check", "x_check", "g_check", "e_check", "m_check"}
WithNode == {"g_watch", "g_check", "g_read", "m_watch", "m_check", "m_read", "m_cas", "s_read",
             "x_cas"}

\* What a thread at a place in the code has come to.  A get that goes on to its next
\* round in the same array is not where its level says, the other calls are.
PlaceOK(t) ==
    /\ pc[t] \in Inserting => call[t].op = "insert"
    /\ pc[t] \in Modifying => call[t].op \in {"update", "remove"}
    /\ pc[t] \in Reading => call[t].op = "get"
    /\ pc[t] \in Ensuring => call[t].op # "insert"
    /\ call[t] # NoCall /\ call[t].op # "get" => loc[t] = PathTo(call[t].key, lvl[t])
    /\ pc[t] \in {"i_watch", "i_check", "i_hash", "x_check"} => node[t] # Array
    /\ pc[t] \in WithNode => node[t] \in Node
    /\ pc[t] = "x_watch" /\ node[t] = Array => At(t) = Array
    /\ pc[t] \in Checking => watched[t] = node[t]
    /\ pc[t] \in Expanding => lvl[t] + 1 < Levels

\* The places at which a thread uses the node that it watches
Using == {"i_hash", "x_cas", "g_read", "m_read", "m_cas"}
Uses(t, n) == n \in Node /\ pc[t] \in Using /\ node[t] = n

\* It is not new, it has not been deleted, and whoever is about to delete it has not seen yet that
\* t does not watch it.
WatchOK(t) == \A n \in Node : Uses(t, n) =>
    /\ watched[t] = n /\ heap[n] # Free
    /\ \A u \in Thread : mine[u] # n
    /\ \A u \in Thread : pc[u] = "s_read" /\ node[u] = n => t \notin seen[u]
    /\ pc[t] = "i_hash" => \A l \in 0..lvl[t] : Pos(heap[n].key, l) = Pos(call[t].key, l)

\* Workloads in which nothing is removed, and in which only one thread inserts
NeverRemoved(i) == \A t \in Thread : \A c \in Roles[i][t] : c.op # "remove"
OneInserts(i) == \A t, u \in Thread : \A c \in Roles[i][t], d \in Roles[i][u] :
                    c.op = "insert" /\ d.op = "insert" => t = u

\* What an insert has lost its CAS to stays there unless it is removed; and it does
\* not lose to itself.
ReloadOK(t) ==
    /\ pc[t] = "i_reload" /\ NeverRemoved(role) => At(t) # Null
    /\ pc[t] = "i_cas" /\ OneInserts(role) => At(t) = Null
    /\ OneInserts(role) => pc[t] # "i_reload"
    /\ pc[t] \in {"i_watch", "i_check", "i_hash"} /\ (NeverRemoved(role) \/ OneInserts(role)) =>
          node[t] # Null

ThreadOK(t) == MineOK(t) /\ PlaceOK(t) /\ WatchOK(t) /\ ReloadOK(t)

WInv == WType /\ PathsOK /\ PlacesOK /\ OwnersOK /\ \A t \in Thread : ThreadOK(t)

-----------------------------------------------------------------------------
(* Positions and paths                                                     *)

LEMMA LevelsType == Levels \in Nat /\ Levels > 0
<1> DEFINE R == {r \in 0..HashBits : r < HashBits - ArrayPow /\ r % ArrayPow = 0}
<1>1. HashBits \in Nat /\ ArrayPow \in Nat \ {0} /\ ArrayPow < HashBits
  BY KeyAssumption, LengthAssumption
<1>2. IsFiniteSet(R)
  <2>1. IsFiniteSet(0..HashBits)
    BY <1>1, FS_Interval
  <2> QED
    BY <2>1, FS_Subset
<1>3. 0 \in R
  BY <1>1
<1>4. Cardinality(R) \in Nat /\ Cardinality(R) # 0
  <2> HIDE DEF R
  <2> QED
    BY <1>2, <1>3, FS_CardinalityType, FS_EmptySet
<1> QED
  BY <1>4 DEF Levels

LEMMA Lengths == /\ ArrayLength \in Nat \ {0} /\ 2 ^ ArrayLength \in Nat \ {0}
                 /\ ArrayLength <= 2 ^ ArrayLength /\ ArrayPow \in Nat \ {0}
<1>1. 2 ^ (ArrayLength + ArrayPow * 0) \in Nat \ {0}
  BY LevelsType, PowerAssumption
<1>2. ArrayLength \in Nat /\ ArrayPow \in Nat \ {0}
  BY PowerAssumption, LengthAssumption
<1>3. ArrayLength + ArrayPow * 0 = ArrayLength
  BY <1>2
<1>4. 2 ^ ArrayLength \in Nat \ {0}
  BY <1>1, <1>3
<1> QED
  BY <1>2, <1>4, PowerAssumption

LEMMA Division == \A k \in Nat, m \in Nat \ {0} : k \div m \in Nat /\ k % m \in Nat /\ k % m < m
OBVIOUS

LEMMA PosType ==
  ASSUME NEW k \in Key, NEW l \in 0..Levels
  PROVE  /\ Pos(k, l) \in Nat
         /\ Pos(k, l) < 2 ^ ArrayLength
         /\ l > 0 => Pos(k, l) < ArrayLength
<1>1. k \in Nat
  BY KeyAssumption
<1>2. CASE l = 0
  BY <1>1, <1>2, Lengths, Division DEF Pos
<1>3. CASE l > 0
  <2>1. l - 1 \in 0..Levels
    BY <1>3, LevelsType
  <2>2. 2 ^ (ArrayLength + ArrayPow * (l - 1)) \in Nat \ {0}
    BY <2>1, PowerAssumption
  <2> DEFINE d == k \div 2 ^ (ArrayLength + ArrayPow * (l - 1))
  <2>3. d \in Nat
    BY <1>1, <2>2, Division
  <2>4. Pos(k, l) = d % ArrayLength
    BY <1>3 DEF Pos
  <2> HIDE DEF d
  <2>5. Pos(k, l) \in Nat /\ Pos(k, l) < ArrayLength
    BY <2>3, <2>4, Lengths, Division
  <2> QED
    BY <2>5, Lengths
<1> QED
  BY <1>2, <1>3, LevelsType

LEMMA NewPosIsPos ==
  ASSUME NEW k \in Key, NEW l \in Nat
  PROVE  NewPos(k, l) = Pos(k, l + 1)
<1>1. l + 1 # 0 /\ (l + 1) - 1 = l
  OBVIOUS
<1> QED
  BY <1>1 DEF NewPos, Pos

LEMMA PathType ==
  ASSUME NEW k \in Key, NEW l \in 0..Levels
  PROVE  /\ PathTo(k, l) \in Seq(Nat) /\ Len(PathTo(k, l)) = l
         /\ \A i \in 1..l : PathTo(k, l)[i] = Pos(k, i - 1)
<1>1. PathTo(k, l) = [i \in 1..l |-> Pos(k, i - 1)] /\ l \in Nat
  BY LevelsType DEF PathTo
<1>2. \A i \in 1..l : Pos(k, i - 1) \in Nat
  <2> SUFFICES ASSUME NEW i \in 1..l PROVE Pos(k, i - 1) \in Nat
    OBVIOUS
  <2>1. i - 1 \in 0..Levels
    BY LevelsType
  <2> QED
    BY <2>1, PosType
<1> QED
  BY <1>1, <1>2

LEMMA NoPath == \A k : PathTo(k, 0) = << >>
BY DEF PathTo

LEMMA LongerPath ==
  ASSUME NEW k \in Key, NEW l \in 0..(Levels - 1)
  PROVE  PathTo(k, l + 1) = Append(PathTo(k, l), Pos(k, l))
<1>1. l \in 0..Levels /\ l + 1 \in 0..Levels
  BY LevelsType
<1>2. Pos(k, l) \in Nat
  BY <1>1, PosType
<1> DEFINE p == PathTo(k, l)
           q == PathTo(k, l + 1)
<1>3. p \in Seq(Nat) /\ Len(p) = l /\ q \in Seq(Nat) /\ Len(q) = l + 1
  BY <1>1, PathType
<1>4. /\ \A i \in 1..l : p[i] = Pos(k, i - 1)
      /\ \A i \in 1..(l + 1) : q[i] = Pos(k, i - 1)
  BY <1>1, PathType
<1> HIDE DEF p, q
<1>5. \A i \in 1..(l + 1) : q[i] = Append(p, Pos(k, l))[i]
  BY <1>2, <1>3, <1>4
<1>6. Append(p, Pos(k, l)) \in Seq(Nat) /\ Len(Append(p, Pos(k, l))) = l + 1
  BY <1>2, <1>3
<1>7. q = Append(p, Pos(k, l))
  BY <1>3, <1>5, <1>6
<1> QED
  BY <1>7 DEF p, q

\* A path tells its length and the positions on it.
LEMMA SamePath ==
  ASSUME NEW j \in Key, NEW k \in Key, NEW l \in 0..Levels, NEW m \in 0..Levels,
         PathTo(j, l) = PathTo(k, m)
  PROVE  /\ l = m
         /\ \A i \in 0..(l - 1) : Pos(j, i) = Pos(k, i)
         /\ \A i \in 0..l : PathTo(j, i) = PathTo(k, i)
<1>1. l = m
  BY PathType
<1>2. \A i \in 0..(l - 1) : Pos(j, i) = Pos(k, i)
  <2> SUFFICES ASSUME NEW i \in 0..(l - 1) PROVE Pos(j, i) = Pos(k, i)
    OBVIOUS
  <2>1. i + 1 \in 1..l /\ (i + 1) - 1 = i
    BY LevelsType
  <2> QED
    BY <1>1, <2>1, PathType
<1>3. \A i \in 0..l : PathTo(j, i) = PathTo(k, i)
  <2> SUFFICES ASSUME NEW i \in 0..l PROVE PathTo(j, i) = PathTo(k, i)
    OBVIOUS
  <2>1. \A n \in 1..i : Pos(j, n - 1) = Pos(k, n - 1)
    BY <1>2, LevelsType
  <2> QED
    BY <2>1 DEF PathTo
<1> QED
  BY <1>1, <1>2, <1>3

\* Keys that share their path and the position at its end part further down.
LEMMA KeysPart ==
  ASSUME NEW j \in Key, NEW k \in Key, NEW l \in 0..(Levels - 1), j # k,
         \A i \in 0..l : Pos(j, i) = Pos(k, i)
  PROVE  l + 1 < Levels
<1> SUFFICES ASSUME ~(l + 1 < Levels) PROVE FALSE
  OBVIOUS
<1>1. 0..(Levels - 1) \subseteq 0..l
  BY LevelsType
<1> QED
  BY <1>1, PartAssumption

\* Where the next step of a thread leads
LEMMA PosInTree ==
  ASSUME WType, NEW t \in Thread, call[t] # NoCall, NEW p \in DOMAIN tree,
         lvl[t] = 0 => p = << >>
  PROVE  pos(t) \in DOMAIN tree[p] /\ pos(t) \in Nat
<1>1. call[t].key \in Key /\ lvl[t] \in 0..Levels
  BY CallAssumption DEF WType, LocalType
<1>2. pos(t) \in Nat /\ pos(t) < 2 ^ ArrayLength /\ (lvl[t] > 0 => pos(t) < ArrayLength)
  BY <1>1, PosType DEF pos
<1>3. DOMAIN tree[p] = 0..(Width(p) - 1)
  BY DEF WType, TreeType
<1>4. pos(t) < Width(p)
  BY <1>1, <1>2, LevelsType, Lengths DEF Width
<1>5. Width(p) \in Nat
  BY Lengths DEF Width
<1> QED
  BY <1>2, <1>3, <1>4, <1>5

-----------------------------------------------------------------------------
(* What a step of thread t leaves to the other threads                     *)

Unmoved(u) == /\ pc'[u] = pc[u] /\ watched'[u] = watched[u] /\ loc'[u] = loc[u]
              /\ lvl'[u] = lvl[u] /\ node'[u] = node[u] /\ mine'[u] = mine[u]
              /\ seen'[u] = seen[u] /\ call'[u] = call[u]

Others(t) == Domains' /\ role' = role /\ \A u \in Thread : u # t => Unmoved(u)

\* No array disappears; without removals no place is emptied, and only by inserts one
\* is filled.
TreeGrows(t) ==
    /\ DOMAIN tree \subseteq DOMAIN tree'
    /\ \A p \in DOMAIN tree : DOMAIN tree'[p] = DOMAIN tree[p]
    /\ \A p \in DOMAIN tree : \A i \in DOMAIN tree[p] :
          /\ tree[p][i] = Array => tree'[p][i] = Array
          /\ NeverRemoved(role) /\ tree[p][i] # Null => tree'[p][i] # Null
          /\ tree[p][i] = Null /\ tree'[p][i] # Null =>
                call[t].op = "insert" /\ call[t] \in Roles[role][t]

\* What the others use or own is not touched, and they are not overlooked.
HeapKept(t) == \A u \in Thread, n \in Node : u # t =>
    /\ Uses(u, n) \/ mine[u] = n => heap'[n] = heap[n]
    /\ Uses(u, n) => mine'[t] # n
    /\ Uses(u, n) /\ pc'[t] = "s_read" /\ node'[t] = n => u \notin seen'[t]

Around(t) == Others(t) /\ TreeGrows(t) /\ HeapKept(t)

LEMMA OtherOK ==
  ASSUME WInv, NEW t \in Thread, Around(t), NEW u \in Thread, u # t
  PROVE  LocalType(u)' /\ ThreadOK(u)'
<1>1. Unmoved(u) /\ LocalType(u) /\ ThreadOK(u) /\ WType
  BY DEF Around, Others, WInv, WType
<1>2. LocalType(u)'
  <2>1. DOMAIN tree \subseteq DOMAIN tree'
    BY DEF Around, TreeGrows
  <2> QED
    BY <1>1, <2>1 DEF LocalType, Unmoved, Around, Others
<1>3. pos(u)' = pos(u) /\ (\A n : Uses(u, n)' <=> Uses(u, n))
  BY <1>1 DEF pos, Uses, Unmoved
<1>4. call[u] # NoCall =>
         /\ (At(u) = Array => At(u)' = Array)
         /\ (NeverRemoved(role) /\ At(u) # Null => At(u)' # Null)
         /\ (At(u) = Null /\ At(u)' # Null => call[t].op = "insert" /\ call[t] \in Roles[role][t])
  <2> SUFFICES ASSUME call[u] # NoCall
               PROVE  /\ (At(u) = Array => At(u)' = Array)
                      /\ (NeverRemoved(role) /\ At(u) # Null => At(u)' # Null)
                      /\ (At(u) = Null /\ At(u)' # Null =>
                            call[t].op = "insert" /\ call[t] \in Roles[role][t])
    OBVIOUS
  <2>1. loc[u] \in DOMAIN tree /\ pos(u) \in DOMAIN tree[loc[u]] /\ loc'[u] = loc[u]
    BY <1>1, PosInTree DEF LocalType, Unmoved
  <2> QED
    BY <1>3, <2>1 DEF At, Around, TreeGrows
<1>5. MineOK(u)'
  <2>1. mine[u] # Null => heap'[mine[u]] = heap[mine[u]]
    BY <1>1 DEF Around, HeapKept, LocalType
  <2> QED
    BY <1>1, <2>1 DEF ThreadOK, MineOK, Unmoved
<1>6. PlaceOK(u)'
  <2>1. pc[u] = "x_watch" => call[u] # NoCall
    BY <1>1 DEF LocalType
  <2> QED
    BY <1>1, <1>4, <2>1 DEF ThreadOK, PlaceOK, Unmoved, Inserting, Modifying, Reading, Ensuring,
       Expanding, Checking, WithNode
<1>7. WatchOK(u)'
  <2> SUFFICES ASSUME NEW n \in Node, Uses(u, n)
               PROVE  /\ watched'[u] = n /\ heap'[n] # Free
                      /\ \A w \in Thread : mine'[w] # n
                      /\ \A w \in Thread : pc'[w] = "s_read" /\ node'[w] = n => u \notin seen'[w]
                      /\ pc'[u] = "i_hash" =>
                            \A l \in 0..lvl'[u] : (Pos(heap[n].key, l))' = (Pos(call[u].key, l))'
    BY <1>3 DEF WatchOK
  <2>1. heap'[n] = heap[n]
    BY DEF Around, HeapKept
  <2>2. /\ watched[u] = n /\ heap[n] # Free
        /\ \A w \in Thread : mine[w] # n
        /\ \A w \in Thread : pc[w] = "s_read" /\ node[w] = n => u \notin seen[w]
        /\ pc[u] = "i_hash" => \A l \in 0..lvl[u] : Pos(heap[n].key, l) = Pos(call[u].key, l)
    BY <1>1 DEF ThreadOK, WatchOK
  <2>3. ASSUME NEW w \in Thread, pc'[w] = "s_read", node'[w] = n PROVE u \notin seen'[w]
    <3>1. CASE w = t
      BY <2>3, <3>1 DEF Around, HeapKept
    <3>2. CASE w # t
      BY <2>2, <2>3, <3>2 DEF Around, Others, Unmoved
    <3> QED
      BY <3>1, <3>2
  <2>4. pc'[u] = "i_hash" => \A l \in 0..lvl'[u] : (Pos(heap[n].key, l))' = (Pos(call[u].key, l))'
    BY <1>1, <2>1, <2>2 DEF Unmoved, Pos
  <2>5. \A w \in Thread : mine'[w] # n
    BY <2>2 DEF Around, HeapKept, Others, Unmoved
  <2> QED
    BY <1>1, <2>1, <2>2, <2>3, <2>4, <2>5 DEF Unmoved
<1>8. ReloadOK(u)'
  <2>1. /\ pc[u] \in {"i_reload", "i_cas"} => call[u] # NoCall
        /\ pc[u] = "i_cas" => call[u].op = "insert" /\ call[u] \in Roles[role][u]
    BY <1>1 DEF LocalType, ThreadOK, PlaceOK, Inserting
  <2>2. role' = role /\ (OneInserts(role) /\ pc[u] = "i_cas" =>
           ~(call[t].op = "insert" /\ call[t] \in Roles[role][t]))
    BY <2>1 DEF OneInserts, Around, Others
  <2> QED
    BY <1>1, <1>4, <2>1, <2>2 DEF ThreadOK, ReloadOK, Unmoved
<1> QED
  BY <1>2, <1>5, <1>6, <1>7, <1>8 DEF ThreadOK

\* A step that changes neither the tree nor a node
Calm(t) ==
    /\ tree' = tree /\ heap' = heap /\ mine'[t] = mine[t] /\ Others(t)
    /\ pc'[t] = "s_read" <=> pc[t] = "s_read"
    /\ pc[t] = "s_read" =>
          /\ node'[t] = node[t]
          /\ \A u \in Thread : u # t /\ Uses(u, node[t]) => u \notin seen'[t]

LEMMA CalmInv ==
  ASSUME WInv, NEW t \in Thread, Calm(t), LocalType(t)', ThreadOK(t)'
  PROVE  WInv' /\ Around(t)
<1>1. Around(t)
  <2>1. TreeGrows(t)
    BY DEF Calm, TreeGrows
  <2>2. HeapKept(t)
    BY DEF Calm, HeapKept, WInv, ThreadOK, WatchOK
  <2> QED
    BY <2>1, <2>2 DEF Calm, Around
<1>2. \A u \in Thread : LocalType(u)' /\ ThreadOK(u)'
  BY <1>1, OtherOK
<1>3. WType'
  <2>1. TreeType' /\ HeapType'
    BY DEF Calm, WInv, WType, TreeType, HeapType, PathTo, Pos, Width
  <2> QED
    BY <1>2, <2>1 DEF Calm, Others, WType
<1>4. PathsOK' /\ PlacesOK'
  <2>1. PathsOK'
    BY DEF Calm, WInv, PathsOK
  <2>2. PlacesOK'
    BY DEF Calm, WInv, PlacesOK
  <2> QED
    BY <2>1, <2>2
<1>5. OwnersOK'
  <2>1. \A n : InTree(n)' <=> InTree(n)
    BY DEF Calm, InTree
  <2>2. \A n : \A u \in Thread : Owns(u, n)' <=> Owns(u, n)
    BY DEF Calm, Others, Unmoved, Owns
  <2> QED
    BY <2>1, <2>2 DEF Calm, WInv, OwnersOK
<1> QED
  BY <1>1, <1>2, <1>3, <1>4, <1>5 DEF WInv


-----------------------------------------------------------------------------
(* The steps of a thread that change neither the tree nor a node           *)

\* What At(t) refers to may be used by a thread that watches it.
LEMMA Validated ==
  ASSUME WInv, NEW t \in Thread, call[t] # NoCall, At(t) \in Node
  PROVE  /\ heap[At(t)] # Free
         /\ \A u \in Thread : ~Owns(u, At(t))
         /\ pc[t] \in Inserting =>
               \A l \in 0..lvl[t] : Pos(heap[At(t)].key, l) = Pos(call[t].key, l)
<1> DEFINE p == loc[t]
           i == pos(t)
           n == tree[p][i]
<1>1. p \in DOMAIN tree /\ i \in DOMAIN tree[p] /\ n = At(t) /\ n \in Node
  BY PosInTree DEF WInv, WType, LocalType, At
<1>2. InTree(n)
  BY <1>1 DEF InTree
<1>3. heap[n] # Free /\ p = PathTo(heap[n].key, Len(p)) /\ i = Pos(heap[n].key, Len(p))
  BY <1>1 DEF WInv, PlacesOK
<1>4. \A u \in Thread : ~Owns(u, n)
  BY <1>1, <1>2 DEF WInv, OwnersOK
<1>5. ASSUME pc[t] \in Inserting
      PROVE  \A l \in 0..lvl[t] : Pos(heap[n].key, l) = Pos(call[t].key, l)
  <2>1. /\ p = PathTo(call[t].key, lvl[t]) /\ call[t].key \in Key
        /\ lvl[t] \in 0..Levels
    BY <1>5, CallAssumption DEF WInv, WType, LocalType, ThreadOK, PlaceOK, Inserting
  <2>2. Len(p) = lvl[t]
    BY <2>1, PathType
  <2>3. heap[n] \in [key : Key, val : Value]
    BY <1>1, <1>3 DEF WInv, WType, HeapType
  <2>4. PathTo(heap[n].key, lvl[t]) = PathTo(call[t].key, lvl[t])
    BY <1>3, <2>1, <2>2
  <2>5. \A l \in 0..(lvl[t] - 1) : Pos(heap[n].key, l) = Pos(call[t].key, l)
    BY <2>1, <2>3, <2>4, SamePath
  <2>6. Pos(heap[n].key, lvl[t]) = Pos(call[t].key, lvl[t])
    BY <1>3, <2>2 DEF pos
  <2> QED
    BY <2>1, <2>5, <2>6, LevelsType
<1> QED
  BY <1>1, <1>3, <1>4, <1>5

\* An array that a thread comes to is one level down.
LEMMA DeeperPlace ==
  ASSUME WInv, NEW t \in Thread, call[t] # NoCall, lvl[t] < Levels, At(t) = Array
  PROVE  /\ Append(loc[t], pos(t)) \in DOMAIN tree
         /\ loc[t] = PathTo(call[t].key, lvl[t]) =>
               Append(loc[t], pos(t)) = PathTo(call[t].key, lvl[t] + 1) /\ lvl[t] + 1 < Levels
<1>1. /\ loc[t] \in DOMAIN tree /\ pos(t) \in DOMAIN tree[loc[t]]
      /\ call[t].key \in Key /\ lvl[t] \in 0..(Levels - 1)
  BY PosInTree, CallAssumption, LevelsType DEF WInv, WType, LocalType
<1>2. Append(loc[t], pos(t)) \in DOMAIN tree
  BY <1>1 DEF WInv, PathsOK, At
<1>3. ASSUME loc[t] = PathTo(call[t].key, lvl[t])
      PROVE  Append(loc[t], pos(t)) = PathTo(call[t].key, lvl[t] + 1) /\ lvl[t] + 1 < Levels
  <2>1. Append(loc[t], pos(t)) = PathTo(call[t].key, lvl[t] + 1)
    BY <1>1, <1>3, LongerPath DEF pos
  <2>2. PICK k \in Key, l \in 0..(Levels - 1) : PathTo(call[t].key, lvl[t] + 1) = PathTo(k, l)
    BY <1>2, <2>1 DEF WInv, WType, TreeType
  <2>3. lvl[t] + 1 \in 0..Levels /\ l \in 0..Levels
    BY <1>1, LevelsType
  <2>4. lvl[t] + 1 = l
    BY <1>1, <2>2, <2>3, SamePath
  <2> QED
    BY <2>1, <2>4, LevelsType
<1> QED
  BY <1>2, <1>3

LEMMA AtType ==
  ASSUME WInv, NEW t \in Thread, call[t] # NoCall
  PROVE  At(t) \in Content
<1>1. loc[t] \in DOMAIN tree /\ pos(t) \in DOMAIN tree[loc[t]]
  BY PosInTree DEF WInv, WType, LocalType
<1> QED
  BY <1>1 DEF WInv, WType, TreeType, At

LEMMA InsertCountInv ==
  ASSUME WInv, NEW t \in Thread, InsertCount(t)
  PROVE  WInv' /\ Around(t)
<1>1. LocalType(t) /\ ThreadOK(t) /\ Domains /\ call[t] # NoCall
  BY DEF WInv, WType, LocalType, InsertCount, Goto
<1>2. At(t) \in Content
  BY <1>1, AtType
<1>3. Calm(t)
  BY <1>1 DEF Calm, Others, Unmoved, Domains, InsertCount, Goto, Keep, history, locals, Answer
<1>4. LocalType(t)'
  BY <1>1, <1>2, LevelsType
       DEF LocalType, Domains, PC, Content, InsertCount, Goto, Keep, history, locals, Answer
<1>5. MineOK(t)'
  BY <1>1 DEF ThreadOK, MineOK, Domains, InsertCount, Goto, Keep, history, locals, Answer
<1>6. PlaceOK(t)'
  BY <1>1, <1>2 DEF ThreadOK, PlaceOK, Domains, Inserting, Modifying, Reading, Ensuring,
     Expanding, Checking, WithNode, Content, At, pos, InsertCount, Goto, Keep, history, locals,
     Answer
<1>7. WatchOK(t)'
  BY <1>1 DEF WatchOK, Uses, Using, Domains, InsertCount, Goto, Keep, history, locals, Answer
<1>8. ReloadOK(t)'
  BY <1>1, <1>2 DEF ThreadOK, ReloadOK, Domains, At, pos, InsertCount, Goto, Keep, history, locals,
     Answer
<1> QED
  BY <1>3, <1>4, <1>5, <1>6, <1>7, <1>8, CalmInv DEF ThreadOK

LEMMA InsertWatchInv ==
  ASSUME WInv, NEW t \in Thread, InsertWatch(t)
  PROVE  WInv' /\ Around(t)
<1>1. LocalType(t) /\ ThreadOK(t) /\ Domains /\ call[t] # NoCall
  BY DEF WInv, WType, LocalType, InsertWatch, Goto, Watch
<1>2. At(t) \in Content
  BY <1>1, AtType
<1>3. Calm(t)
  BY <1>1 DEF Calm, Others, Unmoved, Domains, InsertWatch, Goto, Keep, history, locals, Watch
<1>4. LocalType(t)'
  BY <1>1, <1>2, LevelsType
       DEF LocalType, Domains, PC, Content, InsertWatch, Goto, Keep, history, locals, Watch
<1>5. MineOK(t)'
  BY <1>1 DEF ThreadOK, MineOK, Domains, InsertWatch, Goto, Keep, history, locals, Watch
<1>6. PlaceOK(t)'
  BY <1>1, <1>2 DEF ThreadOK, PlaceOK, Domains, Inserting, Modifying, Reading, Ensuring,
     Expanding, Checking, WithNode, Content, At, pos, InsertWatch, Goto, Keep, history, locals,
     Watch
<1>7. WatchOK(t)'
  BY <1>1 DEF WatchOK, Uses, Using, Domains, InsertWatch, Goto, Keep, history, locals, Watch
<1>8. ReloadOK(t)'
  BY <1>1, <1>2 DEF ThreadOK, ReloadOK, Domains, At, pos, InsertWatch, Goto, Keep, history, locals,
     Watch
<1> QED
  BY <1>3, <1>4, <1>5, <1>6, <1>7, <1>8, CalmInv DEF ThreadOK

LEMMA GetWatchInv ==
  ASSUME WInv, NEW t \in Thread, GetWatch(t)
  PROVE  WInv' /\ Around(t)
<1>1. LocalType(t) /\ ThreadOK(t) /\ Domains /\ call[t] # NoCall
  BY DEF WInv, WType, LocalType, GetWatch, Goto, Watch
<1>2. At(t) \in Content
  BY <1>1, AtType
<1>3. Calm(t)
  BY <1>1 DEF Calm, Others, Unmoved, Domains, GetWatch, Goto, Keep, history, locals, Watch
<1>4. LocalType(t)'
  BY <1>1, <1>2, LevelsType
       DEF LocalType, Domains, PC, Content, GetWatch, Goto, Keep, history, locals, Watch
<1>5. MineOK(t)'
  BY <1>1 DEF ThreadOK, MineOK, Domains, GetWatch, Goto, Keep, history, locals, Watch
<1>6. PlaceOK(t)'
  BY <1>1, <1>2 DEF ThreadOK, PlaceOK, Domains, Inserting, Modifying, Reading, Ensuring,
     Expanding, Checking, WithNode, Content, At, pos, GetWatch, Goto, Keep, history, locals, Watch
<1>7. WatchOK(t)'
  BY <1>1 DEF WatchOK, Uses, Using, Domains, GetWatch, Goto, Keep, history, locals, Watch
<1>8. ReloadOK(t)'
  BY <1>1, <1>2 DEF ThreadOK, ReloadOK, Domains, At, pos, GetWatch, Goto, Keep, history, locals,
     Watch
<1> QED
  BY <1>3, <1>4, <1>5, <1>6, <1>7, <1>8, CalmInv DEF ThreadOK

LEMMA EnsureWatchInv ==
  ASSUME WInv, NEW t \in Thread, EnsureWatch(t)
  PROVE  WInv' /\ Around(t)
<1>1. LocalType(t) /\ ThreadOK(t) /\ Domains /\ call[t] # NoCall
  BY DEF WInv, WType, LocalType, EnsureWatch, Goto, Watch
<1>2. At(t) \in Content
  BY <1>1, AtType
<1>3. Calm(t)
  BY <1>1 DEF Calm, Others, Unmoved, Domains, EnsureWatch, Goto, Keep, history, locals, Watch
<1>4. LocalType(t)'
  BY <1>1, <1>2, LevelsType
       DEF LocalType, Domains, PC, Content, EnsureWatch, Goto, Keep, history, locals, Watch
<1>5. MineOK(t)'
  BY <1>1 DEF ThreadOK, MineOK, Domains, EnsureWatch, Goto, Keep, history, locals, Watch
<1>6. PlaceOK(t)'
  BY <1>1, <1>2 DEF ThreadOK, PlaceOK, Domains, Inserting, Modifying, Reading, Ensuring,
     Expanding, Checking, WithNode, Content, At, pos, EnsureWatch, Goto, Keep, history, locals,
     Watch
<1>7. WatchOK(t)'
  BY <1>1 DEF WatchOK, Uses, Using, Domains, EnsureWatch, Goto, Keep, history, locals, Watch
<1>8. ReloadOK(t)'
  BY <1>1, <1>2 DEF ThreadOK, ReloadOK, Domains, At, pos, EnsureWatch, Goto, Keep, history, locals,
     Watch
<1> QED
  BY <1>3, <1>4, <1>5, <1>6, <1>7, <1>8, CalmInv DEF ThreadOK

LEMMA ModifyWatchInv ==
  ASSUME WInv, NEW t \in Thread, ModifyWatch(t)
  PROVE  WInv' /\ Around(t)
<1>1. LocalType(t) /\ ThreadOK(t) /\ Domains /\ call[t] # NoCall
  BY DEF WInv, WType, LocalType, ModifyWatch, Goto, Watch
<1>2. At(t) \in Content
  BY <1>1, AtType
<1>3. Calm(t)
  BY <1>1 DEF Calm, Others, Unmoved, Domains, ModifyWatch, Goto, Keep, history, locals, Watch
<1>4. LocalType(t)'
  BY <1>1, <1>2, LevelsType
       DEF LocalType, Domains, PC, Content, ModifyWatch, Goto, Keep, history, locals, Watch
<1>5. MineOK(t)'
  BY <1>1 DEF ThreadOK, MineOK, Domains, ModifyWatch, Goto, Keep, history, locals, Watch
<1>6. PlaceOK(t)'
  BY <1>1, <1>2 DEF ThreadOK, PlaceOK, Domains, Inserting, Modifying, Reading, Ensuring,
     Expanding, Checking, WithNode, Content, At, pos, ModifyWatch, Goto, Keep, history, locals,
     Watch
<1>7. WatchOK(t)'
  BY <1>1 DEF WatchOK, Uses, Using, Domains, ModifyWatch, Goto, Keep, history, locals, Watch
<1>8. ReloadOK(t)'
  BY <1>1, <1>2 DEF ThreadOK, ReloadOK, Domains, At, pos, ModifyWatch, Goto, Keep, history, locals,
     Watch
<1> QED
  BY <1>3, <1>4, <1>5, <1>6, <1>7, <1>8, CalmInv DEF ThreadOK

LEMMA InsertCheckInv ==
  ASSUME WInv, NEW t \in Thread, InsertCheck(t)
  PROVE  WInv' /\ Around(t)
<1>1. LocalType(t) /\ ThreadOK(t) /\ Domains /\ call[t] # NoCall
  BY DEF WInv, WType, LocalType, InsertCheck, Goto
<1>2. At(t) \in Content
  BY <1>1, AtType
<1>3. Calm(t)
  BY <1>1 DEF Calm, Others, Unmoved, Domains, InsertCheck, Goto, Keep, history, locals
<1>4. LocalType(t)'
  BY <1>1, <1>2, LevelsType
       DEF LocalType, Domains, PC, Content, InsertCheck, Goto, Keep, history, locals
<1>5. MineOK(t)'
  BY <1>1 DEF ThreadOK, MineOK, Domains, InsertCheck, Goto, Keep, history, locals
<1>6. PlaceOK(t)'
  BY <1>1, <1>2 DEF ThreadOK, PlaceOK, Domains, Inserting, Modifying, Reading, Ensuring,
     Expanding, Checking, WithNode, Content, At, pos, InsertCheck, Goto, Keep, history, locals
<1>7. WatchOK(t)'
  <2> SUFFICES ASSUME NEW n \in Node, Uses(t, n)'
               PROVE  /\ watched'[t] = n /\ heap'[n] # Free
                      /\ \A u \in Thread : mine'[u] # n
                      /\ \A u \in Thread : pc'[u] = "s_read" /\ node'[u] = n => t \notin seen'[u]
                      /\ pc'[t] = "i_hash" =>
                            \A l \in 0..lvl'[t] : (Pos(heap[n].key, l))' = (Pos(call[t].key, l))'
    BY DEF WatchOK
  <2>1. At(t) = n /\ watched[t] = n /\ pc'[t] # "s_read"
    BY <1>1 DEF ThreadOK, PlaceOK, Checking, Uses, Using, Domains, InsertCheck, Goto, Keep,
       history, locals
  <2>2. /\ heap[n] # Free
        /\ \A u \in Thread : ~(pc[u] = "s_read" /\ node[u] = n)
        /\ \A u \in Thread : mine[u] # n
        /\ pc[t] \in Inserting => \A l \in 0..lvl[t] : Pos(heap[n].key, l) = Pos(call[t].key, l)
    BY <1>1, <2>1, Validated DEF Owns
  <2>3. \A u \in Thread : ~(pc'[u] = "s_read" /\ node'[u] = n)
    BY <1>1, <1>3, <2>1, <2>2 DEF Calm, Others, Unmoved
  <2>4. pc'[t] = "i_hash" => pc[t] \in Inserting
    BY <1>1 DEF Inserting, Domains, InsertCheck, Goto, Keep, history, locals
  <2>5. /\ heap' = heap /\ mine' = mine /\ watched' = watched
        /\ pc'[t] = "i_hash" => lvl' = lvl /\ call' = call
    BY <1>1 DEF Domains, InsertCheck, Goto, Keep, history, locals
  <2> QED
    BY <2>1, <2>2, <2>3, <2>4, <2>5
<1>8. ReloadOK(t)'
  BY <1>1, <1>2 DEF ThreadOK, ReloadOK, Domains, At, pos, InsertCheck, Goto, Keep, history, locals
<1> QED
  BY <1>3, <1>4, <1>5, <1>6, <1>7, <1>8, CalmInv DEF ThreadOK

LEMMA ExpandCheckInv ==
  ASSUME WInv, NEW t \in Thread, ExpandCheck(t)
  PROVE  WInv' /\ Around(t)
<1>1. LocalType(t) /\ ThreadOK(t) /\ Domains /\ call[t] # NoCall
  BY DEF WInv, WType, LocalType, ExpandCheck, Goto
<1>2. At(t) \in Content
  BY <1>1, AtType
<1>3. Calm(t)
  BY <1>1 DEF Calm, Others, Unmoved, Domains, ExpandCheck, Goto, Keep, history, locals
<1>4. LocalType(t)'
  BY <1>1, <1>2, LevelsType
       DEF LocalType, Domains, PC, Content, ExpandCheck, Goto, Keep, history, locals
<1>5. MineOK(t)'
  BY <1>1 DEF ThreadOK, MineOK, Domains, ExpandCheck, Goto, Keep, history, locals
<1>6. PlaceOK(t)'
  BY <1>1, <1>2 DEF ThreadOK, PlaceOK, Domains, Inserting, Modifying, Reading, Ensuring,
     Expanding, Checking, WithNode, Content, At, pos, ExpandCheck, Goto, Keep, history, locals
<1>7. WatchOK(t)'
  <2> SUFFICES ASSUME NEW n \in Node, Uses(t, n)'
               PROVE  /\ watched'[t] = n /\ heap'[n] # Free
                      /\ \A u \in Thread : mine'[u] # n
                      /\ \A u \in Thread : pc'[u] = "s_read" /\ node'[u] = n => t \notin seen'[u]
                      /\ pc'[t] = "i_hash" =>
                            \A l \in 0..lvl'[t] : (Pos(heap[n].key, l))' = (Pos(call[t].key, l))'
    BY DEF WatchOK
  <2>1. At(t) = n /\ watched[t] = n /\ pc'[t] # "s_read"
    BY <1>1 DEF ThreadOK, PlaceOK, Checking, Uses, Using, Domains, ExpandCheck, Goto, Keep,
       history, locals
  <2>2. /\ heap[n] # Free
        /\ \A u \in Thread : ~(pc[u] = "s_read" /\ node[u] = n)
        /\ \A u \in Thread : mine[u] # n
        /\ pc[t] \in Inserting => \A l \in 0..lvl[t] : Pos(heap[n].key, l) = Pos(call[t].key, l)
    BY <1>1, <2>1, Validated DEF Owns
  <2>3. \A u \in Thread : ~(pc'[u] = "s_read" /\ node'[u] = n)
    BY <1>1, <1>3, <2>1, <2>2 DEF Calm, Others, Unmoved
  <2>4. pc'[t] = "i_hash" => pc[t] \in Inserting
    BY <1>1 DEF Inserting, Domains, ExpandCheck, Goto, Keep, history, locals
  <2>5. /\ heap' = heap /\ mine' = mine /\ watched' = watched
        /\ pc'[t] = "i_hash" => lvl' = lvl /\ call' = call
    BY <1>1 DEF Domains, ExpandCheck, Goto, Keep, history, locals
  <2> QED
    BY <2>1, <2>2, <2>3, <2>4, <2>5
<1>8. ReloadOK(t)'
  BY <1>1, <1>2 DEF ThreadOK, ReloadOK, Domains, At, pos, ExpandCheck, Goto, Keep, history, locals
<1> QED
  BY <1>3, <1>4, <1>5, <1>6, <1>7, <1>8, CalmInv DEF ThreadOK

LEMMA GetCheckInv ==
  ASSUME WInv, NEW t \in Thread, GetCheck(t)
  PROVE  WInv' /\ Around(t)
<1>1. LocalType(t) /\ ThreadOK(t) /\ Domains /\ call[t] # NoCall
  BY DEF WInv, WType, LocalType, GetCheck, Goto
<1>2. At(t) \in Content
  BY <1>1, AtType
<1>3. Calm(t)
  BY <1>1 DEF Calm, Others, Unmoved, Domains, GetCheck, Goto, Keep, history, locals
<1>4. LocalType(t)'
  BY <1>1, <1>2, LevelsType
       DEF LocalType, Domains, PC, Content, GetCheck, Goto, Keep, history, locals
<1>5. MineOK(t)'
  BY <1>1 DEF ThreadOK, MineOK, Domains, GetCheck, Goto, Keep, history, locals
<1>6. PlaceOK(t)'
  BY <1>1, <1>2 DEF ThreadOK, PlaceOK, Domains, Inserting, Modifying, Reading, Ensuring,
     Expanding, Checking, WithNode, Content, At, pos, GetCheck, Goto, Keep, history, locals
<1>7. WatchOK(t)'
  <2> SUFFICES ASSUME NEW n \in Node, Uses(t, n)'
               PROVE  /\ watched'[t] = n /\ heap'[n] # Free
                      /\ \A u \in Thread : mine'[u] # n
                      /\ \A u \in Thread : pc'[u] = "s_read" /\ node'[u] = n => t \notin seen'[u]
                      /\ pc'[t] = "i_hash" =>
                            \A l \in 0..lvl'[t] : (Pos(heap[n].key, l))' = (Pos(call[t].key, l))'
    BY DEF WatchOK
  <2>1. At(t) = n /\ watched[t] = n /\ pc'[t] # "s_read"
    BY <1>1 DEF ThreadOK, PlaceOK, Checking, Uses, Using, Domains, GetCheck, Goto, Keep, history,
       locals
  <2>2. /\ heap[n] # Free
        /\ \A u \in Thread : ~(pc[u] = "s_read" /\ node[u] = n)
        /\ \A u \in Thread : mine[u] # n
        /\ pc[t] \in Inserting => \A l \in 0..lvl[t] : Pos(heap[n].key, l) = Pos(call[t].key, l)
    BY <1>1, <2>1, Validated DEF Owns
  <2>3. \A u \in Thread : ~(pc'[u] = "s_read" /\ node'[u] = n)
    BY <1>1, <1>3, <2>1, <2>2 DEF Calm, Others, Unmoved
  <2>4. pc'[t] = "i_hash" => pc[t] \in Inserting
    BY <1>1 DEF Inserting, Domains, GetCheck, Goto, Keep, history, locals
  <2>5. /\ heap' = heap /\ mine' = mine /\ watched' = watched
        /\ pc'[t] = "i_hash" => lvl' = lvl /\ call' = call
    BY <1>1 DEF Domains, GetCheck, Goto, Keep, history, locals
  <2> QED
    BY <2>1, <2>2, <2>3, <2>4, <2>5
<1>8. ReloadOK(t)'
  BY <1>1, <1>2 DEF ThreadOK, ReloadOK, Domains, At, pos, GetCheck, Goto, Keep, history, locals
<1> QED
  BY <1>3, <1>4, <1>5, <1>6, <1>7, <1>8, CalmInv DEF ThreadOK

LEMMA ModifyCheckInv ==
  ASSUME WInv, NEW t \in Thread, ModifyCheck(t)
  PROVE  WInv' /\ Around(t)
<1>1. LocalType(t) /\ ThreadOK(t) /\ Domains /\ call[t] # NoCall
  BY DEF WInv, WType, LocalType, ModifyCheck, Goto
<1>2. At(t) \in Content
  BY <1>1, AtType
<1>3. Calm(t)
  BY <1>1 DEF Calm, Others, Unmoved, Domains, ModifyCheck, Goto, Keep, history, locals
<1>4. LocalType(t)'
  BY <1>1, <1>2, LevelsType
       DEF LocalType, Domains, PC, Content, ModifyCheck, Goto, Keep, history, locals
<1>5. MineOK(t)'
  BY <1>1 DEF ThreadOK, MineOK, Domains, ModifyCheck, Goto, Keep, history, locals
<1>6. PlaceOK(t)'
  BY <1>1, <1>2 DEF ThreadOK, PlaceOK, Domains, Inserting, Modifying, Reading, Ensuring,
     Expanding, Checking, WithNode, Content, At, pos, ModifyCheck, Goto, Keep, history, locals
<1>7. WatchOK(t)'
  <2> SUFFICES ASSUME NEW n \in Node, Uses(t, n)'
               PROVE  /\ watched'[t] = n /\ heap'[n] # Free
                      /\ \A u \in Thread : mine'[u] # n
                      /\ \A u \in Thread : pc'[u] = "s_read" /\ node'[u] = n => t \notin seen'[u]
                      /\ pc'[t] = "i_hash" =>
                            \A l \in 0..lvl'[t] : (Pos(heap[n].key, l))' = (Pos(call[t].key, l))'
    BY DEF WatchOK
  <2>1. At(t) = n /\ watched[t] = n /\ pc'[t] # "s_read"
    BY <1>1 DEF ThreadOK, PlaceOK, Checking, Uses, Using, Domains, ModifyCheck, Goto, Keep,
       history, locals
  <2>2. /\ heap[n] # Free
        /\ \A u \in Thread : ~(pc[u] = "s_read" /\ node[u] = n)
        /\ \A u \in Thread : mine[u] # n
        /\ pc[t] \in Inserting => \A l \in 0..lvl[t] : Pos(heap[n].key, l) = Pos(call[t].key, l)
    BY <1>1, <2>1, Validated DEF Owns
  <2>3. \A u \in Thread : ~(pc'[u] = "s_read" /\ node'[u] = n)
    BY <1>1, <1>3, <2>1, <2>2 DEF Calm, Others, Unmoved
  <2>4. pc'[t] = "i_hash" => pc[t] \in Inserting
    BY <1>1 DEF Inserting, Domains, ModifyCheck, Goto, Keep, history, locals
  <2>5. /\ heap' = heap /\ mine' = mine /\ watched' = watched
        /\ pc'[t] = "i_hash" => lvl' = lvl /\ call' = call
    BY <1>1 DEF Domains, ModifyCheck, Goto, Keep, history, locals
  <2> QED
    BY <2>1, <2>2, <2>3, <2>4, <2>5
<1>8. ReloadOK(t)'
  BY <1>1, <1>2 DEF ThreadOK, ReloadOK, Domains, At, pos, ModifyCheck, Goto, Keep, history, locals
<1> QED
  BY <1>3, <1>4, <1>5, <1>6, <1>7, <1>8, CalmInv DEF ThreadOK

LEMMA ExpandLoadInv ==
  ASSUME WInv, NEW t \in Thread, ExpandLoad(t)
  PROVE  WInv' /\ Around(t)
<1>1. LocalType(t) /\ ThreadOK(t) /\ Domains /\ call[t] # NoCall
  BY DEF WInv, WType, LocalType, ExpandLoad, Goto
<1>2. At(t) \in Content
  BY <1>1, AtType
<1>3. Calm(t)
  BY <1>1 DEF Calm, Others, Unmoved, Domains, ExpandLoad, Goto, Keep, history, locals
<1>4. LocalType(t)'
  BY <1>1, <1>2, LevelsType
       DEF LocalType, Domains, PC, Content, ExpandLoad, Goto, Keep, history, locals
<1>5. MineOK(t)'
  BY <1>1 DEF ThreadOK, MineOK, Domains, ExpandLoad, Goto, Keep, history, locals
<1>6. PlaceOK(t)'
  BY <1>1, <1>2 DEF ThreadOK, PlaceOK, Domains, Inserting, Modifying, Reading, Ensuring,
     Expanding, Checking, WithNode, Content, At, pos, ExpandLoad, Goto, Keep, history, locals
<1>7. WatchOK(t)'
  BY <1>1 DEF WatchOK, Uses, Using, Domains, ExpandLoad, Goto, Keep, history, locals
<1>8. ReloadOK(t)'
  BY <1>1, <1>2 DEF ThreadOK, ReloadOK, Domains, At, pos, ExpandLoad, Goto, Keep, history, locals
<1> QED
  BY <1>3, <1>4, <1>5, <1>6, <1>7, <1>8, CalmInv DEF ThreadOK

LEMMA EnsureLoadInv ==
  ASSUME WInv, NEW t \in Thread, EnsureLoad(t)
  PROVE  WInv' /\ Around(t)
<1>1. LocalType(t) /\ ThreadOK(t) /\ Domains /\ call[t] # NoCall
  BY DEF WInv, WType, LocalType, EnsureLoad, Goto
<1>2. At(t) \in Content
  BY <1>1, AtType
<1>3. Calm(t)
  BY <1>1 DEF Calm, Others, Unmoved, Domains, EnsureLoad, Goto, Keep, history, locals
<1>4. LocalType(t)'
  BY <1>1, <1>2, LevelsType
       DEF LocalType, Domains, PC, Content, EnsureLoad, Goto, Keep, history, locals
<1>5. MineOK(t)'
  BY <1>1 DEF ThreadOK, MineOK, Domains, EnsureLoad, Goto, Keep, history, locals
<1>6. PlaceOK(t)'
  BY <1>1, <1>2 DEF ThreadOK, PlaceOK, Domains, Inserting, Modifying, Reading, Ensuring,
     Expanding, Checking, WithNode, Content, At, pos, EnsureLoad, Goto, Keep, history, locals
<1>7. WatchOK(t)'
  BY <1>1 DEF WatchOK, Uses, Using, Domains, EnsureLoad, Goto, Keep, history, locals
<1>8. ReloadOK(t)'
  BY <1>1, <1>2 DEF ThreadOK, ReloadOK, Domains, At, pos, EnsureLoad, Goto, Keep, history, locals
<1> QED
  BY <1>3, <1>4, <1>5, <1>6, <1>7, <1>8, CalmInv DEF ThreadOK

LEMMA EnsureCheckFailsInv ==
  ASSUME WInv, NEW t \in Thread, EnsureCheckFails(t)
  PROVE  WInv' /\ Around(t)
<1>1. LocalType(t) /\ ThreadOK(t) /\ Domains /\ call[t] # NoCall
  BY DEF WInv, WType, LocalType, EnsureCheckFails, Goto
<1>2. At(t) \in Content
  BY <1>1, AtType
<1>3. Calm(t)
  BY <1>1 DEF Calm, Others, Unmoved, Domains, EnsureCheckFails, Goto, Keep, history, locals
<1>4. LocalType(t)'
  BY <1>1, <1>2, LevelsType
       DEF LocalType, Domains, PC, Content, EnsureCheckFails, Goto, Keep, history, locals
<1>5. MineOK(t)'
  BY <1>1 DEF ThreadOK, MineOK, Domains, EnsureCheckFails, Goto, Keep, history, locals
<1>6. PlaceOK(t)'
  BY <1>1, <1>2 DEF ThreadOK, PlaceOK, Domains, Inserting, Modifying, Reading, Ensuring,
     Expanding, Checking, WithNode, Content, At, pos, EnsureCheckFails, Goto, Keep, history, locals
<1>7. WatchOK(t)'
  BY <1>1 DEF WatchOK, Uses, Using, Domains, EnsureCheckFails, Goto, Keep, history, locals
<1>8. ReloadOK(t)'
  BY <1>1, <1>2 DEF ThreadOK, ReloadOK, Domains, At, pos, EnsureCheckFails, Goto, Keep, history,
     locals
<1> QED
  BY <1>3, <1>4, <1>5, <1>6, <1>7, <1>8, CalmInv DEF ThreadOK

LEMMA InsertHashInv ==
  ASSUME WInv, NEW t \in Thread, InsertHash(t)
  PROVE  WInv' /\ Around(t)
<1>1. LocalType(t) /\ ThreadOK(t) /\ Domains /\ call[t] # NoCall
  BY DEF WInv, WType, LocalType, InsertHash, Goto
<1>0. heap[node[t]].key # call[t].key => lvl[t] + 1 < Levels
  <2>1. /\ heap[node[t]] \in [key : Key, val : Value] /\ call[t].key \in Key
        /\ \A l \in 0..lvl[t] : Pos(heap[node[t]].key, l) = Pos(call[t].key, l)
    BY <1>1, CallAssumption DEF WInv, WType, HeapType, LocalType, ThreadOK, WatchOK, Uses, Using,
       InsertHash
  <2>2. lvl[t] \in 0..(Levels - 1)
    BY <1>1, LevelsType DEF LocalType, InsertHash
  <2> QED
    BY <2>1, <2>2, KeysPart
<1>2. At(t) \in Content
  BY <1>1, AtType
<1>3. Calm(t)
  BY <1>1 DEF Calm, Others, Unmoved, Domains, InsertHash, Goto, Keep, history, locals, Answer
<1>4. LocalType(t)'
  BY <1>1, <1>2, LevelsType
       DEF LocalType, Domains, PC, Content, InsertHash, Goto, Keep, history, locals, Answer
<1>5. MineOK(t)'
  BY <1>1 DEF ThreadOK, MineOK, Domains, InsertHash, Goto, Keep, history, locals, Answer
<1>6. PlaceOK(t)'
  BY <1>1, <1>2, <1>0 DEF ThreadOK, PlaceOK, Domains, Inserting, Modifying, Reading, Ensuring,
     Expanding, Checking, WithNode, Content, At, pos, InsertHash, Goto, Keep, history, locals,
     Answer
<1>7. WatchOK(t)'
  BY <1>1 DEF WatchOK, Uses, Using, Domains, InsertHash, Goto, Keep, history, locals, Answer
<1>8. ReloadOK(t)'
  BY <1>1, <1>2 DEF ThreadOK, ReloadOK, Domains, At, pos, InsertHash, Goto, Keep, history, locals,
     Answer
<1> QED
  BY <1>3, <1>4, <1>5, <1>6, <1>7, <1>8, CalmInv DEF ThreadOK

LEMMA GetReadInv ==
  ASSUME WInv, NEW t \in Thread, GetRead(t)
  PROVE  WInv' /\ Around(t)
<1>1. LocalType(t) /\ ThreadOK(t) /\ Domains /\ call[t] # NoCall
  BY DEF WInv, WType, LocalType, GetRead, Goto
<1>2. At(t) \in Content
  BY <1>1, AtType
<1>3. Calm(t)
  BY <1>1 DEF Calm, Others, Unmoved, Domains, GetRead, Goto, Keep, history, locals, Answer, Miss
<1>4. LocalType(t)'
  BY <1>1, <1>2, LevelsType
       DEF LocalType, Domains, PC, Content, GetRead, Goto, Keep, history, locals, Answer, Miss
<1>5. MineOK(t)'
  BY <1>1 DEF ThreadOK, MineOK, Domains, GetRead, Goto, Keep, history, locals, Answer, Miss
<1>6. PlaceOK(t)'
  BY <1>1, <1>2 DEF ThreadOK, PlaceOK, Domains, Inserting, Modifying, Reading, Ensuring,
     Expanding, Checking, WithNode, Content, At, pos, GetRead, Goto, Keep, history, locals, Answer,
     Miss
<1>7. WatchOK(t)'
  BY <1>1 DEF WatchOK, Uses, Using, Domains, GetRead, Goto, Keep, history, locals, Answer, Miss
<1>8. ReloadOK(t)'
  BY <1>1, <1>2 DEF ThreadOK, ReloadOK, Domains, At, pos, GetRead, Goto, Keep, history, locals,
     Answer, Miss
<1> QED
  BY <1>3, <1>4, <1>5, <1>6, <1>7, <1>8, CalmInv DEF ThreadOK

LEMMA SafeDeleteReadInv ==
  ASSUME WInv, NEW t \in Thread, NEW u \in Thread, SafeDeleteRead(t, u)
  PROVE  WInv' /\ Around(t)
<1>1. LocalType(t) /\ ThreadOK(t) /\ Domains /\ call[t] # NoCall
  BY DEF WInv, WType, LocalType, SafeDeleteRead, Goto
<1>0. \A w \in Thread : w # t /\ Uses(w, node[t]) => watched[w] = node[t] /\ w \notin seen[t]
  BY <1>1 DEF WInv, ThreadOK, WatchOK, Uses, SafeDeleteRead
<1>2. At(t) \in Content
  BY <1>1, AtType
<1>3. Calm(t)
  BY <1>1, <1>0 DEF Calm, Others, Unmoved, Domains, SafeDeleteRead, Goto, Keep, history, locals
<1>4. LocalType(t)'
  BY <1>1, <1>2, LevelsType
       DEF LocalType, Domains, PC, Content, SafeDeleteRead, Goto, Keep, history, locals
<1>5. MineOK(t)'
  BY <1>1 DEF ThreadOK, MineOK, Domains, SafeDeleteRead, Goto, Keep, history, locals
<1>6. PlaceOK(t)'
  BY <1>1, <1>2 DEF ThreadOK, PlaceOK, Domains, Inserting, Modifying, Reading, Ensuring,
     Expanding, Checking, WithNode, Content, At, pos, SafeDeleteRead, Goto, Keep, history, locals
<1>7. WatchOK(t)'
  BY <1>1 DEF WatchOK, Uses, Using, Domains, SafeDeleteRead, Goto, Keep, history, locals
<1>8. ReloadOK(t)'
  BY <1>1, <1>2 DEF ThreadOK, ReloadOK, Domains, At, pos, SafeDeleteRead, Goto, Keep, history,
     locals
<1> QED
  BY <1>3, <1>4, <1>5, <1>6, <1>7, <1>8, CalmInv DEF ThreadOK

\* Where a thread is after its next round
LEMMA Landing ==
  ASSUME WInv, NEW t \in Thread, call[t] # NoCall, lvl[t] < Levels, NEW l, NEW m,
         \/ l = loc[t] /\ m = lvl[t]
         \/ l = loc[t] /\ m = lvl[t] + 1 /\ call[t].op = "get"
         \/ l = Append(loc[t], pos(t)) /\ m = lvl[t] + 1 /\ At(t) = Array
  PROVE  /\ l \in DOMAIN tree /\ m \in 0..Levels /\ (m = 0 => l = << >>)
         /\ call[t].op # "get" => m < Levels /\ l = PathTo(call[t].key, m)
<1>1. /\ loc[t] \in DOMAIN tree /\ lvl[t] \in 0..(Levels - 1) /\ (lvl[t] = 0 => loc[t] = << >>)
      /\ call[t].op # "get" => loc[t] = PathTo(call[t].key, lvl[t])
  BY LevelsType DEF WInv, WType, LocalType, ThreadOK, PlaceOK
<1>2. CASE l = loc[t] /\ m = lvl[t]
  BY <1>1, <1>2, LevelsType
<1>3. CASE l = loc[t] /\ m = lvl[t] + 1 /\ call[t].op = "get"
  BY <1>1, <1>3, LevelsType
<1>4. CASE l = Append(loc[t], pos(t)) /\ m = lvl[t] + 1 /\ At(t) = Array
  BY <1>1, <1>4, LevelsType, DeeperPlace
<1> QED
  BY <1>2, <1>3, <1>4

LEMMA InsertReloadInv ==
  ASSUME WInv, NEW t \in Thread, InsertReload(t)
  PROVE  WInv' /\ Around(t)
<1>1. LocalType(t) /\ ThreadOK(t) /\ Domains /\ call[t] # NoCall
  BY DEF WInv, WType, LocalType, InsertReload, Goto
<1>9. \/ loc'[t] = loc[t] /\ lvl'[t] = lvl[t]
      \/ loc'[t] = loc[t] /\ lvl'[t] = lvl[t] + 1 /\ call[t].op = "get"
      \/ loc'[t] = Append(loc[t], pos(t)) /\ lvl'[t] = lvl[t] + 1 /\ At(t) = Array
  BY <1>1 DEF Domains, ThreadOK, PlaceOK, InsertReload, Goto, Keep, Descend
<1>11. lvl[t] < Levels
  BY <1>1 DEF LocalType, InsertReload, Goto, Keep, Descend
<1>10. /\ loc'[t] \in DOMAIN tree /\ lvl'[t] \in 0..Levels /\ (lvl'[t] = 0 => loc'[t] = << >>)
       /\ call[t].op # "get" => lvl'[t] < Levels /\ loc'[t] = PathTo(call[t].key, lvl'[t])
  BY <1>1, <1>9, <1>11, Landing
<1>2. At(t) \in Content
  BY <1>1, AtType
<1>3. Calm(t)
  BY <1>1 DEF Calm, Others, Unmoved, Domains, InsertReload, Goto, Keep, history, locals, Descend
<1>4. LocalType(t)'
  BY <1>1, <1>2, LevelsType, <1>10
       DEF LocalType, ThreadOK, PlaceOK, Inserting, Domains, PC, Content, InsertReload, Goto, Keep,
           history, locals, Descend
<1>5. MineOK(t)'
  BY <1>1 DEF ThreadOK, MineOK, Domains, InsertReload, Goto, Keep, history, locals, Descend
<1>6. PlaceOK(t)'
  BY <1>1, <1>2, <1>10 DEF ThreadOK, PlaceOK, Domains, Inserting, Modifying, Reading, Ensuring,
     Expanding, Checking, WithNode, Content, At, pos, InsertReload, Goto, Keep, history, locals,
     Descend
<1>7. WatchOK(t)'
  BY <1>1 DEF WatchOK, Uses, Using, Domains, InsertReload, Goto, Keep, history, locals, Descend
<1>8. ReloadOK(t)'
  BY <1>1, <1>2 DEF ThreadOK, ReloadOK, Domains, At, pos, InsertReload, Goto, Keep, history,
     locals, Descend
<1> QED
  BY <1>3, <1>4, <1>5, <1>6, <1>7, <1>8, CalmInv DEF ThreadOK

LEMMA ExpandWatchInv ==
  ASSUME WInv, NEW t \in Thread, ExpandWatch(t)
  PROVE  WInv' /\ Around(t)
<1>1. LocalType(t) /\ ThreadOK(t) /\ Domains /\ call[t] # NoCall
  BY DEF WInv, WType, LocalType, ExpandWatch, Goto
<1>9. \/ loc'[t] = loc[t] /\ lvl'[t] = lvl[t]
      \/ loc'[t] = loc[t] /\ lvl'[t] = lvl[t] + 1 /\ call[t].op = "get"
      \/ loc'[t] = Append(loc[t], pos(t)) /\ lvl'[t] = lvl[t] + 1 /\ At(t) = Array
  BY <1>1 DEF Domains, ThreadOK, PlaceOK, ExpandWatch, Goto, Keep, Descend
<1>11. lvl[t] < Levels
  BY <1>1 DEF LocalType, ExpandWatch, Goto, Keep, Descend
<1>10. /\ loc'[t] \in DOMAIN tree /\ lvl'[t] \in 0..Levels /\ (lvl'[t] = 0 => loc'[t] = << >>)
       /\ call[t].op # "get" => lvl'[t] < Levels /\ loc'[t] = PathTo(call[t].key, lvl'[t])
  BY <1>1, <1>9, <1>11, Landing
<1>2. At(t) \in Content
  BY <1>1, AtType
<1>3. Calm(t)
  BY <1>1 DEF Calm, Others, Unmoved, Domains, ExpandWatch, Goto, Keep, history, locals, Descend
<1>4. LocalType(t)'
  BY <1>1, <1>2, LevelsType, <1>10
       DEF LocalType, ThreadOK, PlaceOK, Inserting, Domains, PC, Content, ExpandWatch, Goto, Keep,
           history, locals, Descend
<1>5. MineOK(t)'
  BY <1>1 DEF ThreadOK, MineOK, Domains, ExpandWatch, Goto, Keep, history, locals, Descend
<1>6. PlaceOK(t)'
  BY <1>1, <1>2, <1>10 DEF ThreadOK, PlaceOK, Domains, Inserting, Modifying, Reading, Ensuring,
     Expanding, Checking, WithNode, Content, At, pos, ExpandWatch, Goto, Keep, history, locals,
     Descend
<1>7. WatchOK(t)'
  BY <1>1 DEF WatchOK, Uses, Using, Domains, ExpandWatch, Goto, Keep, history, locals, Descend
<1>8. ReloadOK(t)'
  BY <1>1, <1>2 DEF ThreadOK, ReloadOK, Domains, At, pos, ExpandWatch, Goto, Keep, history, locals,
     Descend
<1> QED
  BY <1>3, <1>4, <1>5, <1>6, <1>7, <1>8, CalmInv DEF ThreadOK

LEMMA GetLoadInv ==
  ASSUME WInv, NEW t \in Thread, GetLoad(t)
  PROVE  WInv' /\ Around(t)
<1>1. LocalType(t) /\ ThreadOK(t) /\ Domains /\ call[t] # NoCall
  BY DEF WInv, WType, LocalType, GetLoad, Goto
<1>9. \/ loc'[t] = loc[t] /\ lvl'[t] = lvl[t]
      \/ loc'[t] = loc[t] /\ lvl'[t] = lvl[t] + 1 /\ call[t].op = "get"
      \/ loc'[t] = Append(loc[t], pos(t)) /\ lvl'[t] = lvl[t] + 1 /\ At(t) = Array
  BY <1>1 DEF Domains, ThreadOK, PlaceOK, GetLoad, Goto, Keep, Deeper, NextRound, Miss, Answer
<1>11. lvl[t] < Levels
  BY <1>1 DEF LocalType, GetLoad, Goto, Keep, Deeper, NextRound, Miss, Answer
<1>10. /\ loc'[t] \in DOMAIN tree /\ lvl'[t] \in 0..Levels /\ (lvl'[t] = 0 => loc'[t] = << >>)
       /\ call[t].op # "get" => lvl'[t] < Levels /\ loc'[t] = PathTo(call[t].key, lvl'[t])
  BY <1>1, <1>9, <1>11, Landing
<1>2. At(t) \in Content
  BY <1>1, AtType
<1>3. Calm(t)
  BY <1>1 DEF Calm, Others, Unmoved, Domains, GetLoad, Goto, Keep, history, locals, Deeper,
     NextRound, Miss, Answer
<1>4. LocalType(t)'
  BY <1>1, <1>2, LevelsType, <1>10
       DEF LocalType, Domains, PC, Content, GetLoad, Goto, Keep, history, locals, Deeper,
           NextRound, Miss, Answer
<1>5. MineOK(t)'
  BY <1>1 DEF ThreadOK, MineOK, Domains, GetLoad, Goto, Keep, history, locals, Deeper, NextRound,
     Miss, Answer
<1>6. PlaceOK(t)'
  BY <1>1, <1>2, <1>10 DEF ThreadOK, PlaceOK, Domains, Inserting, Modifying, Reading, Ensuring,
     Expanding, Checking, WithNode, Content, At, pos, GetLoad, Goto, Keep, history, locals, Deeper,
     NextRound, Miss, Answer
<1>7. WatchOK(t)'
  BY <1>1 DEF WatchOK, Uses, Using, Domains, GetLoad, Goto, Keep, history, locals, Deeper,
     NextRound, Miss, Answer
<1>8. ReloadOK(t)'
  BY <1>1, <1>2 DEF ThreadOK, ReloadOK, Domains, At, pos, GetLoad, Goto, Keep, history, locals,
     Deeper, NextRound, Miss, Answer
<1> QED
  BY <1>3, <1>4, <1>5, <1>6, <1>7, <1>8, CalmInv DEF ThreadOK

LEMMA ModifyLoadInv ==
  ASSUME WInv, NEW t \in Thread, ModifyLoad(t)
  PROVE  WInv' /\ Around(t)
<1>1. LocalType(t) /\ ThreadOK(t) /\ Domains /\ call[t] # NoCall
  BY DEF WInv, WType, LocalType, ModifyLoad, Goto
<1>9. \/ loc'[t] = loc[t] /\ lvl'[t] = lvl[t]
      \/ loc'[t] = loc[t] /\ lvl'[t] = lvl[t] + 1 /\ call[t].op = "get"
      \/ loc'[t] = Append(loc[t], pos(t)) /\ lvl'[t] = lvl[t] + 1 /\ At(t) = Array
  BY <1>1 DEF Domains, ThreadOK, PlaceOK, ModifyLoad, Goto, Keep, Deeper, NextRound, Miss, Answer
<1>11. lvl[t] < Levels
  BY <1>1 DEF LocalType, ModifyLoad, Goto, Keep, Deeper, NextRound, Miss, Answer
<1>10. /\ loc'[t] \in DOMAIN tree /\ lvl'[t] \in 0..Levels /\ (lvl'[t] = 0 => loc'[t] = << >>)
       /\ call[t].op # "get" => lvl'[t] < Levels /\ loc'[t] = PathTo(call[t].key, lvl'[t])
  BY <1>1, <1>9, <1>11, Landing
<1>2. At(t) \in Content
  BY <1>1, AtType
<1>3. Calm(t)
  BY <1>1 DEF Calm, Others, Unmoved, Domains, ModifyLoad, Goto, Keep, history, locals, Deeper,
     NextRound, Miss, Answer
<1>4. LocalType(t)'
  BY <1>1, <1>2, LevelsType, <1>10
       DEF LocalType, Domains, PC, Content, ModifyLoad, Goto, Keep, history, locals, Deeper,
           NextRound, Miss, Answer
<1>5. MineOK(t)'
  BY <1>1 DEF ThreadOK, MineOK, Domains, ModifyLoad, Goto, Keep, history, locals, Deeper,
     NextRound, Miss, Answer
<1>6. PlaceOK(t)'
  BY <1>1, <1>2, <1>10 DEF ThreadOK, PlaceOK, Domains, Inserting, Modifying, Reading, Ensuring,
     Expanding, Checking, WithNode, Content, At, pos, ModifyLoad, Goto, Keep, history, locals,
     Deeper, NextRound, Miss, Answer
<1>7. WatchOK(t)'
  BY <1>1 DEF WatchOK, Uses, Using, Domains, ModifyLoad, Goto, Keep, history, locals, Deeper,
     NextRound, Miss, Answer
<1>8. ReloadOK(t)'
  BY <1>1, <1>2 DEF ThreadOK, ReloadOK, Domains, At, pos, ModifyLoad, Goto, Keep, history, locals,
     Deeper, NextRound, Miss, Answer
<1> QED
  BY <1>3, <1>4, <1>5, <1>6, <1>7, <1>8, CalmInv DEF ThreadOK

LEMMA ModifyReloadInv ==
  ASSUME WInv, NEW t \in Thread, ModifyReload(t)
  PROVE  WInv' /\ Around(t)
<1>1. LocalType(t) /\ ThreadOK(t) /\ Domains /\ call[t] # NoCall
  BY DEF WInv, WType, LocalType, ModifyReload, Goto
<1>9. \/ loc'[t] = loc[t] /\ lvl'[t] = lvl[t]
      \/ loc'[t] = loc[t] /\ lvl'[t] = lvl[t] + 1 /\ call[t].op = "get"
      \/ loc'[t] = Append(loc[t], pos(t)) /\ lvl'[t] = lvl[t] + 1 /\ At(t) = Array
  BY <1>1 DEF Domains, ThreadOK, PlaceOK, ModifyReload, Goto, Keep, Deeper, NextRound, Miss, Answer
<1>11. lvl[t] < Levels
  BY <1>1 DEF LocalType, ModifyReload, Goto, Keep, Deeper, NextRound, Miss, Answer
<1>10. /\ loc'[t] \in DOMAIN tree /\ lvl'[t] \in 0..Levels /\ (lvl'[t] = 0 => loc'[t] = << >>)
       /\ call[t].op # "get" => lvl'[t] < Levels /\ loc'[t] = PathTo(call[t].key, lvl'[t])
  BY <1>1, <1>9, <1>11, Landing
<1>2. At(t) \in Content
  BY <1>1, AtType
<1>3. Calm(t)
  BY <1>1 DEF Calm, Others, Unmoved, Domains, ModifyReload, Goto, Keep, history, locals, Deeper,
     NextRound, Miss, Answer
<1>4. LocalType(t)'
  BY <1>1, <1>2, LevelsType, <1>10
       DEF LocalType, Domains, PC, Content, ModifyReload, Goto, Keep, history, locals, Deeper,
           NextRound, Miss, Answer
<1>5. MineOK(t)'
  BY <1>1 DEF ThreadOK, MineOK, Domains, ModifyReload, Goto, Keep, history, locals, Deeper,
     NextRound, Miss, Answer
<1>6. PlaceOK(t)'
  BY <1>1, <1>2, <1>10 DEF ThreadOK, PlaceOK, Domains, Inserting, Modifying, Reading, Ensuring,
     Expanding, Checking, WithNode, Content, At, pos, ModifyReload, Goto, Keep, history, locals,
     Deeper, NextRound, Miss, Answer
<1>7. WatchOK(t)'
  BY <1>1 DEF WatchOK, Uses, Using, Domains, ModifyReload, Goto, Keep, history, locals, Deeper,
     NextRound, Miss, Answer
<1>8. ReloadOK(t)'
  BY <1>1, <1>2 DEF ThreadOK, ReloadOK, Domains, At, pos, ModifyReload, Goto, Keep, history,
     locals, Deeper, NextRound, Miss, Answer
<1> QED
  BY <1>3, <1>4, <1>5, <1>6, <1>7, <1>8, CalmInv DEF ThreadOK

LEMMA GetAgainInv ==
  ASSUME WInv, NEW t \in Thread, GetAgain(t)
  PROVE  WInv' /\ Around(t)
<1>1. LocalType(t) /\ ThreadOK(t) /\ Domains /\ call[t] # NoCall
  BY DEF WInv, WType, LocalType, GetAgain, Goto
<1>9. \/ loc'[t] = loc[t] /\ lvl'[t] = lvl[t]
      \/ loc'[t] = loc[t] /\ lvl'[t] = lvl[t] + 1 /\ call[t].op = "get"
      \/ loc'[t] = Append(loc[t], pos(t)) /\ lvl'[t] = lvl[t] + 1 /\ At(t) = Array
  BY <1>1 DEF Domains, ThreadOK, PlaceOK, GetAgain, Goto, Keep, Deeper, NextRound, Miss, Answer
<1>11. lvl[t] < Levels
  BY <1>1 DEF LocalType, GetAgain, Goto, Keep, Deeper, NextRound, Miss, Answer
<1>10. /\ loc'[t] \in DOMAIN tree /\ lvl'[t] \in 0..Levels /\ (lvl'[t] = 0 => loc'[t] = << >>)
       /\ call[t].op # "get" => lvl'[t] < Levels /\ loc'[t] = PathTo(call[t].key, lvl'[t])
  BY <1>1, <1>9, <1>11, Landing
<1>2. At(t) \in Content
  BY <1>1, AtType
<1>3. Calm(t)
  BY <1>1 DEF Calm, Others, Unmoved, Domains, GetAgain, Goto, Keep, history, locals, Deeper,
     NextRound, Miss, Answer
<1>4. LocalType(t)'
  BY <1>1, <1>2, LevelsType, <1>10
       DEF LocalType, Domains, PC, Content, GetAgain, Goto, Keep, history, locals, Deeper,
           NextRound, Miss, Answer
<1>5. MineOK(t)'
  BY <1>1 DEF ThreadOK, MineOK, Domains, GetAgain, Goto, Keep, history, locals, Deeper, NextRound,
     Miss, Answer
<1>6. PlaceOK(t)'
  BY <1>1, <1>2, <1>10 DEF ThreadOK, PlaceOK, Domains, Inserting, Modifying, Reading, Ensuring,
     Expanding, Checking, WithNode, Content, At, pos, GetAgain, Goto, Keep, history, locals,
     Deeper, NextRound, Miss, Answer
<1>7. WatchOK(t)'
  BY <1>1 DEF WatchOK, Uses, Using, Domains, GetAgain, Goto, Keep, history, locals, Deeper,
     NextRound, Miss, Answer
<1>8. ReloadOK(t)'
  BY <1>1, <1>2 DEF ThreadOK, ReloadOK, Domains, At, pos, GetAgain, Goto, Keep, history, locals,
     Deeper, NextRound, Miss, Answer
<1> QED
  BY <1>3, <1>4, <1>5, <1>6, <1>7, <1>8, CalmInv DEF ThreadOK

LEMMA ModifyAgainInv ==
  ASSUME WInv, NEW t \in Thread, ModifyAgain(t)
  PROVE  WInv' /\ Around(t)
<1>1. LocalType(t) /\ ThreadOK(t) /\ Domains /\ call[t] # NoCall
  BY DEF WInv, WType, LocalType, ModifyAgain, Goto
<1>12. call[t].op \in {"insert", "get", "update", "remove"}
  BY <1>1, CallAssumption DEF LocalType
<1>9. \/ loc'[t] = loc[t] /\ lvl'[t] = lvl[t]
      \/ loc'[t] = loc[t] /\ lvl'[t] = lvl[t] + 1 /\ call[t].op = "get"
      \/ loc'[t] = Append(loc[t], pos(t)) /\ lvl'[t] = lvl[t] + 1 /\ At(t) = Array
  BY <1>1 DEF Domains, ThreadOK, PlaceOK, ModifyAgain, Goto, Keep, Deeper, NextRound, Miss, Answer
<1>11. lvl[t] < Levels
  BY <1>1 DEF LocalType, ModifyAgain, Goto, Keep, Deeper, NextRound, Miss, Answer
<1>10. /\ loc'[t] \in DOMAIN tree /\ lvl'[t] \in 0..Levels /\ (lvl'[t] = 0 => loc'[t] = << >>)
       /\ call[t].op # "get" => lvl'[t] < Levels /\ loc'[t] = PathTo(call[t].key, lvl'[t])
  BY <1>1, <1>9, <1>11, Landing
<1>2. At(t) \in Content
  BY <1>1, AtType
<1>3. Calm(t)
  BY <1>1 DEF Calm, Others, Unmoved, Domains, ModifyAgain, Goto, Keep, history, locals, Deeper,
     NextRound, Miss, Answer
<1>4. LocalType(t)'
  BY <1>1, <1>2, LevelsType, <1>10
       DEF LocalType, Domains, PC, Content, ModifyAgain, Goto, Keep, history, locals, Deeper,
           NextRound, Miss, Answer
<1>5. MineOK(t)'
  BY <1>1 DEF ThreadOK, MineOK, Domains, ModifyAgain, Goto, Keep, history, locals, Deeper,
     NextRound, Miss, Answer
<1>6. PlaceOK(t)'
  BY <1>1, <1>12, <1>2, <1>10
       DEF ThreadOK, PlaceOK, Domains, Inserting, Modifying, Reading, Ensuring,
     Expanding, Checking, WithNode, Content, At, pos, ModifyAgain, Goto, Keep, history, locals,
     Deeper, NextRound, Miss, Answer
<1>7. WatchOK(t)'
  <2> SUFFICES ASSUME NEW n \in Node, Uses(t, n)'
               PROVE  /\ watched'[t] = n /\ heap'[n] # Free
                      /\ \A u \in Thread : mine'[u] # n
                      /\ \A u \in Thread : pc'[u] = "s_read" /\ node'[u] = n => t \notin seen'[u]
                      /\ pc'[t] = "i_hash" =>
                            \A l \in 0..lvl'[t] : (Pos(heap[n].key, l))' = (Pos(call[t].key, l))'
    BY DEF WatchOK
  <2>1. At(t) = n /\ watched[t] = n /\ pc'[t] # "s_read"
    BY <1>1 DEF ThreadOK, PlaceOK, Checking, Uses, Using, Domains, ModifyAgain, Goto, Keep,
       history, locals, Deeper, NextRound, Miss, Answer
  <2>2. /\ heap[n] # Free
        /\ \A u \in Thread : ~(pc[u] = "s_read" /\ node[u] = n)
        /\ \A u \in Thread : mine[u] # n
        /\ pc[t] \in Inserting => \A l \in 0..lvl[t] : Pos(heap[n].key, l) = Pos(call[t].key, l)
    BY <1>1, <2>1, Validated DEF Owns
  <2>3. \A u \in Thread : ~(pc'[u] = "s_read" /\ node'[u] = n)
    BY <1>1, <1>3, <2>1, <2>2 DEF Calm, Others, Unmoved
  <2>4. pc'[t] = "i_hash" => pc[t] \in Inserting
    BY <1>1 DEF Inserting, Domains, ModifyAgain, Goto, Keep, history, locals, Deeper, NextRound,
       Miss, Answer
  <2>5. /\ heap' = heap /\ mine' = mine /\ watched' = watched
        /\ pc'[t] = "i_hash" => lvl' = lvl /\ call' = call
    BY <1>1 DEF Domains, ModifyAgain, Goto, Keep, history, locals, Deeper, NextRound, Miss, Answer
  <2> QED
    BY <2>1, <2>2, <2>3, <2>4, <2>5
<1>8. ReloadOK(t)'
  BY <1>1, <1>2 DEF ThreadOK, ReloadOK, Domains, At, pos, ModifyAgain, Goto, Keep, history, locals,
     Deeper, NextRound, Miss, Answer
<1> QED
  BY <1>3, <1>4, <1>5, <1>6, <1>7, <1>8, CalmInv DEF ThreadOK

LEMMA CallInv ==
  ASSUME WInv, NEW t \in Thread, NEW c \in AllCalls, Call(t, c)
  PROVE  WInv' /\ Around(t)
<1>1. LocalType(t) /\ ThreadOK(t) /\ Domains /\ pc[t] = "idle"
  BY DEF WInv, WType, Call, Goto
<1>2. c # NoCall /\ c.op \in {"insert", "get", "update", "remove"}
  BY CallAssumption
<1>3. Calm(t)
  BY <1>1 DEF Calm, Others, Unmoved, Domains, Call, Goto, locals
<1>4. LocalType(t)'
  BY <1>1, <1>2, LevelsType DEF LocalType, Domains, PC, Call, Goto, locals
<1>5. MineOK(t)'
  BY <1>1, <1>2 DEF ThreadOK, MineOK, Domains, Call, Goto, locals
<1>6. loc'[t] = PathTo(call'[t].key, lvl'[t])
  BY <1>1, NoPath DEF LocalType, Domains, Call, Goto, locals
<1>7. PlaceOK(t)'
  BY <1>1, <1>2, <1>6 DEF PlaceOK, Domains, Inserting, Modifying, Reading, Ensuring,
     Expanding, Checking, WithNode, Call, Goto, locals
<1>8. WatchOK(t)' /\ ReloadOK(t)'
  BY <1>1, <1>2 DEF WatchOK, ReloadOK, Uses, Using, Domains, Call, Goto, locals
<1> QED
  BY <1>3, <1>4, <1>5, <1>7, <1>8, CalmInv DEF ThreadOK

LEMMA ClearInv ==
  ASSUME WInv, NEW t \in Thread, Clear(t)
  PROVE  WInv' /\ Around(t)
<1>1. LocalType(t) /\ ThreadOK(t) /\ Domains /\ pc[t] = "clear" /\ mine[t] = Null
  BY DEF WInv, WType, ThreadOK, MineOK, Clear, Goto
<1>2. << >> \in DOMAIN tree
  BY DEF WInv, WType, TreeType
<1>3. Calm(t)
  BY <1>1 DEF Calm, Others, Unmoved, Domains, Clear, Goto
<1>4. LocalType(t)'
  BY <1>1, <1>2, LevelsType DEF LocalType, Domains, PC, Content, Clear, Goto
<1>5. ThreadOK(t)'
  BY <1>1 DEF ThreadOK, MineOK, PlaceOK, WatchOK, ReloadOK, Uses, Using, Domains, Inserting,
     Modifying, Reading, Ensuring, Expanding, Checking, WithNode, Clear, Goto
<1> QED
  BY <1>3, <1>4, <1>5, CalmInv

\* The four places at which insert looks at what it has found
Considering(t) == InsertLoad(t) \/ InsertCheckFails(t) \/ ExpandCheckFails(t) \/ ExpandLast(t)
ConsiderPC == {"insert", "i_check", "x_check", "x_last"}

LEMMA ConsiderStep ==
  ASSUME NEW t \in Thread, Considering(t)
  PROVE  pc[t] \in ConsiderPC /\ InsertConsider(t, At(t))
BY DEF Considering, ConsiderPC, InsertLoad, InsertCheckFails, ExpandCheckFails, ExpandLast

LEMMA Contents == Null # Array /\ Null \notin Node /\ Array \notin Node
BY ContentAssumption

LEMMA ConsiderCalm ==
  ASSUME WInv, NEW t \in Thread, Considering(t), At(t) # Null
  PROVE  WInv' /\ Around(t)
<1>0. pc[t] \in ConsiderPC /\ InsertConsider(t, At(t)) /\ At(t) # Null
  BY ConsiderStep
<1>1. LocalType(t) /\ ThreadOK(t) /\ Domains /\ call[t] # NoCall
  BY <1>0 DEF WInv, WType, LocalType, ConsiderPC
<1>9. \/ loc'[t] = loc[t] /\ lvl'[t] = lvl[t]
      \/ loc'[t] = loc[t] /\ lvl'[t] = lvl[t] + 1 /\ call[t].op = "get"
      \/ loc'[t] = Append(loc[t], pos(t)) /\ lvl'[t] = lvl[t] + 1 /\ At(t) = Array
  BY <1>0, <1>1 DEF Domains, ThreadOK, PlaceOK, InsertConsider, Goto, Keep, Descend, ConsiderPC
<1>11. lvl[t] < Levels
  BY <1>0, <1>1 DEF LocalType, InsertConsider, Goto, Keep, Descend, ConsiderPC
<1>10. /\ loc'[t] \in DOMAIN tree /\ lvl'[t] \in 0..Levels /\ (lvl'[t] = 0 => loc'[t] = << >>)
       /\ call[t].op # "get" => lvl'[t] < Levels /\ loc'[t] = PathTo(call[t].key, lvl'[t])
  BY <1>0, <1>1, <1>9, <1>11, Landing
<1>2. At(t) \in Content
  BY <1>0, <1>1, AtType
<1>3. Calm(t)
  BY <1>0, <1>1 DEF Calm, Others, Unmoved, Domains, InsertConsider, Goto, Keep, history, locals,
     Descend, ConsiderPC
<1>4. LocalType(t)'
  BY <1>0, <1>1, <1>2, LevelsType, <1>10, Contents
       DEF LocalType, ThreadOK, PlaceOK, Inserting, Domains, PC, Content, InsertConsider, Goto,
           Keep, history, locals, Descend, ConsiderPC
<1>5. MineOK(t)'
  BY <1>0, <1>1 DEF ThreadOK, MineOK, Domains, InsertConsider, Goto, Keep, history, locals,
     Descend, ConsiderPC
<1>6. PlaceOK(t)'
  BY <1>0, <1>1, <1>2, <1>10, Contents
       DEF ThreadOK, PlaceOK, Domains, Inserting, Modifying, Reading, Ensuring,
     Expanding, Checking, WithNode, Content, At, pos, InsertConsider, Goto, Keep, history, locals,
     Descend, ConsiderPC
<1>7. WatchOK(t)'
  BY <1>0, <1>1 DEF WatchOK, Uses, Using, Domains, InsertConsider, Goto, Keep, history, locals,
     Descend, ConsiderPC
<1>8. ReloadOK(t)'
  BY <1>0, <1>1, <1>2, Contents
       DEF ThreadOK, ReloadOK, Domains, At, pos, InsertConsider, Goto, Keep, history, locals,
           Descend, ConsiderPC
<1> QED
  BY <1>3, <1>4, <1>5, <1>6, <1>7, <1>8, CalmInv DEF ThreadOK

LEMMA ModifyReadCalm ==
  ASSUME WInv, NEW t \in Thread, ModifyRead(t), heap' = heap, mine' = mine
  PROVE  WInv' /\ Around(t)
<1>1. LocalType(t) /\ ThreadOK(t) /\ Domains /\ call[t] # NoCall
  BY DEF WInv, WType, LocalType, ModifyRead, Goto
<1>2. At(t) \in Content
  BY <1>1, AtType
<1>3. Calm(t)
  BY <1>1 DEF Calm, Others, Unmoved, Domains, ModifyRead, Goto, Keep, history, locals, Answer, Miss
<1>4. LocalType(t)'
  BY <1>1, <1>2, LevelsType
       DEF LocalType, Domains, PC, Content, ModifyRead, Goto, Keep, history, locals, Answer, Miss
<1>5. MineOK(t)'
  BY <1>1, Contents DEF New, ThreadOK, MineOK, Domains, ModifyRead, Goto, Keep, history, locals,
     Answer, Miss
<1>6. PlaceOK(t)'
  BY <1>1, <1>2 DEF ThreadOK, PlaceOK, Domains, Inserting, Modifying, Reading, Ensuring,
     Expanding, Checking, WithNode, Content, At, pos, ModifyRead, Goto, Keep, history, locals,
     Answer, Miss
<1>7. WatchOK(t)'
  BY <1>1 DEF ThreadOK, WatchOK, Uses, Using, Domains, ModifyRead, Goto, Keep, history, locals,
     Answer, Miss
<1>8. ReloadOK(t)'
  BY <1>1, <1>2 DEF ThreadOK, ReloadOK, Domains, At, pos, ModifyRead, Goto, Keep, history, locals,
     Answer, Miss
<1> QED
  BY <1>3, <1>4, <1>5, <1>6, <1>7, <1>8, CalmInv DEF ThreadOK

LEMMA ModifyCasFailsCalm ==
  ASSUME WInv, NEW t \in Thread, ModifyCasFails(t), mine[t] = Null
  PROVE  WInv' /\ Around(t)
<1>1. LocalType(t) /\ ThreadOK(t) /\ Domains /\ call[t] # NoCall
  BY DEF WInv, WType, LocalType, ModifyCasFails, Goto
<1>2. At(t) \in Content
  BY <1>1, AtType
<1>3. Calm(t)
  BY <1>1 DEF Calm, Others, Unmoved, Domains, ModifyCasFails, Goto, Keep, history, locals
<1>4. LocalType(t)'
  BY <1>1, <1>2, LevelsType
       DEF LocalType, Domains, PC, Content, ModifyCasFails, Goto, Keep, history, locals
<1>5. MineOK(t)'
  BY <1>1 DEF ThreadOK, MineOK, Domains, ModifyCasFails, Goto, Keep, history, locals
<1>6. PlaceOK(t)'
  BY <1>1, <1>2 DEF ThreadOK, PlaceOK, Domains, Inserting, Modifying, Reading, Ensuring,
     Expanding, Checking, WithNode, Content, At, pos, ModifyCasFails, Goto, Keep, history, locals
<1>7. WatchOK(t)'
  BY <1>1 DEF WatchOK, Uses, Using, Domains, ModifyCasFails, Goto, Keep, history, locals
<1>8. ReloadOK(t)'
  BY <1>1, <1>2 DEF ThreadOK, ReloadOK, Domains, At, pos, ModifyCasFails, Goto, Keep, history,
     locals
<1> QED
  BY <1>3, <1>4, <1>5, <1>6, <1>7, <1>8, CalmInv DEF ThreadOK

LEMMA ExpandCasCalm ==
  ASSUME WInv, NEW t \in Thread, ExpandCas(t), At(t) # node[t]
  PROVE  WInv' /\ Around(t)
<1>1. LocalType(t) /\ ThreadOK(t) /\ Domains /\ call[t] # NoCall
  BY DEF WInv, WType, LocalType, ExpandCas, Goto
<1>2. At(t) \in Content
  BY <1>1, AtType
<1>3. Calm(t)
  BY <1>1 DEF Calm, Others, Unmoved, Domains, ExpandCas, Goto, Keep, history, locals
<1>4. LocalType(t)'
  BY <1>1, <1>2, LevelsType
       DEF LocalType, Domains, PC, Content, ExpandCas, Goto, Keep, history, locals
<1>5. MineOK(t)'
  BY <1>1 DEF ThreadOK, MineOK, Domains, ExpandCas, Goto, Keep, history, locals
<1>6. PlaceOK(t)'
  BY <1>1, <1>2 DEF ThreadOK, PlaceOK, Domains, Inserting, Modifying, Reading, Ensuring,
     Expanding, Checking, WithNode, Content, At, pos, ExpandCas, Goto, Keep, history, locals
<1>7. WatchOK(t)'
  BY <1>1 DEF WatchOK, Uses, Using, Domains, ExpandCas, Goto, Keep, history, locals
<1>8. ReloadOK(t)'
  BY <1>1, <1>2 DEF ThreadOK, ReloadOK, Domains, At, pos, ExpandCas, Goto, Keep, history, locals
<1> QED
  BY <1>3, <1>4, <1>5, <1>6, <1>7, <1>8, CalmInv DEF ThreadOK

-----------------------------------------------------------------------------
(* The steps that make or delete a node                                    *)

\* Thread t makes node n.
Made(t, n) ==
    /\ tree' = tree /\ n \in Node /\ heap[n] = Free
    /\ heap' = [heap EXCEPT ![n] = [key |-> call[t].key, val |-> call[t].val]]
    /\ mine[t] = Null /\ mine' = [mine EXCEPT ![t] = n]
    /\ Others(t) /\ call[t] # NoCall /\ pc[t] # "s_read" /\ pc'[t] # "s_read"

\* Thread t deletes node n, the only one that it owns.
Lost(t, n) ==
    /\ tree' = tree /\ n \in Node
    /\ heap' = [heap EXCEPT ![n] = Free]
    /\ \A m : Owns(t, m) <=> m = n
    /\ \A m : ~Owns(t, m)'
    /\ mine'[t] = Null
    /\ Others(t) /\ pc'[t] # "s_read"
    /\ \A u \in Thread : u # t => ~Uses(u, n)

LEMMA FreeIsNothing ==
  ASSUME WInv
  PROVE  \A n \in Node : heap[n] = Free => /\ ~InTree(n)
                                           /\ \A u \in Thread : ~Owns(u, n) /\ ~Uses(u, n)
BY DEF WInv, OwnersOK, ThreadOK, WatchOK

\* The nodes in the tree keep what they hold.
LEMMA SamePlaces ==
  ASSUME WInv, tree' = tree, \A n \in Node : InTree(n) => heap'[n] = heap[n]
  PROVE  TreeType' /\ PathsOK' /\ PlacesOK'
<1>1. TreeType' /\ PathsOK'
  BY DEF WInv, WType, TreeType, PathsOK, PathTo, Pos, Width
<1>2. PlacesOK'
  <2> SUFFICES ASSUME NEW p \in DOMAIN tree, NEW i \in DOMAIN tree[p], tree[p][i] \in Node
               PROVE  /\ heap'[tree[p][i]] # Free
                      /\ p = (PathTo(heap[tree[p][i]].key, Len(p)))'
                      /\ i = (Pos(heap[tree[p][i]].key, Len(p)))'
    BY DEF PlacesOK
  <2>1. heap'[tree[p][i]] = heap[tree[p][i]]
    BY DEF InTree
  <2>2. /\ heap[tree[p][i]] # Free
        /\ p = PathTo(heap[tree[p][i]].key, Len(p))
        /\ i = Pos(heap[tree[p][i]].key, Len(p))
    BY DEF WInv, PlacesOK
  <2> QED
    BY <2>1, <2>2 DEF PathTo, Pos
<1> QED
  BY <1>1, <1>2

LEMMA MadeInv ==
  ASSUME WInv, NEW t \in Thread, NEW n \in Node, Made(t, n), LocalType(t)', ThreadOK(t)'
  PROVE  WInv' /\ Around(t)
<1>1. /\ ~InTree(n)
      /\ \A u \in Thread : ~Owns(u, n) /\ ~Uses(u, n)
  BY FreeIsNothing DEF Made
<1>2. Around(t)
  <2>1. TreeGrows(t)
    BY DEF Made, TreeGrows
  <2>2. HeapKept(t)
    <3>1. \A m \in Node : m # n => heap'[m] = heap[m]
      BY DEF Made, WInv, WType, HeapType
    <3>2. mine'[t] = n
      BY DEF Made, WInv, WType, Domains
    <3> QED
      BY <1>1, <3>1, <3>2 DEF HeapKept, Made, Owns
  <2> QED
    BY <2>1, <2>2 DEF Made, Around
<1>3. \A u \in Thread : LocalType(u)' /\ ThreadOK(u)'
  BY <1>2, OtherOK
<1>4. HeapType'
  BY CallAssumption DEF Made, WInv, WType, HeapType, LocalType
<1>5. TreeType' /\ PathsOK' /\ PlacesOK'
  BY <1>1, SamePlaces DEF Made, WInv, WType, HeapType
<1>6. WType'
  BY <1>3, <1>4, <1>5 DEF Made, Others, WType
<1>7. OwnersOK'
  <2>1. \A m : InTree(m)' <=> InTree(m)
    BY DEF Made, InTree
  <2>2. \A m \in Node : (Owns(t, m)' <=> m = n) /\ ~Owns(t, m)
    BY Contents DEF Made, WInv, WType, Domains, Owns
  <2>3. \A u \in Thread, m \in Node : u # t => (Owns(u, m)' <=> Owns(u, m))
    BY DEF Made, Others, Unmoved, Owns
  <2>4. \A m \in Node : heap'[m] # Free <=> heap[m] # Free \/ m = n
    BY <1>4, ContentAssumption, CallAssumption DEF Made, WInv, WType, HeapType, LocalType
  <2>5. \A m \in Node : heap'[m] # Free <=> InTree(m)' \/ \E u \in Thread : Owns(u, m)'
    <3> SUFFICES ASSUME NEW m \in Node
                 PROVE  heap'[m] # Free <=> InTree(m)' \/ \E u \in Thread : Owns(u, m)'
      OBVIOUS
    <3>1. heap[m] # Free <=> InTree(m) \/ \E u \in Thread : Owns(u, m)
      BY DEF WInv, OwnersOK
    <3>2. CASE m = n
      BY <2>2, <2>4, <3>2
    <3>3. CASE m # n
      BY <2>1, <2>2, <2>3, <2>4, <3>1, <3>3
    <3> QED
      BY <3>2, <3>3
  <2>6. \A u \in Thread, m \in Node : Owns(u, m)' => ~InTree(m)'
    BY <1>1, <2>1, <2>2, <2>3 DEF WInv, OwnersOK
  <2>7. \A u, w \in Thread, m \in Node : Owns(u, m)' /\ Owns(w, m)' => u = w
    BY <1>1, <2>2, <2>3 DEF WInv, OwnersOK
  <2> QED
    BY <2>5, <2>6, <2>7 DEF OwnersOK
<1> QED
  BY <1>2, <1>3, <1>5, <1>6, <1>7 DEF WInv

LEMMA LostInv ==
  ASSUME WInv, NEW t \in Thread, NEW n \in Node, Lost(t, n), LocalType(t)', ThreadOK(t)'
  PROVE  WInv' /\ Around(t)
<1>1. Owns(t, n) /\ ~InTree(n) /\ \A u \in Thread : u # t => ~Owns(u, n) /\ ~Uses(u, n)
  BY DEF Lost, WInv, OwnersOK
<1>2. Around(t)
  <2>1. TreeGrows(t)
    BY DEF Lost, TreeGrows
  <2>2. HeapKept(t)
    <3>1. \A m \in Node : m # n => heap'[m] = heap[m]
      BY DEF Lost, WInv, WType, HeapType
    <3> QED
      BY <1>1, <3>1, Contents DEF HeapKept, Lost, Owns
  <2> QED
    BY <2>1, <2>2 DEF Lost, Around
<1>3. \A u \in Thread : LocalType(u)' /\ ThreadOK(u)'
  BY <1>2, OtherOK
<1>4. HeapType'
  BY DEF Lost, WInv, WType, HeapType
<1>5. TreeType' /\ PathsOK' /\ PlacesOK'
  BY <1>1, SamePlaces DEF Lost, WInv, WType, HeapType
<1>6. WType'
  BY <1>3, <1>4, <1>5 DEF Lost, Others, WType
<1>7. OwnersOK'
  <2>1. \A m : InTree(m)' <=> InTree(m)
    BY DEF Lost, InTree
  <2>2. \A m \in Node : ~Owns(t, m)' /\ (Owns(t, m) <=> m = n)
    BY DEF Lost
  <2>3. \A u \in Thread, m \in Node : u # t => (Owns(u, m)' <=> Owns(u, m))
    BY DEF Lost, Others, Unmoved, Owns
  <2>4. \A m \in Node : heap'[m] # Free <=> heap[m] # Free /\ m # n
    BY DEF Lost, WInv, WType, HeapType
  <2>5. \A m \in Node : heap'[m] # Free <=> InTree(m)' \/ \E u \in Thread : Owns(u, m)'
    <3> SUFFICES ASSUME NEW m \in Node
                 PROVE  heap'[m] # Free <=> InTree(m)' \/ \E u \in Thread : Owns(u, m)'
      OBVIOUS
    <3>1. heap[m] # Free <=> InTree(m) \/ \E u \in Thread : Owns(u, m)
      BY DEF WInv, OwnersOK
    <3>2. CASE m = n
      BY <1>1, <2>1, <2>2, <2>3, <2>4, <3>2
    <3>3. CASE m # n
      BY <2>1, <2>2, <2>3, <2>4, <3>1, <3>3
    <3> QED
      BY <3>2, <3>3
  <2>6. \A u \in Thread, m \in Node : Owns(u, m)' => ~InTree(m)'
    BY <2>1, <2>2, <2>3 DEF WInv, OwnersOK
  <2>7. \A u, w \in Thread, m \in Node : Owns(u, m)' /\ Owns(w, m)' => u = w
    BY <2>2, <2>3 DEF WInv, OwnersOK
  <2> QED
    BY <2>5, <2>6, <2>7 DEF OwnersOK
<1> QED
  BY <1>2, <1>3, <1>5, <1>6, <1>7 DEF WInv

LEMMA ConsiderNew ==
  ASSUME WInv, NEW t \in Thread, Considering(t), At(t) = Null
  PROVE  WInv' /\ Around(t)
<1>0. pc[t] \in ConsiderPC /\ InsertConsider(t, At(t))
  BY ConsiderStep
<1>1. LocalType(t) /\ ThreadOK(t) /\ Domains /\ call[t] # NoCall
  BY <1>0 DEF WInv, WType, LocalType, ConsiderPC
<1>2. /\ node' = [node EXCEPT ![t] = Null] /\ pc' = [pc EXCEPT ![t] = "i_cas"]
      /\ UNCHANGED <<loc, lvl, tree, watched, size, role, seen, history>>
      /\ \E n \in Node : New(t, n)
  BY <1>0, Contents DEF InsertConsider
<1>3. PICK n \in Node : New(t, n)
  BY <1>2
<1>4. mine[t] = Null /\ call[t].op = "insert" /\ lvl[t] < Levels
  BY <1>0, <1>1 DEF ThreadOK, MineOK, PlaceOK, ConsiderPC, Inserting, LocalType
<1>5. Made(t, n)
  BY <1>0, <1>1, <1>2, <1>3, <1>4 DEF Made, New, Others, Unmoved, Domains, ConsiderPC, history
<1>6. LocalType(t)'
  BY <1>1, <1>2, <1>3, <1>4 DEF LocalType, Domains, New, history, PC, Content
<1>7. ThreadOK(t)'
  <2>1. MineOK(t)'
    <3>1. heap'[n].key = call[t].key
      BY <1>3 DEF New, WInv, WType, HeapType
    <3> QED
      BY <1>1, <1>2, <1>3, <3>1, Contents DEF MineOK, Domains, New, history
  <2>2. PlaceOK(t)'
    BY <1>1, <1>2, <1>4 DEF ThreadOK, PlaceOK, Domains, history, Inserting, Modifying, Reading,
       Ensuring, Expanding, Checking, WithNode
  <2>3. WatchOK(t)' /\ ReloadOK(t)'
    BY <1>1, <1>2 DEF WatchOK, ReloadOK, Uses, Using, Domains, At, pos, history
  <2> QED
    BY <2>1, <2>2, <2>3 DEF ThreadOK
<1> QED
  BY <1>5, <1>6, <1>7, MadeInv

LEMMA ConsiderInv ==
  ASSUME WInv, NEW t \in Thread, Considering(t)
  PROVE  WInv' /\ Around(t)
BY ConsiderCalm, ConsiderNew

LEMMA ModifyReadInv ==
  ASSUME WInv, NEW t \in Thread, ModifyRead(t)
  PROVE  WInv' /\ Around(t)
<1> SUFFICES ASSUME ~(heap' = heap /\ mine' = mine) PROVE WInv' /\ Around(t)
  BY ModifyReadCalm
<1>1. /\ LocalType(t) /\ ThreadOK(t) /\ Domains /\ call[t] # NoCall
      /\ pc[t] = "m_read" /\ node[t] \in Node
  BY DEF WInv, WType, LocalType, ModifyRead
<1>2. /\ pc' = [pc EXCEPT ![t] = "m_cas"]
      /\ UNCHANGED <<loc, lvl, tree, watched, size, role, seen, node, call>>
      /\ \E n \in Node : New(t, n)
  BY DEF ModifyRead
<1>3. PICK n \in Node : New(t, n)
  BY <1>2
<1>4. mine[t] = Null /\ call[t].op \in {"update", "remove"} /\ lvl[t] < Levels
  BY <1>1 DEF ThreadOK, MineOK, PlaceOK, Modifying, LocalType
<1>5. Made(t, n)
  BY <1>1, <1>2, <1>3, <1>4 DEF Made, New, Others, Unmoved, Domains
<1>6. LocalType(t)'
  BY <1>1, <1>2, <1>3, <1>4 DEF LocalType, Domains, New, PC, Content
<1>7. ThreadOK(t)'
  <2>1. MineOK(t)'
    <3>1. heap'[n].key = call[t].key
      BY <1>3 DEF New, WInv, WType, HeapType
    <3> QED
      BY <1>1, <1>2, <1>3, <3>1, Contents DEF MineOK, Domains, New
  <2>2. PlaceOK(t)'
    BY <1>1, <1>2, <1>4 DEF ThreadOK, PlaceOK, Domains, Inserting, Modifying, Reading,
       Ensuring, Expanding, Checking, WithNode
  <2>3. WatchOK(t)'
    <3>1. Uses(t, node[t])
      BY <1>1 DEF Uses, Using
    <3>2. /\ watched[t] = node[t] /\ heap[node[t]] # Free
          /\ \A u \in Thread : mine[u] # node[t]
          /\ \A u \in Thread : pc[u] = "s_read" /\ node[u] = node[t] => t \notin seen[u]
      BY <1>1, <3>1 DEF ThreadOK, WatchOK
    <3>3. node[t] # n /\ heap'[node[t]] = heap[node[t]]
      BY <1>1, <1>3, <3>2 DEF New, WInv, WType, HeapType
    <3>4. \A u \in Thread : mine'[u] # node[t]
      BY <1>1, <1>3, <3>2, <3>3 DEF New, Domains
    <3>5. \A u \in Thread : pc'[u] = "s_read" /\ node'[u] = node[t] => t \notin seen'[u]
      BY <1>1, <1>2, <3>2 DEF Domains
    <3> QED
      BY <1>1, <1>2, <3>2, <3>3, <3>4, <3>5 DEF WatchOK, Uses, Domains
  <2>4. ReloadOK(t)'
    BY <1>1, <1>2 DEF ReloadOK, Domains
  <2> QED
    BY <2>1, <2>2, <2>3, <2>4 DEF ThreadOK
<1> QED
  BY <1>5, <1>6, <1>7, MadeInv

LEMMA DeleteMineLoses ==
  ASSUME WInv, NEW t \in Thread, DeleteMine(t), mine[t] # Null, tree' = tree, Others(t),
         pc'[t] # "s_read"
  PROVE  mine[t] \in Node /\ Lost(t, mine[t])
<1>1. mine[t] \in Node /\ mine'[t] = Null /\ pc[t] # "s_read"
  BY DEF WInv, WType, LocalType, Domains, ThreadOK, MineOK, DeleteMine
<1>2. \A u \in Thread : u # t => ~Uses(u, mine[t])
  BY <1>1 DEF WInv, ThreadOK, WatchOK
<1> QED
  BY <1>1, <1>2, Contents DEF Lost, Owns, DeleteMine

LEMMA InsertCasFailsInv ==
  ASSUME WInv, NEW t \in Thread, InsertCasFails(t)
  PROVE  WInv' /\ Around(t)
<1>1. /\ LocalType(t) /\ ThreadOK(t) /\ Domains /\ call[t] # NoCall
      /\ pc[t] = "i_cas" /\ mine[t] # Null /\ At(t) # Null
  BY DEF WInv, WType, LocalType, ThreadOK, MineOK, InsertCasFails, Goto
<1>2. /\ pc' = [pc EXCEPT ![t] = "i_reload"] /\ mine' = [mine EXCEPT ![t] = Null]
      /\ DeleteMine(t)
      /\ UNCHANGED <<tree, watched, size, role, loc, lvl, node, seen, call>>
  BY DEF InsertCasFails, DeleteMine, Goto, history
<1>3. Others(t) /\ pc'[t] = "i_reload" /\ mine'[t] = Null
  BY <1>1, <1>2 DEF Others, Unmoved, Domains
<1>4. mine[t] \in Node /\ Lost(t, mine[t])
  BY <1>1, <1>2, <1>3, DeleteMineLoses
<1>5. LocalType(t)'
  BY <1>1, <1>2, <1>3 DEF LocalType, Domains, PC
<1>6. ThreadOK(t)'
  BY <1>1, <1>2, <1>3 DEF ThreadOK, MineOK, PlaceOK, WatchOK, ReloadOK, Uses, Using, Domains,
     Inserting, Modifying, Reading, Ensuring, Expanding, Checking, WithNode, At, pos
<1> QED
  BY <1>4, <1>5, <1>6, LostInv

LEMMA ModifyCasFailsInv ==
  ASSUME WInv, NEW t \in Thread, ModifyCasFails(t)
  PROVE  WInv' /\ Around(t)
<1> SUFFICES ASSUME mine[t] # Null PROVE WInv' /\ Around(t)
  BY ModifyCasFailsCalm
<1>1. LocalType(t) /\ ThreadOK(t) /\ Domains /\ call[t] # NoCall /\ pc[t] = "m_cas"
  BY DEF WInv, WType, LocalType, ModifyCasFails, Goto
<1>2. /\ pc' = [pc EXCEPT ![t] = "m_reload"] /\ mine' = [mine EXCEPT ![t] = Null]
      /\ DeleteMine(t)
      /\ UNCHANGED <<tree, watched, size, role, loc, lvl, node, seen, call>>
  BY DEF ModifyCasFails, DeleteMine, Goto, history
<1>3. Others(t) /\ pc'[t] = "m_reload" /\ mine'[t] = Null
  BY <1>1, <1>2 DEF Others, Unmoved, Domains
<1>4. mine[t] \in Node /\ Lost(t, mine[t])
  BY <1>1, <1>2, <1>3, DeleteMineLoses
<1>5. LocalType(t)'
  BY <1>1, <1>2, <1>3 DEF LocalType, Domains, PC
<1>6. ThreadOK(t)'
  BY <1>1, <1>2, <1>3 DEF ThreadOK, MineOK, PlaceOK, WatchOK, ReloadOK, Uses, Using, Domains,
     Inserting, Modifying, Reading, Ensuring, Expanding, Checking, WithNode
<1> QED
  BY <1>4, <1>5, <1>6, LostInv

\* safe_delete: the thread has seen of every other that it does not watch the node.
LEMMA SafeDeleteInv ==
  ASSUME WInv, NEW t \in Thread, SafeDelete(t)
  PROVE  WInv' /\ Around(t)
<1>1. /\ LocalType(t) /\ ThreadOK(t) /\ Domains /\ call[t] # NoCall
      /\ pc[t] = "s_read" /\ seen[t] = Thread /\ mine[t] = Null /\ node[t] \in Node
  BY DEF WInv, WType, LocalType, ThreadOK, MineOK, PlaceOK, WithNode, SafeDelete
<1>2. /\ pc' = [pc EXCEPT ![t] = "clear"]
      /\ heap' = [heap EXCEPT ![node[t]] = Free]
      /\ seen' = [seen EXCEPT ![t] = {}]
      /\ UNCHANGED <<tree, watched, size, role, loc, lvl, node, mine, call>>
  BY DEF SafeDelete, Answer
<1>3. Others(t) /\ pc'[t] = "clear" /\ mine'[t] = Null
  BY <1>1, <1>2 DEF Others, Unmoved, Domains
<1>4. Lost(t, node[t])
  <2>1. \A u \in Thread : ~Uses(u, node[t])
    BY <1>1 DEF WInv, ThreadOK, WatchOK
  <2> QED
    BY <1>1, <1>2, <1>3, <2>1, Contents DEF Lost, Owns
<1>5. LocalType(t)'
  BY <1>1, <1>2, <1>3 DEF LocalType, Domains, PC
<1>6. ThreadOK(t)'
  BY <1>1, <1>2, <1>3 DEF ThreadOK, MineOK, PlaceOK, WatchOK, ReloadOK, Uses, Using, Domains,
     Inserting, Modifying, Reading, Ensuring, Expanding, Checking, WithNode
<1> QED
  BY <1>1, <1>4, <1>5, <1>6, LostInv

-----------------------------------------------------------------------------
(* The steps that change the tree                                          *)

\* An array is named by the path of a key, and its length is a level.
LEMMA ArrayPath ==
  ASSUME WInv, NEW p \in DOMAIN tree
  PROVE  Len(p) \in 0..(Levels - 1) /\ \E k \in Key : p = PathTo(k, Len(p))
<1>1. PICK k \in Key, l \in 0..(Levels - 1) : p = PathTo(k, l)
  BY DEF WInv, WType, TreeType
<1>2. Len(p) = l
  BY <1>1, LevelsType, PathType
<1> QED
  BY <1>1, <1>2

\* A node is in the tree once.
LEMMA OnePlace ==
  ASSUME WInv, NEW p \in DOMAIN tree, NEW i \in DOMAIN tree[p],
         NEW q \in DOMAIN tree, NEW j \in DOMAIN tree[q],
         tree[p][i] \in Node, tree[q][j] = tree[p][i]
  PROVE  p = q /\ i = j
<1> DEFINE k == heap[tree[p][i]].key
<1>1. /\ k \in Key
      /\ p = PathTo(k, Len(p)) /\ i = Pos(k, Len(p))
      /\ q = PathTo(k, Len(q)) /\ j = Pos(k, Len(q))
  BY DEF WInv, WType, HeapType, PlacesOK
<1>2. Len(p) \in 0..(Levels - 1) /\ Len(q) \in 0..(Levels - 1)
  BY ArrayPath
<1>3. ~(Len(p) < Len(q))
  <2>1. Len(p) < Len(q) => tree[PathTo(k, Len(p))][Pos(k, Len(p))] = Array
    BY <1>1, <1>2 DEF WInv, PathsOK
  <2> HIDE DEF k
  <2> QED
    BY <1>1, <2>1, Contents
<1>4. ~(Len(q) < Len(p))
  <2>1. Len(q) < Len(p) => tree[PathTo(k, Len(q))][Pos(k, Len(q))] = Array
    BY <1>1, <1>2 DEF WInv, PathsOK
  <2> HIDE DEF k
  <2> QED
    BY <1>1, <2>1, Contents
<1>5. Len(p) = Len(q)
  BY <1>2, <1>3, <1>4, LevelsType
<1> HIDE DEF k
<1> QED
  BY <1>1, <1>5

\* The position of a key is one of the array that its path leads to.
LEMMA KeyPlace ==
  ASSUME WInv, NEW k \in Key, NEW l \in 0..(Levels - 1), PathTo(k, l) \in DOMAIN tree
  PROVE  Pos(k, l) \in DOMAIN tree[PathTo(k, l)]
<1>1. Pos(k, l) \in Nat /\ Pos(k, l) < 2 ^ ArrayLength /\ (l > 0 => Pos(k, l) < ArrayLength)
  BY LevelsType, PosType
<1>2. DOMAIN tree[PathTo(k, l)] = 0..(Width(PathTo(k, l)) - 1)
  BY DEF WInv, WType, TreeType
<1>3. l = 0 => PathTo(k, l) = << >>
  BY NoPath
<1>4. Pos(k, l) < Width(PathTo(k, l)) /\ Width(PathTo(k, l)) \in Nat
  BY <1>1, <1>3, LevelsType, Lengths DEF Width
<1> QED
  BY <1>1, <1>2, <1>4

\* Thread t puts its new node, or nothing, in the place that it looks at.
Placed(t) ==
    /\ Put(t, mine[t]) /\ heap' = heap /\ mine' = [mine EXCEPT ![t] = Null]
    /\ Others(t) /\ call[t] # NoCall /\ lvl[t] < Levels
    /\ loc[t] = PathTo(call[t].key, lvl[t]) /\ At(t) # Array
    /\ mine[t] # Null => heap[mine[t]].key = call[t].key
    /\ call[t] \in Roles[role][t]
    /\ mine[t] = Null => call[t].op = "remove"
    /\ At(t) = Null => call[t].op = "insert"

LEMMA PutPlace ==
  ASSUME WInv, NEW t \in Thread, Placed(t)
  PROVE  /\ loc[t] \in DOMAIN tree /\ pos(t) \in DOMAIN tree[loc[t]]
         /\ DOMAIN tree' = DOMAIN tree
         /\ \A p \in DOMAIN tree : DOMAIN tree'[p] = DOMAIN tree[p]
         /\ \A p \in DOMAIN tree : \A i \in DOMAIN tree[p] :
               tree'[p][i] = IF p = loc[t] /\ i = pos(t) THEN mine[t] ELSE tree[p][i]
         /\ mine[t] \in Node \union {Null}
<1>1. loc[t] \in DOMAIN tree /\ pos(t) \in DOMAIN tree[loc[t]] /\ mine[t] \in Node \union {Null}
  BY PosInTree DEF WInv, WType, LocalType, Placed
<1>2. tree' = [tree EXCEPT ![loc[t]][pos(t)] = mine[t]]
  BY DEF Placed, Put
<1> QED
  BY <1>1, <1>2

LEMMA PutTree ==
  ASSUME WInv, NEW t \in Thread, Placed(t)
  PROVE  TreeType' /\ PathsOK' /\ PlacesOK' /\ TreeGrows(t)
<1>1. /\ loc[t] \in DOMAIN tree /\ pos(t) \in DOMAIN tree[loc[t]]
      /\ DOMAIN tree' = DOMAIN tree
      /\ \A p \in DOMAIN tree : DOMAIN tree'[p] = DOMAIN tree[p]
      /\ \A p \in DOMAIN tree : \A i \in DOMAIN tree[p] :
            tree'[p][i] = IF p = loc[t] /\ i = pos(t) THEN mine[t] ELSE tree[p][i]
      /\ mine[t] \in Node \union {Null}
      /\ At(t) = tree[loc[t]][pos(t)] /\ At(t) # Array
  BY PutPlace DEF At, Placed
<1>2. TreeType'
  <2> SUFFICES ASSUME NEW p \in DOMAIN tree
               PROVE  /\ (\E k \in Key, l \in 0..(Levels - 1) : p = PathTo(k, l))'
                      /\ tree'[p] \in [0..(Width(p) - 1) -> Content]
    BY <1>1 DEF TreeType, WInv, WType, Width
  <2>1. /\ \E k \in Key, l \in 0..(Levels - 1) : p = PathTo(k, l)
        /\ tree[p] \in [0..(Width(p) - 1) -> Content]
    BY DEF TreeType, WInv, WType
  <2>2. tree'[p] \in [0..(Width(p) - 1) -> Content]
    <3>1. CASE p = loc[t]
      <4>1. tree'[p] = [tree[p] EXCEPT ![pos(t)] = mine[t]]
        BY <1>1, <3>1 DEF Placed, Put
      <4>2. pos(t) \in 0..(Width(p) - 1) /\ mine[t] \in Content
        BY <1>1, <2>1, <3>1 DEF Content
      <4> QED
        BY <2>1, <4>1, <4>2
    <3>2. CASE p # loc[t]
      <4>1. tree'[p] = tree[p]
        BY <1>1, <3>2 DEF Placed, Put
      <4> QED
        BY <2>1, <4>1
    <3> QED
      BY <3>1, <3>2
  <2> QED
    BY <2>1, <2>2 DEF PathTo, Pos
<1>3. \A p \in DOMAIN tree : \A i \in DOMAIN tree[p] : tree'[p][i] = Array <=> tree[p][i] = Array
  BY <1>1, Contents
<1>4. PathsOK'
  <2>1. \A p \in DOMAIN tree' : \A i \in DOMAIN tree'[p] :
           tree'[p][i] = Array => Append(p, i) \in DOMAIN tree'
    BY <1>1, <1>3 DEF WInv, PathsOK
  <2>2. \A k \in Key, l \in 0..(Levels - 1), m \in 0..(Levels - 1) :
           PathTo(k, l) \in DOMAIN tree' /\ m < l =>
              PathTo(k, m) \in DOMAIN tree' /\ tree'[PathTo(k, m)][Pos(k, m)] = Array
    <3> SUFFICES ASSUME NEW k \in Key, NEW l \in 0..(Levels - 1), NEW m \in 0..(Levels - 1),
                        PathTo(k, l) \in DOMAIN tree', m < l
                 PROVE  PathTo(k, m) \in DOMAIN tree' /\ tree'[PathTo(k, m)][Pos(k, m)] = Array
      OBVIOUS
    <3>1. PathTo(k, m) \in DOMAIN tree /\ tree[PathTo(k, m)][Pos(k, m)] = Array
      BY <1>1 DEF WInv, PathsOK
    <3>2. Pos(k, m) \in DOMAIN tree[PathTo(k, m)]
      BY <3>1, KeyPlace
    <3> QED
      BY <1>1, <1>3, <3>1, <3>2
  <2> QED
    BY <2>1, <2>2 DEF PathsOK, PathTo, Pos
<1>5. PlacesOK'
  <2> SUFFICES ASSUME NEW p \in DOMAIN tree, NEW i \in DOMAIN tree[p], tree'[p][i] \in Node
               PROVE  /\ heap[tree'[p][i]] # Free
                      /\ p = PathTo(heap[tree'[p][i]].key, Len(p))
                      /\ i = Pos(heap[tree'[p][i]].key, Len(p))
    BY <1>1 DEF PlacesOK, Placed, PathTo, Pos
  <2>1. CASE ~(p = loc[t] /\ i = pos(t))
    BY <1>1, <2>1 DEF WInv, PlacesOK
  <2>2. CASE p = loc[t] /\ i = pos(t)
    <3>1. tree'[p][i] = mine[t] /\ mine[t] \in Node
      BY <1>1, <2>2
    <3>2. heap[mine[t]] # Free /\ heap[mine[t]].key = call[t].key
      BY <3>1, Contents DEF Placed, WInv, OwnersOK, Owns
    <3>3. call[t].key \in Key /\ lvl[t] \in 0..Levels
      BY CallAssumption DEF Placed, WInv, WType, LocalType
    <3>4. Len(p) = lvl[t]
      BY <2>2, <3>3, PathType DEF Placed
    <3> QED
      BY <2>2, <3>1, <3>2, <3>4 DEF Placed, pos
  <2> QED
    BY <2>1, <2>2
<1>6. TreeGrows(t)
  <2>1. NeverRemoved(role) => mine[t] # Null
    BY DEF NeverRemoved, Placed
  <2>2. At(t) = Null => call[t].op = "insert" /\ call[t] \in Roles[role][t]
    BY DEF Placed
  <2> QED
    BY <1>1, <1>3, <2>1, <2>2 DEF TreeGrows
<1> QED
  BY <1>2, <1>4, <1>5, <1>6

\* Who owns what after a node has been put in the tree, and another perhaps been
\* replaced by it
LEMMA PutOwners ==
  ASSUME WInv, NEW t \in Thread, Placed(t),
         \A n \in Node : Owns(t, n)' <=> n = At(t),
         \A n \in Node : Owns(t, n) <=> n = mine[t]
  PROVE  OwnersOK'
<1>1. /\ loc[t] \in DOMAIN tree /\ pos(t) \in DOMAIN tree[loc[t]]
      /\ DOMAIN tree' = DOMAIN tree
      /\ \A p \in DOMAIN tree : DOMAIN tree'[p] = DOMAIN tree[p]
      /\ \A p \in DOMAIN tree : \A i \in DOMAIN tree[p] :
            tree'[p][i] = IF p = loc[t] /\ i = pos(t) THEN mine[t] ELSE tree[p][i]
      /\ mine[t] \in Node \union {Null}
      /\ At(t) = tree[loc[t]][pos(t)] /\ At(t) # Array
  BY PutPlace DEF At, Placed
<1>2. \A n \in Node : n = At(t) => InTree(n) /\ n # mine[t]
  BY <1>1 DEF WInv, OwnersOK, InTree
<1>3. \A n \in Node : InTree(n)' <=> n = mine[t] \/ (InTree(n) /\ n # At(t))
  <2> SUFFICES ASSUME NEW n \in Node PROVE InTree(n)' <=> n = mine[t] \/ (InTree(n) /\ n # At(t))
    OBVIOUS
  <2>1. CASE n = mine[t]
    BY <1>1, <2>1 DEF InTree
  <2>2. CASE n # mine[t] /\ n = At(t)
    <3>1. \A p \in DOMAIN tree : \A i \in DOMAIN tree[p] : tree[p][i] = n =>
          p = loc[t] /\ i = pos(t)
      BY <1>1, <2>2, OnePlace
    <3> QED
      BY <1>1, <2>2, <3>1 DEF InTree
  <2>3. CASE n # mine[t] /\ n # At(t)
    BY <1>1, <2>3 DEF InTree
  <2> QED
    BY <2>1, <2>2, <2>3
<1>4. \A u \in Thread, n \in Node : u # t => (Owns(u, n)' <=> Owns(u, n))
  BY DEF Placed, Others, Unmoved, Owns
<1>5. \A n \in Node : heap'[n] # Free <=> InTree(n)' \/ \E u \in Thread : Owns(u, n)'
  <2> SUFFICES ASSUME NEW n \in Node
               PROVE  heap[n] # Free <=> InTree(n)' \/ \E u \in Thread : Owns(u, n)'
    BY DEF Placed
  <2>1. heap[n] # Free <=> InTree(n) \/ \E u \in Thread : Owns(u, n)
    BY DEF WInv, OwnersOK
  <2>2. CASE n = mine[t] \/ n = At(t)
    BY <1>2, <1>3, <2>1, <2>2
  <2>3. CASE n # mine[t] /\ n # At(t)
    BY <1>3, <1>4, <2>1, <2>3
  <2> QED
    BY <2>2, <2>3
<1>6. \A u \in Thread, n \in Node : Owns(u, n)' => ~InTree(n)'
  <2> SUFFICES ASSUME NEW u \in Thread, NEW n \in Node, Owns(u, n)' PROVE ~InTree(n)'
    OBVIOUS
  <2>1. CASE u = t
    BY <1>2, <1>3, <2>1
  <2>2. CASE u # t
    <3>1. ~InTree(n) /\ Owns(u, n) /\ (n = mine[t] => u = t)
      BY <1>4, <2>2 DEF WInv, OwnersOK
    <3> QED
      BY <1>3, <2>2, <3>1
  <2> QED
    BY <2>1, <2>2
<1>7. \A u, w \in Thread, n \in Node : Owns(u, n)' /\ Owns(w, n)' => u = w
  <2> SUFFICES ASSUME NEW u \in Thread, NEW w \in Thread, NEW n \in Node, Owns(u, n)', Owns(w, n)'
               PROVE  u = w
    OBVIOUS
  <2>1. \A v \in Thread : v # t /\ Owns(v, n)' => Owns(v, n) /\ n # At(t)
    BY <1>2, <1>4 DEF WInv, OwnersOK
  <2> QED
    BY <2>1 DEF WInv, OwnersOK
<1> QED
  BY <1>5, <1>6, <1>7 DEF OwnersOK

LEMMA InsertCasInv ==
  ASSUME WInv, NEW t \in Thread, InsertCas(t)
  PROVE  WInv' /\ Around(t)
<1>1. /\ LocalType(t) /\ ThreadOK(t) /\ Domains /\ call[t] # NoCall
      /\ pc[t] = "i_cas" /\ mine[t] # Null /\ At(t) = Null /\ lvl[t] < Levels
      /\ call[t].op = "insert"
  BY DEF WInv, WType, LocalType, ThreadOK, MineOK, PlaceOK, Inserting, InsertCas, Goto
<1>2. /\ pc' = [pc EXCEPT ![t] = "i_count"] /\ mine' = [mine EXCEPT ![t] = Null]
      /\ Put(t, mine[t])
      /\ UNCHANGED <<heap, watched, size, role, loc, lvl, node, seen, call>>
  BY DEF InsertCas, Goto, Effect
<1>3. Others(t) /\ pc'[t] = "i_count" /\ mine'[t] = Null
  BY <1>1, <1>2 DEF Others, Unmoved, Domains
<1>4. Placed(t)
  BY <1>1, <1>2, <1>3, Contents DEF Placed, ThreadOK, MineOK, PlaceOK, LocalType
<1>5. TreeType' /\ PathsOK' /\ PlacesOK' /\ TreeGrows(t)
  BY <1>4, PutTree
<1>6. OwnersOK'
  <2>1. \A n \in Node : ~Owns(t, n)' /\ (Owns(t, n) <=> n = mine[t])
    BY <1>1, <1>3, Contents DEF Owns
  <2> QED
    BY <1>1, <1>4, <2>1, PutOwners, Contents
<1>7. Around(t)
  <2>1. HeapKept(t)
    BY <1>2, <1>3, Contents DEF HeapKept
  <2> QED
    BY <1>3, <1>5, <2>1 DEF Around
<1>8. LocalType(t)'
  BY <1>1, <1>2, <1>3, <1>5 DEF LocalType, TreeGrows, Domains, PC
<1>9. ThreadOK(t)'
  BY <1>1, <1>2, <1>3 DEF ThreadOK, MineOK, PlaceOK, WatchOK, ReloadOK, Uses, Using, Domains,
     Inserting, Modifying, Reading, Ensuring, Expanding, Checking, WithNode
<1>10. \A u \in Thread : LocalType(u)' /\ ThreadOK(u)'
  BY <1>7, <1>8, <1>9, OtherOK
<1>11. WType'
  BY <1>2, <1>3, <1>5, <1>10 DEF WType, Others, HeapType, WInv
<1> QED
  BY <1>5, <1>6, <1>7, <1>10, <1>11 DEF WInv

LEMMA ModifyCasInv ==
  ASSUME WInv, NEW t \in Thread, ModifyCas(t)
  PROVE  WInv' /\ Around(t)
<1>1. /\ LocalType(t) /\ ThreadOK(t) /\ Domains /\ call[t] # NoCall
      /\ pc[t] = "m_cas" /\ At(t) = node[t] /\ node[t] \in Node /\ lvl[t] < Levels
      /\ call[t].op \in {"update", "remove"}
  BY DEF WInv, WType, LocalType, ThreadOK, PlaceOK, Modifying, WithNode, ModifyCas, Goto
<1>2. /\ pc' = [pc EXCEPT ![t] = "s_read"] /\ mine' = [mine EXCEPT ![t] = Null]
      /\ Put(t, mine[t]) /\ seen' = [seen EXCEPT ![t] = {t}]
      /\ UNCHANGED <<heap, watched, size, role, loc, lvl, node, call>>
  BY DEF ModifyCas, Goto, Effect
<1>3. Others(t) /\ pc'[t] = "s_read" /\ mine'[t] = Null /\ seen'[t] = {t} /\ node'[t] = node[t]
  BY <1>1, <1>2 DEF Others, Unmoved, Domains
<1>4. Placed(t)
  <2>1. call[t] \in Roles[role][t] /\ (mine[t] = Null => call[t].op = "remove")
    BY <1>1 DEF ThreadOK, MineOK, LocalType
  <2> QED
    BY <1>1, <1>2, <1>3, <2>1, Contents DEF Placed, ThreadOK, MineOK, PlaceOK
<1>5. TreeType' /\ PathsOK' /\ PlacesOK' /\ TreeGrows(t)
  BY <1>4, PutTree
<1>6. OwnersOK'
  <2>1. \A n \in Node : (Owns(t, n)' <=> n = At(t)) /\ (Owns(t, n) <=> n = mine[t])
    BY <1>1, <1>3, Contents DEF Owns
  <2> QED
    BY <1>4, <2>1, PutOwners
<1>7. Around(t)
  <2>1. HeapKept(t)
    BY <1>2, <1>3, Contents DEF HeapKept
  <2> QED
    BY <1>3, <1>5, <2>1 DEF Around
<1>8. LocalType(t)'
  BY <1>1, <1>2, <1>3, <1>5 DEF LocalType, TreeGrows, Domains, PC
<1>9. ThreadOK(t)'
  BY <1>1, <1>2, <1>3 DEF ThreadOK, MineOK, PlaceOK, WatchOK, ReloadOK, Uses, Using, Domains,
     Inserting, Modifying, Reading, Ensuring, Expanding, Checking, WithNode
<1>10. \A u \in Thread : LocalType(u)' /\ ThreadOK(u)'
  BY <1>7, <1>8, <1>9, OtherOK
<1>11. WType'
  BY <1>2, <1>3, <1>5, <1>10 DEF WType, Others, HeapType, WInv
<1> QED
  BY <1>5, <1>6, <1>7, <1>10, <1>11 DEF WInv

-----------------------------------------------------------------------------
(* The replacement of a node by an array                                   *)

\* Where the node that is replaced goes
NewArray(t) == Append(loc[t], pos(t))

LEMMA ExpandFacts ==
  ASSUME WInv, NEW t \in Thread, ExpandCas(t), At(t) = node[t]
  PROVE  /\ loc[t] \in DOMAIN tree /\ pos(t) \in DOMAIN tree[loc[t]] /\ pos(t) = Pos(call[t].key, lvl[t])
         /\ call[t].key \in Key /\ heap[node[t]].key \in Key /\ node[t] \in Node
         /\ lvl[t] \in 0..(Levels - 1) /\ lvl[t] + 1 \in 0..(Levels - 1)
         /\ loc[t] = PathTo(call[t].key, lvl[t]) /\ loc[t] = PathTo(heap[node[t]].key, lvl[t])
         /\ pos(t) = Pos(heap[node[t]].key, lvl[t])
         /\ tree[loc[t]][pos(t)] = node[t]
         /\ NewArray(t) = PathTo(call[t].key, lvl[t] + 1)
         /\ NewArray(t) = PathTo(heap[node[t]].key, lvl[t] + 1)
         /\ NewArray(t) \notin DOMAIN tree
<1>1. /\ pc[t] = "x_cas" /\ node[t] \in Node /\ call[t] # NoCall /\ call[t].op = "insert"
      /\ loc[t] = PathTo(call[t].key, lvl[t]) /\ lvl[t] + 1 < Levels
  BY DEF ExpandCas, Goto, WInv, WType, LocalType, ThreadOK, PlaceOK, Inserting, Expanding
<1>2. /\ loc[t] \in DOMAIN tree /\ pos(t) \in DOMAIN tree[loc[t]] /\ call[t].key \in Key
      /\ lvl[t] \in 0..(Levels - 1) /\ lvl[t] + 1 \in 0..(Levels - 1) /\ lvl[t] \in 0..Levels
  BY <1>1, PosInTree, CallAssumption, LevelsType DEF WInv, WType, LocalType
<1>3. tree[loc[t]][pos(t)] = node[t] /\ pos(t) = Pos(call[t].key, lvl[t])
  BY DEF At, pos
<1>4. Len(loc[t]) = lvl[t]
  BY <1>1, <1>2, PathType
<1>5. /\ heap[node[t]] # Free
      /\ loc[t] = PathTo(heap[node[t]].key, lvl[t])
      /\ pos(t) = Pos(heap[node[t]].key, lvl[t])
  BY <1>1, <1>2, <1>3, <1>4 DEF WInv, PlacesOK
<1>6. heap[node[t]].key \in Key
  BY <1>1, <1>5 DEF WInv, WType, HeapType
<1>7. NewArray(t) = PathTo(call[t].key, lvl[t] + 1)
  BY <1>1, <1>2, <1>3, LongerPath DEF NewArray
<1>8. NewArray(t) = PathTo(heap[node[t]].key, lvl[t] + 1)
  BY <1>2, <1>5, <1>6, LongerPath DEF NewArray
<1>9. NewArray(t) \notin DOMAIN tree
  <2> SUFFICES ASSUME NewArray(t) \in DOMAIN tree PROVE FALSE
    OBVIOUS
  <2>1. lvl[t] < lvl[t] + 1
    BY <1>2, LevelsType
  <2>2. tree[PathTo(call[t].key, lvl[t])][Pos(call[t].key, lvl[t])] = Array
    BY <1>2, <1>7, <2>1 DEF WInv, PathsOK
  <2> QED
    BY <1>1, <1>3, <2>2, Contents
<1> QED
  BY <1>1, <1>2, <1>3, <1>5, <1>6, <1>7, <1>8, <1>9

\* The tree after it
LEMMA ExpandPlace ==
  ASSUME WInv, NEW t \in Thread, ExpandCas(t), At(t) = node[t]
  PROVE  /\ DOMAIN tree' = DOMAIN tree \union {NewArray(t)}
         /\ \A p \in DOMAIN tree : DOMAIN tree'[p] = DOMAIN tree[p]
         /\ \A p \in DOMAIN tree : \A i \in DOMAIN tree[p] :
               tree'[p][i] = IF p = loc[t] /\ i = pos(t) THEN Array ELSE tree[p][i]
         /\ tree'[NewArray(t)] = [i \in 0..(ArrayLength - 1) |->
                IF i = Pos(heap[node[t]].key, lvl[t] + 1) THEN node[t] ELSE Null]
<1>1. /\ loc[t] \in DOMAIN tree /\ pos(t) \in DOMAIN tree[loc[t]] /\ NewArray(t) \notin DOMAIN tree
      /\ heap[node[t]].key \in Key /\ lvl[t] \in Nat
  BY ExpandFacts, LevelsType
<1>2. NewPos(heap[node[t]].key, lvl[t]) = Pos(heap[node[t]].key, lvl[t] + 1)
  BY <1>1, NewPosIsPos
<1>3. tree' = [q \in DOMAIN tree \union {NewArray(t)} |->
          IF q = NewArray(t)
          THEN [i \in 0..(ArrayLength - 1) |->
                  IF i = Pos(heap[node[t]].key, lvl[t] + 1) THEN node[t] ELSE Null]
          ELSE IF q = loc[t] THEN [tree[q] EXCEPT ![pos(t)] = Array]
          ELSE tree[q]]
  BY <1>2 DEF ExpandCas, Expanded, NewArray
<1>4. \A p \in DOMAIN tree :
         tree'[p] = IF p = loc[t] THEN [tree[p] EXCEPT ![pos(t)] = Array] ELSE tree[p]
  BY <1>1, <1>3
<1>5. tree'[NewArray(t)] = [i \in 0..(ArrayLength - 1) |->
          IF i = Pos(heap[node[t]].key, lvl[t] + 1) THEN node[t] ELSE Null]
  BY <1>3
<1>6. DOMAIN tree' = DOMAIN tree \union {NewArray(t)}
  BY <1>3
<1>7. \A p \in DOMAIN tree : DOMAIN tree'[p] = DOMAIN tree[p]
  BY <1>4
<1>8. \A p \in DOMAIN tree : \A i \in DOMAIN tree[p] :
         tree'[p][i] = IF p = loc[t] /\ i = pos(t) THEN Array ELSE tree[p][i]
  BY <1>4
<1> QED
  BY <1>5, <1>6, <1>7, <1>8

LEMMA ExpandTree ==
  ASSUME WInv, NEW t \in Thread, ExpandCas(t), At(t) = node[t]
  PROVE  TreeType' /\ PathsOK' /\ PlacesOK' /\ TreeGrows(t)
<1> DEFINE q == NewArray(t)
           n == node[t]
           j == Pos(heap[n].key, lvl[t] + 1)
<1>1. /\ loc[t] \in DOMAIN tree /\ pos(t) \in DOMAIN tree[loc[t]] /\ pos(t) = Pos(call[t].key, lvl[t])
      /\ call[t].key \in Key /\ heap[n].key \in Key /\ n \in Node
      /\ lvl[t] \in 0..(Levels - 1) /\ lvl[t] + 1 \in 0..(Levels - 1)
      /\ loc[t] = PathTo(call[t].key, lvl[t])
      /\ tree[loc[t]][pos(t)] = n
      /\ q = PathTo(call[t].key, lvl[t] + 1) /\ q = PathTo(heap[n].key, lvl[t] + 1)
      /\ q \notin DOMAIN tree /\ q = Append(loc[t], pos(t))
  BY ExpandFacts DEF NewArray
<1>2. /\ DOMAIN tree' = DOMAIN tree \union {q}
      /\ \A p \in DOMAIN tree : DOMAIN tree'[p] = DOMAIN tree[p]
      /\ \A p \in DOMAIN tree : \A i \in DOMAIN tree[p] :
            tree'[p][i] = IF p = loc[t] /\ i = pos(t) THEN Array ELSE tree[p][i]
      /\ tree'[q] = [i \in 0..(ArrayLength - 1) |-> IF i = j THEN n ELSE Null]
  BY ExpandPlace
<1>3. heap' = heap
  BY DEF ExpandCas
<1>4. Len(q) = lvl[t] + 1 /\ q # << >>
  BY <1>1, PathType, LevelsType
<1> HIDE DEF q, n, j
<1>5. TreeType'
  <2>1. << >> \in DOMAIN tree'
    BY <1>2 DEF WInv, WType, TreeType
  <2>2. ASSUME NEW p \in DOMAIN tree'
        PROVE  \E k \in Key, l \in 0..(Levels - 1) : p = PathTo(k, l)
    BY <1>1, <1>2 DEF WInv, WType, TreeType
  <2>3. ASSUME NEW p \in DOMAIN tree
        PROVE  tree'[p] \in [0..(Width(p) - 1) -> Content]
    <3>1. tree[p] \in [0..(Width(p) - 1) -> Content]
      BY DEF WInv, WType, TreeType
    <3>2. tree'[p] = IF p = loc[t] THEN [tree[p] EXCEPT ![pos(t)] = Array] ELSE tree[p]
      BY <1>1 DEF ExpandCas, Expanded, q
    <3>3. CASE p = loc[t]
      <4>1. pos(t) \in 0..(Width(p) - 1) /\ Array \in Content
        BY <1>1, <3>1, <3>3 DEF Content
      <4> QED
        BY <3>1, <3>2, <3>3, <4>1
    <3>4. CASE p # loc[t]
      BY <3>1, <3>2, <3>4
    <3> QED
      BY <3>3, <3>4
  <2>4. tree'[q] \in [0..(Width(q) - 1) -> Content]
    <3>1. Width(q) = ArrayLength
      BY <1>4 DEF Width
    <3>2. n \in Content /\ Null \in Content
      BY <1>1 DEF Content
    <3> QED
      BY <1>2, <3>1, <3>2
  <2>5. \A p \in DOMAIN tree' : tree'[p] \in [0..(Width(p) - 1) -> Content]
    BY <1>2, <2>3, <2>4
  <2> QED
    BY <2>1, <2>2, <2>5 DEF TreeType, Width, PathTo, Pos
<1>6. PathsOK'
  <2>1. \A p \in DOMAIN tree' : \A i \in DOMAIN tree'[p] :
           tree'[p][i] = Array => Append(p, i) \in DOMAIN tree'
    <3> SUFFICES ASSUME NEW p \in DOMAIN tree', NEW i \in DOMAIN tree'[p], tree'[p][i] = Array
                 PROVE  Append(p, i) \in DOMAIN tree'
      OBVIOUS
    <3>1. CASE p = q
      BY <1>1, <1>2, <3>1, Contents
    <3>2. CASE p \in DOMAIN tree /\ p = loc[t] /\ i = pos(t)
      BY <1>1, <1>2, <3>2
    <3>3. CASE p \in DOMAIN tree /\ ~(p = loc[t] /\ i = pos(t))
      BY <1>2, <3>3 DEF WInv, PathsOK
    <3> QED
      BY <1>2, <3>1, <3>2, <3>3
  <2>2. \A k \in Key, l \in 0..(Levels - 1), m \in 0..(Levels - 1) :
           PathTo(k, l) \in DOMAIN tree' /\ m < l =>
              PathTo(k, m) \in DOMAIN tree' /\ tree'[PathTo(k, m)][Pos(k, m)] = Array
    <3> SUFFICES ASSUME NEW k \in Key, NEW l \in 0..(Levels - 1), NEW m \in 0..(Levels - 1),
                        PathTo(k, l) \in DOMAIN tree', m < l
                 PROVE  PathTo(k, m) \in DOMAIN tree' /\ tree'[PathTo(k, m)][Pos(k, m)] = Array
      OBVIOUS
    <3>1. ASSUME PathTo(k, m) \in DOMAIN tree, tree[PathTo(k, m)][Pos(k, m)] = Array
          PROVE  PathTo(k, m) \in DOMAIN tree' /\ tree'[PathTo(k, m)][Pos(k, m)] = Array
      <4>1. Pos(k, m) \in DOMAIN tree[PathTo(k, m)]
        BY <3>1, KeyPlace
      <4> QED
        BY <1>2, <3>1, <4>1
    <3>2. CASE PathTo(k, l) \in DOMAIN tree
      BY <3>1, <3>2 DEF WInv, PathsOK
    <3>3. CASE PathTo(k, l) = q
      <4>1. l \in 0..Levels /\ lvl[t] + 1 \in 0..Levels
        BY <1>1, LevelsType
      <4>2. /\ l = lvl[t] + 1
            /\ \A i \in 0..(l - 1) : Pos(k, i) = Pos(call[t].key, i)
            /\ \A i \in 0..l : PathTo(k, i) = PathTo(call[t].key, i)
        BY <1>1, <3>3, <4>1, SamePath
      <4>3. m \in 0..(l - 1) /\ m \in 0..l
        BY LevelsType
      <4>4. Pos(k, m) = Pos(call[t].key, m) /\ PathTo(k, m) = PathTo(call[t].key, m)
        BY <4>2, <4>3
      <4>5. CASE m = lvl[t]
        BY <1>1, <1>2, <4>4, <4>5
      <4>6. CASE m < lvl[t]
        <5>1. /\ PathTo(call[t].key, m) \in DOMAIN tree
              /\ tree[PathTo(call[t].key, m)][Pos(call[t].key, m)] = Array
          BY <1>1, <4>6 DEF WInv, PathsOK
        <5> QED
          BY <3>1, <4>4, <5>1
      <4> QED
        BY <1>1, <4>2, <4>5, <4>6, LevelsType
    <3> QED
      BY <1>2, <3>2, <3>3
  <2> QED
    BY <2>1, <2>2 DEF PathsOK, PathTo, Pos
<1>7. PlacesOK'
  <2> SUFFICES ASSUME NEW p \in DOMAIN tree', NEW i \in DOMAIN tree'[p], tree'[p][i] \in Node
               PROVE  /\ heap[tree'[p][i]] # Free
                      /\ p = PathTo(heap[tree'[p][i]].key, Len(p))
                      /\ i = Pos(heap[tree'[p][i]].key, Len(p))
    BY <1>3 DEF PlacesOK, PathTo, Pos
  <2>1. CASE p \in DOMAIN tree
    <3>1. i \in DOMAIN tree[p] /\ tree'[p][i] = tree[p][i]
      BY <1>2, <2>1, Contents
    <3> QED
      BY <2>1, <3>1 DEF WInv, PlacesOK
  <2>2. CASE p = q
    <3>1. tree'[p][i] = n /\ i = j
      BY <1>2, <2>2, Contents
    <3>2. heap[n] # Free
      BY <1>1 DEF WInv, PlacesOK
    <3> QED
      BY <1>1, <1>4, <2>2, <3>1, <3>2 DEF j
  <2> QED
    BY <1>2, <2>1, <2>2
<1>8. TreeGrows(t)
  BY <1>1, <1>2, Contents DEF TreeGrows
<1> QED
  BY <1>5, <1>6, <1>7, <1>8

LEMMA ExpandNodes ==
  ASSUME WInv, NEW t \in Thread, ExpandCas(t), At(t) = node[t]
  PROVE  \A n \in Node : InTree(n)' <=> InTree(n)
<1>1. /\ loc[t] \in DOMAIN tree /\ pos(t) \in DOMAIN tree[loc[t]]
      /\ heap[node[t]].key \in Key /\ node[t] \in Node /\ lvl[t] + 1 \in 0..Levels /\ lvl[t] + 1 > 0
      /\ tree[loc[t]][pos(t)] = node[t]
  BY ExpandFacts, LevelsType
<1>2. /\ DOMAIN tree' = DOMAIN tree \union {NewArray(t)}
      /\ \A p \in DOMAIN tree : DOMAIN tree'[p] = DOMAIN tree[p]
      /\ \A p \in DOMAIN tree : \A i \in DOMAIN tree[p] :
            tree'[p][i] = IF p = loc[t] /\ i = pos(t) THEN Array ELSE tree[p][i]
      /\ tree'[NewArray(t)] = [i \in 0..(ArrayLength - 1) |->
             IF i = Pos(heap[node[t]].key, lvl[t] + 1) THEN node[t] ELSE Null]
  BY ExpandPlace
<1>3. Pos(heap[node[t]].key, lvl[t] + 1) \in 0..(ArrayLength - 1)
  BY <1>1, PosType, Lengths
<1> SUFFICES ASSUME NEW n \in Node PROVE InTree(n)' <=> InTree(n)
  OBVIOUS
<1>4. CASE n = node[t]
  <2>1. InTree(n)
    BY <1>1, <1>4 DEF InTree
  <2>2. InTree(n)'
    <3>1. NewArray(t) \in DOMAIN tree' /\ Pos(heap[node[t]].key, lvl[t] + 1) \in DOMAIN tree'[NewArray(t)]
      BY <1>2, <1>3
    <3>2. tree'[NewArray(t)][Pos(heap[node[t]].key, lvl[t] + 1)] = node[t]
      BY <1>2, <1>3
    <3> QED
      BY <1>4, <3>1, <3>2 DEF InTree
  <2> QED
    BY <2>1, <2>2
<1>5. CASE n # node[t]
  <2>1. \A p \in DOMAIN tree : \A i \in DOMAIN tree[p] : tree'[p][i] = n <=> tree[p][i] = n
    BY <1>1, <1>2, <1>5, Contents
  <2>2. \A i \in DOMAIN tree'[NewArray(t)] : tree'[NewArray(t)][i] # n
    BY <1>2, <1>5, Contents
  <2>3. ASSUME InTree(n)' PROVE InTree(n)
    <3>1. PICK p \in DOMAIN tree' : \E i \in DOMAIN tree'[p] : tree'[p][i] = n
      BY <2>3 DEF InTree
    <3>2. p \in DOMAIN tree
      BY <1>2, <2>2, <3>1
    <3> QED
      BY <1>2, <2>1, <3>1, <3>2 DEF InTree
  <2>4. ASSUME InTree(n) PROVE InTree(n)'
    <3>1. PICK p \in DOMAIN tree : \E i \in DOMAIN tree[p] : tree[p][i] = n
      BY <2>4 DEF InTree
    <3>2. p \in DOMAIN tree' /\ \E i \in DOMAIN tree'[p] : tree'[p][i] = n
      BY <1>2, <2>1, <3>1
    <3> QED
      BY <3>2 DEF InTree
  <2> QED
    BY <2>3, <2>4
<1> QED
  BY <1>4, <1>5

LEMMA ExpandCasInv ==
  ASSUME WInv, NEW t \in Thread, ExpandCas(t)
  PROVE  WInv' /\ Around(t)
<1> SUFFICES ASSUME At(t) = node[t] PROVE WInv' /\ Around(t)
  BY ExpandCasCalm
<1>1. /\ LocalType(t) /\ ThreadOK(t) /\ Domains /\ call[t] # NoCall /\ pc[t] = "x_cas"
      /\ call[t].op = "insert" /\ lvl[t] < Levels /\ mine[t] = Null
  BY DEF WInv, WType, LocalType, ThreadOK, MineOK, PlaceOK, Inserting, ExpandCas, Goto
<1>2. /\ pc' = [pc EXCEPT ![t] = "x_last"]
      /\ UNCHANGED <<heap, watched, size, role, loc, lvl, node, mine, seen, call>>
  BY DEF ExpandCas, Goto, locals, history
<1>3. Others(t) /\ pc'[t] = "x_last"
  BY <1>1, <1>2 DEF Others, Unmoved, Domains
<1>4. TreeType' /\ PathsOK' /\ PlacesOK' /\ TreeGrows(t)
  BY ExpandTree
<1>5. OwnersOK'
  <2>1. \A n \in Node : InTree(n)' <=> InTree(n)
    BY ExpandNodes
  <2>2. \A n : \A u \in Thread : Owns(u, n)' <=> Owns(u, n)
    BY <1>1, <1>2 DEF Owns, Domains
  <2> QED
    BY <1>2, <2>1, <2>2 DEF WInv, OwnersOK
<1>6. Around(t)
  <2>1. HeapKept(t)
    BY <1>2, <1>3, <1>1, Contents DEF HeapKept
  <2> QED
    BY <1>3, <1>4, <2>1 DEF Around
<1>7. LocalType(t)'
  BY <1>1, <1>2, <1>3, <1>4 DEF LocalType, TreeGrows, Domains, PC
<1>8. ThreadOK(t)'
  BY <1>1, <1>2, <1>3 DEF ThreadOK, MineOK, PlaceOK, WatchOK, ReloadOK, Uses, Using, Domains,
     Inserting, Modifying, Reading, Ensuring, Expanding, Checking, WithNode
<1>9. \A u \in Thread : LocalType(u)' /\ ThreadOK(u)'
  BY <1>6, <1>7, <1>8, OtherOK
<1>10. WType'
  BY <1>2, <1>3, <1>4, <1>9 DEF WType, Others, HeapType, WInv
<1> QED
  BY <1>4, <1>5, <1>6, <1>9, <1>10 DEF WInv

-----------------------------------------------------------------------------
(* The invariant holds                                                     *)

LEMMA InitInv == Init => WInv
<1> SUFFICES ASSUME Init PROVE WInv
  OBVIOUS
<1>1. Levels \in Nat /\ Levels > 0 /\ Null \in Content
  BY LevelsType DEF Content
<1>2. tree = [p \in {<< >>} |-> [i \in 0..(2 ^ ArrayLength - 1) |-> Null]]
  BY DEF Init
<1>3. WType
  <2>1. TreeType
    <3>1. DOMAIN tree = {<< >>} /\ tree[<< >>] = [i \in 0..(2 ^ ArrayLength - 1) |-> Null]
      BY <1>2
    <3>2. Width(<< >>) = 2 ^ ArrayLength
      BY DEF Width
    <3>3. tree[<< >>] \in [0..(Width(<< >>) - 1) -> Content]
      BY <1>1, <3>1, <3>2
    <3>4. \A k \in Key : << >> = PathTo(k, 0)
      BY NoPath
    <3>5. 0 \in 0..(Levels - 1)
      BY <1>1
    <3>6. PICK k : k \in Key
      BY KeyAssumption
    <3>7. \E j \in Key, l \in 0..(Levels - 1) : << >> = PathTo(j, l)
      BY <3>4, <3>5, <3>6
    <3> QED
      BY <3>1, <3>3, <3>7 DEF TreeType
  <2>2. HeapType /\ Domains
    BY DEF Init, HeapType, Domains
  <2>3. << >> \in DOMAIN tree
    BY <1>2
  <2>4. \A t \in Thread : LocalType(t)
    BY <1>1, <2>3, CallAssumption DEF Init, LocalType, PC
  <2> QED
    BY <2>1, <2>2, <2>4 DEF WType
<1>4. \A p \in DOMAIN tree : p = << >> /\ \A i \in DOMAIN tree[p] : tree[p][i] = Null
  BY <1>2
<1>5. PathsOK
  <2>1. ASSUME NEW k \in Key, NEW l \in 0..(Levels - 1), NEW m \in 0..(Levels - 1),
               PathTo(k, l) \in DOMAIN tree, m < l
        PROVE  FALSE
    <3>1. PathTo(k, l) = << >> /\ l \in 0..Levels
      BY <1>1, <1>4, <2>1
    <3>2. Len(<< >>) = l
      BY <3>1, PathType
    <3> QED
      BY <1>1, <2>1, <3>2
  <2> QED
    BY <1>4, <2>1, Contents DEF PathsOK
<1>6. PlacesOK
  BY <1>4, Contents DEF PlacesOK
<1>7. OwnersOK
  BY <1>4, Contents DEF OwnersOK, InTree, Owns, Init
<1>8. \A t \in Thread : ThreadOK(t)
  BY DEF Init, ThreadOK, MineOK, PlaceOK, WatchOK, ReloadOK, Uses, Using, Inserting, Modifying,
     Reading, Ensuring, Expanding, Checking, WithNode
<1> QED
  BY <1>3, <1>5, <1>6, <1>7, <1>8 DEF WInv

LEMMA NextInv == WInv /\ [Next]_vars => WInv'
<1> SUFFICES ASSUME WInv, [Next]_vars PROVE WInv'
  OBVIOUS
<1>1. CASE UNCHANGED vars
  <2>1. WType'
    BY <1>1 DEF WInv, WType, vars, locals, history, TreeType, HeapType, Domains, LocalType, Width,
       PathTo, Pos
  <2>2. PathsOK' /\ PlacesOK' /\ OwnersOK'
    BY <1>1 DEF WInv, vars, locals, PathsOK, PlacesOK, OwnersOK, InTree, Owns
  <2>3. \A t \in Thread : ThreadOK(t)'
    BY <1>1 DEF WInv, vars, locals, history, ThreadOK, MineOK, PlaceOK, WatchOK, ReloadOK, Uses,
       At, pos
  <2> QED
    BY <2>1, <2>2, <2>3 DEF WInv
<1>2. ASSUME NEW t \in Thread, NEW c \in AllCalls, Call(t, c) PROVE WInv'
  BY <1>2, CallInv
<1>3. ASSUME NEW t \in Thread, InsertStep(t) PROVE WInv'
  BY <1>3, ConsiderInv, InsertCasInv, InsertCasFailsInv, InsertCountInv, InsertReloadInv,
     InsertWatchInv, InsertCheckInv, InsertHashInv DEF InsertStep, Considering
<1>4. ASSUME NEW t \in Thread, ExpandStep(t) PROVE WInv'
  BY <1>4, ConsiderInv, ExpandLoadInv, ExpandWatchInv, ExpandCheckInv, ExpandCasInv
     DEF ExpandStep, Considering
<1>5. ASSUME NEW t \in Thread, GetStep(t) PROVE WInv'
  BY <1>5, GetLoadInv, GetWatchInv, GetCheckInv, GetReadInv, GetAgainInv DEF GetStep
<1>6. ASSUME NEW t \in Thread, EnsureStep(t) PROVE WInv'
  BY <1>6, EnsureLoadInv, EnsureWatchInv, EnsureCheckFailsInv DEF EnsureStep
<1>7. ASSUME NEW t \in Thread, ModifyStep(t) PROVE WInv'
  BY <1>7, ModifyLoadInv, ModifyWatchInv, ModifyCheckInv, ModifyAgainInv, ModifyReadInv,
     ModifyCasInv, ModifyCasFailsInv, ModifyReloadInv DEF ModifyStep
<1>8. ASSUME NEW t \in Thread, DeleteStep(t) PROVE WInv'
  BY <1>8, SafeDeleteInv, SafeDeleteReadInv DEF DeleteStep
<1>9. ASSUME NEW t \in Thread, Clear(t) PROVE WInv'
  BY <1>9, ClearInv
<1> QED
  BY <1>1, <1>2, <1>3, <1>4, <1>5, <1>6, <1>7, <1>8, <1>9 DEF Next

\* The invariant holds of every workload.
THEOREM Invariance == Spec => []WInv
<1>1. Init => WInv
  BY InitInv
<1>2. WInv /\ [Next]_vars => WInv'
  BY NextInv
<1> QED
  BY <1>1, <1>2, PTL DEF Spec

\* What a thread is about to read or to delete has not been deleted.
NothingDeleted == \A t \in Thread :
    pc[t] \in {"i_hash", "x_cas", "g_read", "m_read", "s_read"} /\ node[t] \in Node =>
       heap[node[t]] # Free

\* No thread reads a node after it has been deleted, and none is deleted twice, under
\* every workload (watch_node, and the check that follows it, against safe_delete).
THEOREM NoUseAfterDelete == Spec => []NothingDeleted
<1>1. WInv => NothingDeleted
  <2> SUFFICES ASSUME WInv, NEW t \in Thread, node[t] \in Node,
                      pc[t] \in {"i_hash", "x_cas", "g_read", "m_read", "s_read"}
               PROVE  heap[node[t]] # Free
    BY DEF NothingDeleted
  <2>1. CASE pc[t] = "s_read"
    BY <2>1 DEF WInv, OwnersOK, Owns
  <2>2. CASE pc[t] # "s_read"
    BY <2>2 DEF WInv, ThreadOK, WatchOK, Uses, Using
  <2> QED
    BY <2>1, <2>2
<1> QED
  BY <1>1, Invariance, PTL

\* Where nothing is removed or only one thread inserts, a thread that reads a node's
\* fields has a node, and not null, as well.  Without that hypothesis an insert that
\* loses its CAS to another one, and then its node to a remove, goes on with null.
THEOREM MemorySafety ==
  ASSUME \A i \in DOMAIN Roles : NeverRemoved(i) \/ OneInserts(i)
  PROVE  Spec => []MemorySafe
<1>1. Init => role \in DOMAIN Roles
  BY DEF Init
<1>2. role \in DOMAIN Roles /\ [Next]_vars => (role \in DOMAIN Roles)'
  <2> SUFFICES ASSUME role \in DOMAIN Roles, [Next]_vars PROVE role' = role
    OBVIOUS
  <2> QED
    BY DEF Next, vars, Call, InsertStep, ExpandStep, GetStep, EnsureStep, ModifyStep, DeleteStep,
       Clear, InsertLoad, InsertConsider, InsertCas, InsertCasFails, InsertCount, InsertReload,
       InsertWatch, InsertCheck, InsertCheckFails, InsertHash, ExpandLoad, ExpandWatch, ExpandCheck,
       ExpandCheckFails, ExpandCas, ExpandLast, GetLoad, GetWatch, GetCheck, GetRead, GetAgain,
       EnsureLoad, EnsureWatch, EnsureCheckFails, ModifyLoad, ModifyWatch, ModifyCheck,
       ModifyAgain, ModifyRead, ModifyCas, ModifyCasFails, ModifyReload, SafeDelete,
       SafeDeleteRead, Keep, Watch
<1>3. WInv /\ role \in DOMAIN Roles => MemorySafe
  <2> SUFFICES ASSUME WInv, role \in DOMAIN Roles, NEW t \in Thread,
                      pc[t] \in {"i_hash", "x_cas", "g_read", "m_read", "s_read"}
               PROVE  node[t] \in Node /\ heap[node[t]] # Free
    BY DEF MemorySafe
  <2>1. node[t] \in Node
    <3>1. CASE pc[t] = "i_hash"
      BY <3>1 DEF WInv, WType, LocalType, Content, ThreadOK, PlaceOK, ReloadOK
    <3>2. CASE pc[t] # "i_hash"
      BY <3>2 DEF WInv, ThreadOK, PlaceOK, WithNode
    <3> QED
      BY <3>1, <3>2
  <2>2. CASE pc[t] = "s_read"
    BY <2>1, <2>2 DEF WInv, OwnersOK, Owns
  <2>3. CASE pc[t] # "s_read"
    BY <2>1, <2>3 DEF WInv, ThreadOK, WatchOK, Uses, Using
  <2> QED
    BY <2>1, <2>2, <2>3
<1> QED
  BY <1>1, <1>2, <1>3, Invariance, PTL DEF Spec

\* Where the search for key k ends
Home(k, l) == /\ l \in 0..(Levels - 1) /\ PathTo(k, l) \in DOMAIN tree
              /\ tree[PathTo(k, l)][Pos(k, l)] # Array

LEMMA LeafAt ==
  ASSUME WInv, NEW k \in Key, NEW l, Home(k, l)
  PROVE  Leaf(k) = tree[PathTo(k, l)][Pos(k, l)]
<1> DEFINE Last(m) == PathTo(k, m) \in DOMAIN tree /\ PathTo(k, m + 1) \notin DOMAIN tree
<1>1. l \in 0..(Levels - 1) /\ Levels \in Nat
  BY LevelsType DEF Home
<1>2. \A m \in 0..Levels : PathTo(k, m) \in DOMAIN tree => m \in 0..(Levels - 1)
  <2> SUFFICES ASSUME NEW m \in 0..Levels, PathTo(k, m) \in DOMAIN tree
               PROVE  m \in 0..(Levels - 1)
    OBVIOUS
  <2>1. Len(PathTo(k, m)) \in 0..(Levels - 1)
    BY ArrayPath
  <2>2. Len(PathTo(k, m)) = m
    BY PathType
  <2> QED
    BY <2>1, <2>2
<1>3. \A m \in 0..(Levels - 1) : PathTo(k, m) \in DOMAIN tree => m <= l
  <2> SUFFICES ASSUME NEW m \in 0..(Levels - 1), PathTo(k, m) \in DOMAIN tree, l < m PROVE FALSE
    BY <1>1
  <2>1. tree[PathTo(k, l)][Pos(k, l)] = Array
    BY <1>1 DEF WInv, PathsOK
  <2> QED
    BY <2>1 DEF Home
<1>4. l \in 0..Levels /\ Last(l)
  <2>1. l + 1 \in 0..Levels
    BY <1>1
  <2>2. PathTo(k, l + 1) \notin DOMAIN tree
    BY <1>1, <1>2, <1>3, <2>1
  <2> QED
    BY <1>1, <2>2 DEF Home
<1>5. \A m \in 0..Levels : Last(m) => m = l
  <2> SUFFICES ASSUME NEW m \in 0..Levels, Last(m), m # l PROVE FALSE
    OBVIOUS
  <2>1. m \in 0..(Levels - 1) /\ m < l
    BY <1>1, <1>2, <1>3
  <2>2. m + 1 \in 0..(Levels - 1) /\ (m + 1 = l \/ m + 1 < l)
    BY <1>1, <2>1
  <2>3. PathTo(k, m + 1) \in DOMAIN tree
    BY <1>1, <2>2 DEF Home, WInv, PathsOK
  <2> QED
    BY <2>3
<1>6. (CHOOSE m \in 0..Levels : Last(m)) = l
  <2> HIDE DEF Last
  <2> QED
    BY <1>4, <1>5
<1> QED
  BY <1>6 DEF Leaf

\* The search for the key of a node in the tree ends at the node.
LEMMA LeafOfNode ==
  ASSUME WInv, NEW p \in DOMAIN tree, NEW i \in DOMAIN tree[p], tree[p][i] \in Node
  PROVE  Leaf(heap[tree[p][i]].key) = tree[p][i]
<1> DEFINE k == heap[tree[p][i]].key
           l == Len(p)
<1>1. k \in Key /\ p = PathTo(k, l) /\ i = Pos(k, l) /\ tree[p][i] # Array
  BY Contents DEF WInv, WType, HeapType, PlacesOK
<1>2. l \in 0..(Levels - 1)
  BY ArrayPath
<1> HIDE DEF k, l
<1>3. Home(k, l)
  BY <1>1, <1>2 DEF Home
<1>4. Leaf(k) = tree[PathTo(k, l)][Pos(k, l)]
  BY <1>1, <1>3, LeafAt
<1> QED
  BY <1>1, <1>4 DEF k

\* Every allocated node is in the tree once, where a search for its hash finds it, or has
\* one owner, under every workload.
THEOREM Ownership == Spec => []NodesOwned
<1>1. WInv => NodesOwned
  <2> SUFFICES ASSUME WInv, NEW n \in Node
               PROVE  LET holders == {t \in Thread : mine[t] = n \/ (pc[t] = "s_read" /\ node[t] = n)} IN
                      /\ Cardinality(Places(n)) + Cardinality(holders) =
                            (IF heap[n] = Free THEN 0 ELSE 1)
                      /\ Places(n) # {} => Leaf(heap[n].key) = n
    BY DEF NodesOwned
  <2> DEFINE holders == {t \in Thread : mine[t] = n \/ (pc[t] = "s_read" /\ node[t] = n)}
  <2>1. \A t \in Thread : t \in holders <=> Owns(t, n)
    BY DEF Owns
  <2>2. ~InTree(n) => Places(n) = {}
    BY DEF InTree, Places
  <2>3. ASSUME InTree(n)
        PROVE  Leaf(heap[n].key) = n /\ \E x : Places(n) = {x}
    <3>1. PICK p \in DOMAIN tree : \E i \in DOMAIN tree[p] : tree[p][i] = n
      BY <2>3 DEF InTree
    <3>2. PICK i \in DOMAIN tree[p] : tree[p][i] = n
      BY <3>1
    <3>3. Leaf(heap[n].key) = n
      BY <3>2, LeafOfNode
    <3>4. i \in 0..(2 ^ ArrayLength - 1)
      <4>1. DOMAIN tree[p] = 0..(Width(p) - 1)
        BY DEF WInv, WType, TreeType
      <4>2. Width(p) <= 2 ^ ArrayLength /\ Width(p) \in Nat /\ 2 ^ ArrayLength \in Nat
        BY Lengths DEF Width
      <4> QED
        BY <4>1, <4>2
    <3>5. \A q \in DOMAIN tree : \A j \in DOMAIN tree[q] : tree[q][j] = n => q = p /\ j = i
      BY <3>2, OnePlace
    <3>6. Places(n) = {<<p, i>>}
      BY <3>2, <3>4, <3>5 DEF Places
    <3> QED
      BY <3>3, <3>6
  <2>4. (\A t \in Thread : ~Owns(t, n)) => holders = {}
    BY <2>1
  <2>5. ASSUME NEW t \in Thread, Owns(t, n) PROVE holders = {t}
    BY <2>1, <2>5 DEF WInv, OwnersOK
  <2>6. heap[n] # Free <=> InTree(n) \/ \E t \in Thread : Owns(t, n)
    BY DEF WInv, OwnersOK
  <2>7. (\E t \in Thread : Owns(t, n)) => ~InTree(n)
    BY DEF WInv, OwnersOK
  <2> HIDE DEF holders
  <2>8. /\ Cardinality({}) = 0
        /\ \A x : Cardinality({x}) = 1
    BY FS_EmptySet, FS_Singleton
  <2>9. CASE InTree(n)
    <3>1. Cardinality(Places(n)) = 1
      BY <2>3, <2>8, <2>9
    <3>2. Cardinality(holders) = 0
      BY <2>4, <2>7, <2>8, <2>9
    <3>3. heap[n] # Free /\ Leaf(heap[n].key) = n
      BY <2>3, <2>6, <2>9
    <3> QED
      BY <3>1, <3>2, <3>3 DEF holders
  <2>10. CASE ~InTree(n) /\ \E t \in Thread : Owns(t, n)
    <3>1. Cardinality(Places(n)) = 0 /\ Places(n) = {}
      BY <2>2, <2>8, <2>10
    <3>2. Cardinality(holders) = 1
      BY <2>5, <2>8, <2>10
    <3>3. heap[n] # Free
      BY <2>6, <2>10
    <3> QED
      BY <3>1, <3>2, <3>3 DEF holders
  <2>11. CASE ~InTree(n) /\ \A t \in Thread : ~Owns(t, n)
    <3>1. Cardinality(Places(n)) = 0 /\ Places(n) = {}
      BY <2>2, <2>8, <2>11
    <3>2. Cardinality(holders) = 0
      BY <2>4, <2>8, <2>11
    <3>3. heap[n] = Free
      BY <2>6, <2>11
    <3> QED
      BY <3>1, <3>2, <3>3 DEF holders
  <2> QED
    BY <2>9, <2>10, <2>11
<1> QED
  BY <1>1, Invariance, PTL

-----------------------------------------------------------------------------
(* The types                                                               *)

\* The threads' variables are functions on the threads.
IsTotal(f) == f = [t \in Thread |-> f[t]]
Total == IsTotal(watched) /\ IsTotal(pc) /\ IsTotal(node) /\ IsTotal(mine) /\ IsTotal(seen)

LEMMA StaysTotal ==
  ASSUME NEW f, NEW g, NEW t \in Thread, NEW x, IsTotal(f), g = [f EXCEPT ![t] = x]
  PROVE  IsTotal(g)
BY DEF IsTotal

\* The places at which a step of thread t writes
Writes(f, g, t) == g = f \/ \E x : g = [f EXCEPT ![t] = x]

LEMMA StepWrites ==
  ASSUME [Next]_vars
  PROVE  UNCHANGED vars \/ \E t \in Thread :
            /\ Writes(watched, watched', t) /\ Writes(pc, pc', t) /\ Writes(node, node', t)
            /\ Writes(mine, mine', t) /\ Writes(seen, seen', t)
<1> SUFFICES ASSUME NEW t \in Thread,
                    \/ \E c \in AllCalls : Call(t, c)
                    \/ InsertStep(t) \/ ExpandStep(t) \/ GetStep(t) \/ EnsureStep(t)
                    \/ ModifyStep(t) \/ DeleteStep(t) \/ Clear(t)
             PROVE  /\ Writes(watched, watched', t) /\ Writes(pc, pc', t) /\ Writes(node, node', t)
                    /\ Writes(mine, mine', t) /\ Writes(seen, seen', t)
  BY DEF Next
<1>1. CASE \E c \in AllCalls : Call(t, c)
  BY <1>1 DEF Writes, Call, Goto, locals
<1>2. CASE \E x : InsertConsider(t, x)
  BY <1>2 DEF Writes, InsertConsider, Descend, New
<1>3. CASE InsertCas(t) \/ InsertCasFails(t) \/ InsertCount(t) \/ InsertReload(t) \/ InsertWatch(t)
           \/ InsertCheck(t) \/ InsertHash(t)
  BY <1>3 DEF Writes, InsertCas, InsertCasFails, InsertCount, InsertReload, InsertWatch,
     InsertCheck,
     InsertHash, Goto, Keep, locals, Descend, Watch, Answer, DeleteMine
<1>4. CASE ExpandLoad(t) \/ ExpandWatch(t) \/ ExpandCheck(t) \/ ExpandCas(t)
  BY <1>4 DEF Writes, ExpandLoad, ExpandWatch, ExpandCheck, ExpandCas, Goto, Keep, locals, Descend
<1>5. CASE GetStep(t) \/ EnsureStep(t)
  BY <1>5 DEF Writes, GetStep, GetLoad, GetWatch, GetCheck, GetRead, GetAgain, EnsureStep,
     EnsureLoad, EnsureWatch, EnsureCheckFails, Goto, Keep, locals, Watch, Answer, Miss, Deeper,
     NextRound
<1>6. CASE ModifyStep(t)
  BY <1>6 DEF Writes, ModifyStep, ModifyLoad, ModifyWatch, ModifyCheck, ModifyAgain, ModifyRead,
     ModifyCas, ModifyCasFails, ModifyReload, New, DeleteMine, Goto, Keep, locals, Watch, Answer,
     Miss, Deeper, NextRound
<1>7. CASE DeleteStep(t) \/ Clear(t)
  BY <1>7 DEF Writes, DeleteStep, SafeDelete, SafeDeleteRead, Clear, Goto, Answer
<1> QED
  BY <1>1, <1>2, <1>3, <1>4, <1>5, <1>6, <1>7 DEF InsertStep, ExpandStep, InsertLoad,
     InsertCheckFails, ExpandCheckFails, ExpandLast

LEMMA FrontAndLast ==
  ASSUME NEW s \in Seq(Nat), NEW e \in Nat, NEW n \in Nat, n = Len(s)
  PROVE  SubSeq(Append(s, e), 1, n) = s /\ Append(s, e)[n + 1] = e
<1> DEFINE q == SubSeq(Append(s, e), 1, n)
<1>1. Append(s, e) \in Seq(Nat) /\ Len(Append(s, e)) = n + 1
  OBVIOUS
<1>2. q \in Seq(Nat) /\ Len(q) = n
  BY <1>1
<1>3. \A i \in 1..n : q[i] = s[i]
  BY <1>1
<1>4. q = s
  BY <1>2, <1>3
<1> QED
  BY <1>4

\* The variables keep their types under every workload.
THEOREM TypeCorrect == Spec => []TypeOK
<1>1. Init => Total
  BY DEF Init, Total, IsTotal
<1>2. Total /\ [Next]_vars => Total'
  <2> SUFFICES ASSUME Total, [Next]_vars PROVE Total'
    OBVIOUS
  <2>1. CASE UNCHANGED vars
    BY <2>1 DEF Total, vars, locals
  <2>2. CASE \E t \in Thread :
               /\ Writes(watched, watched', t) /\ Writes(pc, pc', t) /\ Writes(node, node', t)
               /\ Writes(mine, mine', t) /\ Writes(seen, seen', t)
    BY <2>2, StaysTotal DEF Total, Writes
  <2> QED
    BY <2>1, <2>2, StepWrites
<1>3. WInv /\ Total => TypeOK
  <2> SUFFICES ASSUME WInv, Total PROVE TypeOK
    OBVIOUS
  <2>1. DOMAIN tree \subseteq Path
    BY LevelsType DEF WInv, WType, TreeType, Path
  <2>2. \A p \in DOMAIN tree : tree[p] \in
           [0..(IF p = << >> THEN 2 ^ ArrayLength ELSE ArrayLength) - 1 -> Content]
    BY DEF WInv, WType, TreeType, Width
  <2>3. ASSUME NEW p \in Path \ {<< >>}
        PROVE  p \in DOMAIN tree <=> /\ SubSeq(p, 1, Len(p) - 1) \in DOMAIN tree
                                     /\ tree[SubSeq(p, 1, Len(p) - 1)][p[Len(p)]] = Array
    <3>1. PICK k \in Key, l \in 0..Levels : p = PathTo(k, l)
      BY <2>3 DEF Path
    <3>2. p \in Seq(Nat) /\ Len(p) = l /\ l # 0 /\ l \in 0..Levels /\ Levels \in Nat
      BY <2>3, <3>1, PathType, NoPath, LevelsType
    <3>3. l - 1 \in 0..(Levels - 1) /\ l - 1 \in 0..Levels /\ (l - 1) + 1 = l
      BY <3>2
    <3>4. p = Append(PathTo(k, l - 1), Pos(k, l - 1))
      BY <3>1, <3>3, LongerPath
    <3>5. PathTo(k, l - 1) \in Seq(Nat) /\ Len(PathTo(k, l - 1)) = l - 1 /\ Pos(k, l - 1) \in Nat
      BY <3>3, PathType, PosType
    <3>6. SubSeq(p, 1, Len(p) - 1) = PathTo(k, l - 1) /\ p[Len(p)] = Pos(k, l - 1)
      BY <3>2, <3>4, <3>5, FrontAndLast
    <3>7. ASSUME p \in DOMAIN tree
          PROVE  PathTo(k, l - 1) \in DOMAIN tree /\ tree[PathTo(k, l - 1)][Pos(k, l - 1)] = Array
      <4>1. l \in 0..(Levels - 1) /\ l - 1 < l
        BY <3>2, <3>7, ArrayPath
      <4> QED
        BY <3>1, <3>3, <3>7, <4>1 DEF WInv, PathsOK
    <3>8. ASSUME PathTo(k, l - 1) \in DOMAIN tree, tree[PathTo(k, l - 1)][Pos(k, l - 1)] = Array
          PROVE  p \in DOMAIN tree
      <4>1. Pos(k, l - 1) \in DOMAIN tree[PathTo(k, l - 1)]
        BY <3>3, <3>8, KeyPlace
      <4> QED
        BY <3>4, <3>8, <4>1 DEF WInv, PathsOK
    <3> QED
      BY <3>6, <3>7, <3>8
  <2>4. heap \in [Node -> [key : Key, val : Value] \union {Free}] /\ size \in Nat
    BY DEF WInv, WType, HeapType, Domains
  <2>5. \A t \in Thread : LocalType(t)
    BY DEF WInv, WType
  <2>6. watched \in [Thread -> Content] /\ node \in [Thread -> Content]
    BY <2>5 DEF Total, IsTotal, LocalType
  <2>7. pc \in [Thread -> PC] /\ mine \in [Thread -> Node \union {Null}]
    BY <2>5 DEF Total, IsTotal, LocalType
  <2>8. seen \in [Thread -> SUBSET Thread]
    BY <2>5 DEF Total, IsTotal, LocalType
  <2>9. \A t \in Thread : loc[t] \in DOMAIN tree /\ lvl[t] \in 0..Levels
    BY <2>5 DEF LocalType
  <2> QED
    BY <2>1, <2>2, <2>3, <2>4, <2>6, <2>7, <2>8, <2>9 DEF TypeOK
<1> QED
  BY <1>1, <1>2, <1>3, Invariance, PTL DEF Spec

-----------------------------------------------------------------------------
(* The refinement: its invariant.  An insert takes effect with the CAS     *)
(* that puts its node into the tree, an update or a remove with the one    *)
(* that takes a node out; everything else answers for a moment at which    *)
(* it has read a place.                                                    *)

\* Workloads in which the other threads only insert while one updates
UpdatesAlone(i) == \A t, u \in Thread : \A c \in Roles[i][t], d \in Roles[i][u] :
                      t # u /\ c.op = "update" => d.op = "insert"

\* The call has neither taken effect nor been decided.
Open(t) == pc[t] \notin {"idle", "clear", "i_count", "s_read"}

AnswersOK(t) ==
    /\ pc[t] = "clear" <=> res[t] # NoCall
    /\ Open(t) => M!Answers(call[t], map) \subseteq could[t] /\ "success" \notin could[t]
    /\ pc[t] \in {"i_count", "s_read"} => "success" \in could[t]

\* The new node holds what the call is to put into the map; a remove has none.
NewOK(t) == /\ mine[t] # Null => heap[mine[t]].val = call[t].val
            /\ pc[t] = "m_cas" /\ call[t].op = "remove" => mine[t] = Null

\* The call may answer that its key is not there.
Missed(t) == (IF call[t].op = "get" THEN Null ELSE "element_not_found") \in could[t]

\* What a node that has been looked at twice says is true of a moment of the call.
ReadOK(t) ==
    /\ pc[t] = "i_hash" /\ node[t] \in Node /\ heap[node[t]].key = call[t].key =>
          "already_present" \in could[t]
    /\ pc[t] \in {"g_read", "m_read"} /\ heap[node[t]].key # call[t].key => Missed(t)
    /\ pc[t] = "g_read" /\ heap[node[t]].key = call[t].key => heap[node[t]].val \in could[t]
    /\ pc[t] = "m_read" /\ heap[node[t]].key = call[t].key /\ heap[node[t]].val \notin call[t].exp =>
          "expected_value_mismatch" \in could[t]
    /\ pc[t] = "m_cas" => /\ heap[node[t]].key = call[t].key
                          /\ heap[node[t]].val \in call[t].exp

\* A node that is not where it was found has been replaced by an array, or the key has
\* not been in the map for a moment.  A get that has left the path of its key knows the
\* latter.
Follows(t) ==
    /\ Open(t) /\ call[t].op = "get" => loc[t] = PathTo(call[t].key, lvl[t]) \/ Missed(t)
    /\ pc[t] \in {"g_watch", "g_check", "m_read", "m_cas"} =>
          At(t) = node[t] \/ At(t) = Array \/ Missed(t)
    /\ (pc[t] \in Ensuring /\ call[t].op = "get") \/ pc[t] = "m_reload" =>
          At(t) = Array \/ Missed(t)

CallOK(t) == AnswersOK(t) /\ NewOK(t) /\ ReadOK(t) /\ Follows(t)

HistoryType == DOMAIN res = Thread /\ DOMAIN could = Thread

RInv == WInv /\ UpdatesAlone(role) /\ HistoryType /\ \A t \in Thread : CallOK(t)
-----------------------------------------------------------------------------
(* The map                                                                 *)

LEMMA LeastNumber ==
  ASSUME NEW S \in SUBSET Nat, S # {}
  PROVE  \E m \in S : \A n \in S : m <= n
<1>1. PICK m \in S : \A n \in S : ~(<<n, m>> \in OpToRel(<, Nat))
  BY WFMin, NatLessThanWellFounded
<1>2. \A n \in S : ~(n < m)
  BY <1>1 DEF OpToRel
<1> QED
  BY <1>2

\* The search for a key ends.
LEMMA HomeExists ==
  ASSUME WInv, NEW k \in Key
  PROVE  \E l : Home(k, l)
<1> DEFINE S == {n \in 1..Levels : n = Levels \/ PathTo(k, n) \notin DOMAIN tree}
<1>1. Levels \in Nat /\ Levels > 0
  BY LevelsType
<1>2. PICK n \in S : \A m \in S : n <= m
  <2>1. S \in SUBSET Nat /\ Levels \in S
    BY <1>1
  <2> QED
    BY <2>1, LeastNumber
<1>3. n \in 1..Levels /\ (n = Levels \/ PathTo(k, n) \notin DOMAIN tree)
  BY <1>2
<1>4. n - 1 \in 0..(Levels - 1) /\ (n - 1) + 1 = n
  BY <1>1, <1>3
<1>5. PathTo(k, n - 1) \in DOMAIN tree
  <2>1. CASE n - 1 = 0
    BY <2>1, NoPath DEF WInv, WType, TreeType
  <2>2. CASE n - 1 # 0
    <3>1. n - 1 \in 1..Levels
      BY <1>1, <1>4, <2>2
    <3>2. n - 1 \notin S
      BY <1>1, <1>2, <1>3
    <3> QED
      BY <3>1, <3>2
  <2> QED
    BY <2>1, <2>2
<1>6. tree[PathTo(k, n - 1)][Pos(k, n - 1)] # Array
  <2> SUFFICES ASSUME tree[PathTo(k, n - 1)][Pos(k, n - 1)] = Array PROVE FALSE
    OBVIOUS
  <2>1. Append(PathTo(k, n - 1), Pos(k, n - 1)) = PathTo(k, n)
    BY <1>4, LongerPath
  <2>2. Pos(k, n - 1) \in DOMAIN tree[PathTo(k, n - 1)]
    BY <1>4, <1>5, KeyPlace
  <2>3. PathTo(k, n) \in DOMAIN tree
    BY <1>5, <2>1, <2>2 DEF WInv, PathsOK
  <2>4. Len(PathTo(k, n)) \in 0..(Levels - 1) /\ Len(PathTo(k, n)) = n
    BY <1>1, <1>3, <2>3, ArrayPath, PathType
  <2> QED
    BY <1>1, <1>3, <2>3, <2>4
<1> QED
  BY <1>4, <1>5, <1>6 DEF Home

\* What the map has for a key is told by the place where the search for it ends.
MapTold == \A k \in Key, l \in 0..(Levels - 1) : Home(k, l) =>
    LET x == tree[PathTo(k, l)][Pos(k, l)] IN
    /\ x \in Node \union {Null}
    /\ x = Null => map[k] = Null
    /\ x \in Node => /\ heap[x] # Free /\ heap[x].val \in Value /\ InTree(x)
                     /\ heap[x].key = k => map[k] = heap[x].val
                     /\ heap[x].key # k => map[k] = Null

LEMMA MapIsTold == WInv => MapTold
<1> SUFFICES ASSUME WInv, NEW k \in Key, NEW l \in 0..(Levels - 1), Home(k, l)
             PROVE  LET x == tree[PathTo(k, l)][Pos(k, l)] IN
                    /\ x \in Node \union {Null}
                    /\ x = Null => map[k] = Null
                    /\ x \in Node => /\ heap[x] # Free /\ heap[x].val \in Value /\ InTree(x)
                                     /\ heap[x].key = k => map[k] = heap[x].val
                                     /\ heap[x].key # k => map[k] = Null
  BY DEF MapTold
<1> DEFINE x == tree[PathTo(k, l)][Pos(k, l)]
<1>1. PathTo(k, l) \in DOMAIN tree /\ Pos(k, l) \in DOMAIN tree[PathTo(k, l)] /\ x # Array
  BY KeyPlace DEF Home
<1>2. x \in Content
  BY <1>1 DEF WInv, WType, TreeType
<1>3. Leaf(k) = x
  BY LeafAt
<1>4. map[k] = ValueAt(k, x)
  BY <1>3 DEF map
<1>5. x \in Node => heap[x] # Free /\ heap[x] \in [key : Key, val : Value] /\ InTree(x)
  BY <1>1 DEF WInv, WType, HeapType, PlacesOK, InTree
<1> HIDE DEF x, map
<1>6. x \in Node \union {Null} /\ Null \notin Node
  BY <1>1, <1>2, Contents DEF Content
<1> QED
  BY <1>4, <1>5, <1>6 DEF ValueAt, x

MapTyped == map \in [Key -> Value \union {Null}]

LEMMA MapTyping == WInv => MapTyped
<1> SUFFICES ASSUME WInv PROVE MapTyped
  OBVIOUS
<1>1. ASSUME NEW k \in Key, NEW x PROVE ValueAt(k, x) \in Value \union {Null}
  BY DEF ValueAt, WInv, WType, HeapType
<1> QED
  BY <1>1 DEF MapTyped, map

\* What a thread that has followed the path of its key sees there
LooksRight == \A t \in Thread : call[t] # NoCall /\ lvl[t] < Levels =>
    /\ call[t].key \in Key /\ At(t) \in Content
    /\ At(t) \in Node => heap[At(t)] # Free /\ heap[At(t)].val \in Value /\ heap[At(t)].val # Null
    /\ At(t) \in Node /\ heap[At(t)].key = call[t].key => map[call[t].key] = heap[At(t)].val
    /\ /\ loc[t] = PathTo(call[t].key, lvl[t])
       /\ At(t) = Null \/ (At(t) \in Node /\ heap[At(t)].key # call[t].key)
       => map[call[t].key] = Null

LEMMA LookingRight == WInv => LooksRight
<1> SUFFICES ASSUME WInv, NEW t \in Thread, call[t] # NoCall, lvl[t] < Levels
             PROVE  /\ call[t].key \in Key /\ At(t) \in Content
                    /\ At(t) \in Node =>
                          heap[At(t)] # Free /\ heap[At(t)].val \in Value /\ heap[At(t)].val # Null
                    /\ At(t) \in Node /\ heap[At(t)].key = call[t].key =>
                          map[call[t].key] = heap[At(t)].val
                    /\ /\ loc[t] = PathTo(call[t].key, lvl[t])
                       /\ At(t) = Null \/ (At(t) \in Node /\ heap[At(t)].key # call[t].key)
                       => map[call[t].key] = Null
  BY DEF LooksRight
<1> DEFINE k == call[t].key
           x == At(t)
<1>1. /\ loc[t] \in DOMAIN tree /\ pos(t) \in DOMAIN tree[loc[t]]
      /\ k \in Key /\ lvl[t] \in 0..(Levels - 1) /\ x = tree[loc[t]][pos(t)]
  BY PosInTree, CallAssumption, LevelsType DEF WInv, WType, LocalType, At
<1>2. x \in Content /\ pos(t) = Pos(k, lvl[t])
  BY AtType DEF pos
<1>3. x \in Node => /\ heap[x] # Free /\ heap[x] \in [key : Key, val : Value]
  BY <1>1 DEF WInv, WType, HeapType, PlacesOK
<1>4. x \in Node => heap[x].val \in Value /\ heap[x].val # Null
  BY <1>3, ContentAssumption
<1>5. ASSUME x \in Node, heap[x].key = k PROVE map[k] = heap[x].val
  <2>1. Leaf(k) = x
    BY <1>1, <1>5, LeafOfNode
  <2>2. map[k] = ValueAt(k, x)
    BY <1>1, <2>1 DEF map
  <2> HIDE DEF x, k, map
  <2> QED
    BY <1>3, <1>5, <2>2 DEF ValueAt
<1>6. ASSUME loc[t] = PathTo(k, lvl[t]), x = Null \/ (x \in Node /\ heap[x].key # k)
      PROVE  map[k] = Null
  <2>1. Home(k, lvl[t])
    BY <1>1, <1>2, <1>6, Contents DEF Home
  <2>2. x = tree[PathTo(k, lvl[t])][Pos(k, lvl[t])]
    BY <1>1, <1>2, <1>6
  <2>3. MapTold
    BY MapIsTold
  <2> HIDE DEF x, k, map
  <2> QED
    BY <1>1, <1>6, <2>1, <2>2, <2>3 DEF MapTold
<1> QED
  BY <1>1, <1>2, <1>3, <1>4, <1>5, <1>6

\* A step that leaves the tree and what is in it alone does not change the map.
LEMMA SameMap ==
  ASSUME WInv, WInv', tree' = tree, \A n \in Node : InTree(n) => heap'[n] = heap[n]
  PROVE  map' = map
<1>1. MapTold /\ MapTold' /\ MapTyped /\ MapTyped'
  BY MapIsTold, MapTyping, PTL
<1>2. ASSUME NEW k \in Key PROVE map'[k] = map[k]
  <2>1. PICK l \in 0..(Levels - 1) : Home(k, l)
    BY HomeExists DEF Home
  <2>2. Home(k, l)'
    BY <2>1 DEF Home, PathTo, Pos
  <2> DEFINE x == tree[PathTo(k, l)][Pos(k, l)]
  <2>3. /\ x \in Node \union {Null}
        /\ x = Null => map[k] = Null /\ map'[k] = Null
        /\ x \in Node => /\ InTree(x)
                         /\ heap[x].key = k => map[k] = heap[x].val
                         /\ heap[x].key # k => map[k] = Null
                         /\ heap'[x].key = k => map'[k] = heap'[x].val
                         /\ heap'[x].key # k => map'[k] = Null
    <3>1. (tree[PathTo(k, l)][Pos(k, l)])' = x
      BY DEF PathTo, Pos
    <3> HIDE DEF map
    <3> QED
      BY <1>1, <2>1, <2>2, <3>1 DEF MapTold
  <2> HIDE DEF x, map
  <2> QED
    BY <2>3
<1> HIDE DEF map
<1> QED
  BY <1>1, <1>2 DEF MapTyped

\* Nor does the replacement of a node by an array that holds it.
LEMMA ExpandMap ==
  ASSUME WInv, WInv', NEW t \in Thread, ExpandCas(t)
  PROVE  map' = map
<1>1. MapTold /\ MapTold' /\ MapTyped /\ MapTyped'
  BY MapIsTold, MapTyping, PTL
<1>2. heap' = heap
  BY DEF ExpandCas
<1>3. CASE At(t) # node[t]
  <2>1. tree' = tree
    BY <1>3 DEF ExpandCas
  <2> QED
    BY <1>2, <2>1, SameMap
<1>4. CASE At(t) = node[t]
  <2> DEFINE n == node[t]
             q == NewArray(t)
             j == Pos(heap[n].key, lvl[t] + 1)
  <2>1. /\ loc[t] \in DOMAIN tree /\ pos(t) \in DOMAIN tree[loc[t]]
        /\ heap[n].key \in Key /\ n \in Node /\ call[t].key \in Key
        /\ lvl[t] \in 0..(Levels - 1) /\ lvl[t] + 1 \in 0..(Levels - 1)
        /\ tree[loc[t]][pos(t)] = n
        /\ loc[t] = PathTo(call[t].key, lvl[t]) /\ pos(t) = Pos(call[t].key, lvl[t])
        /\ q = PathTo(call[t].key, lvl[t] + 1) /\ q = Append(loc[t], pos(t))
    BY <1>4, ExpandFacts DEF NewArray
  <2>2. /\ DOMAIN tree' = DOMAIN tree \union {q}
        /\ \A p \in DOMAIN tree : \A i \in DOMAIN tree[p] :
              tree'[p][i] = IF p = loc[t] /\ i = pos(t) THEN Array ELSE tree[p][i]
        /\ tree'[q] = [i \in 0..(ArrayLength - 1) |-> IF i = j THEN n ELSE Null]
    BY <1>4, ExpandPlace
  <2> HIDE DEF map, n, q
  <2>3. ASSUME NEW k \in Key PROVE map'[k] = map[k]
    <3>1. PICK l \in 0..(Levels - 1) : Home(k, l)
      BY HomeExists DEF Home
    <3>2. /\ PathTo(k, l) \in DOMAIN tree /\ Pos(k, l) \in DOMAIN tree[PathTo(k, l)]
          /\ tree[PathTo(k, l)][Pos(k, l)] # Array
      BY <3>1, KeyPlace DEF Home
    <3>3. CASE PathTo(k, l) = loc[t] /\ Pos(k, l) = pos(t)
      <4>1. l = lvl[t]
        <5>1. l \in 0..Levels /\ lvl[t] \in 0..Levels
          BY <2>1, LevelsType
        <5> QED
          BY <2>1, <3>3, <5>1, SamePath
      <4>2. PathTo(k, l + 1) = q /\ l + 1 \in 0..(Levels - 1)
        BY <2>1, <3>3, <4>1, LongerPath
      <4>3. Pos(k, l + 1) \in 0..(ArrayLength - 1)
        <5>1. l + 1 \in 0..Levels /\ l + 1 > 0
          BY <4>2, LevelsType
        <5> QED
          BY <5>1, PosType, Lengths
      <4>4. tree'[q][Pos(k, l + 1)] = IF Pos(k, l + 1) = j THEN n ELSE Null
        BY <2>2, <4>3
      <4>5. (tree[PathTo(k, l + 1)][Pos(k, l + 1)])' = IF Pos(k, l + 1) = j THEN n ELSE Null
        BY <4>2, <4>4 DEF PathTo, Pos
      <4>6. Home(k, l + 1)'
        <5>1. PathTo(k, l + 1)' = q
          BY <4>2 DEF PathTo, Pos
        <5> QED
          BY <2>1, <2>2, <4>2, <4>5, <5>1, Contents DEF Home
      <4>7. heap[n].key = k => Pos(k, l + 1) = j
        BY <4>1
      <4>8. tree[PathTo(k, l)][Pos(k, l)] = n
        BY <2>1, <3>3
      <4>9. /\ heap[n].key = k => map[k] = heap[n].val
            /\ heap[n].key # k => map[k] = Null
        BY <1>1, <2>1, <3>1, <4>8 DEF MapTold
      <4> HIDE DEF j
      <4>10. CASE Pos(k, l + 1) = j
        BY <1>1, <1>2, <2>1, <4>2, <4>5, <4>6, <4>9, <4>10 DEF MapTold
      <4>11. CASE Pos(k, l + 1) # j
        BY <1>1, <1>2, <4>2, <4>5, <4>6, <4>7, <4>9, <4>11 DEF MapTold
      <4> QED
        BY <4>10, <4>11
    <3>4. CASE ~(PathTo(k, l) = loc[t] /\ Pos(k, l) = pos(t))
      <4>1. tree'[PathTo(k, l)][Pos(k, l)] = tree[PathTo(k, l)][Pos(k, l)]
        BY <2>2, <3>2, <3>4
      <4>2. (tree[PathTo(k, l)][Pos(k, l)])' = tree[PathTo(k, l)][Pos(k, l)]
        BY <4>1 DEF PathTo, Pos
      <4>3. Home(k, l)'
        BY <2>2, <3>2, <4>2 DEF Home, PathTo, Pos
      <4> QED
        BY <1>1, <1>2, <3>1, <4>2, <4>3 DEF MapTold
    <3> QED
      BY <3>3, <3>4
  <2> QED
    BY <1>1, <2>3 DEF MapTyped
<1> QED
  BY <1>3, <1>4

\* A node that is put in the tree gives its key a value, and its removal takes it away.
LEMMA PutMap ==
  ASSUME WInv, WInv', NEW t \in Thread, Placed(t),
         At(t) = Null \/ heap[At(t)].key = call[t].key
  PROVE  map' = [map EXCEPT ![call[t].key] = IF mine[t] = Null THEN Null ELSE heap[mine[t]].val]
<1>1. MapTold /\ MapTold' /\ MapTyped /\ MapTyped'
  BY MapIsTold, MapTyping, PTL
<1>2. call[t].key \in Key /\ lvl[t] \in 0..(Levels - 1)
  BY CallAssumption, LevelsType DEF Placed, WInv, WType, LocalType
<1>3. PICK j \in Key, m \in 0..(Levels - 1) : j = call[t].key /\ m = lvl[t]
  BY <1>2
<1>4. PICK y \in Node \union {Null}, p \in DOMAIN tree, i \in DOMAIN tree[loc[t]] :
        y = mine[t] /\ p = loc[t] /\ i = pos(t)
  BY PutPlace
<1>5. /\ heap' = heap /\ p = PathTo(j, m) /\ i = Pos(j, m) /\ tree[p][i] # Array
      /\ y # Null => heap[y].key = j
      /\ tree[p][i] = Null \/ heap[tree[p][i]].key = j
  BY <1>3, <1>4 DEF Placed, At, pos
<1>6. /\ p \in DOMAIN tree /\ i \in DOMAIN tree[p]
      /\ DOMAIN tree' = DOMAIN tree
      /\ \A q \in DOMAIN tree : \A h \in DOMAIN tree[q] :
            tree'[q][h] = IF q = p /\ h = i THEN y ELSE tree[q][h]
  BY <1>4, PutPlace
<1> DEFINE v == IF y = Null THEN Null ELSE heap[y].val
<1> HIDE DEF map
<1>7. map'[j] = v
  <2>1. (tree[PathTo(j, m)][Pos(j, m)])' = y
    BY <1>5, <1>6 DEF PathTo, Pos
  <2>2. Home(j, m)'
    BY <1>5, <1>6, <2>1, Contents DEF Home, PathTo, Pos
  <2> QED
    BY <1>1, <1>4, <1>5, <2>1, <2>2, Contents DEF MapTold
<1>8. ASSUME NEW k \in Key, k # j PROVE map'[k] = map[k]
  <2>1. PICK l \in 0..(Levels - 1) : Home(k, l)
    BY HomeExists DEF Home
  <2>2. /\ PathTo(k, l) \in DOMAIN tree /\ Pos(k, l) \in DOMAIN tree[PathTo(k, l)]
        /\ tree[PathTo(k, l)][Pos(k, l)] # Array
    BY <2>1, KeyPlace DEF Home
  <2>3. CASE PathTo(k, l) = p /\ Pos(k, l) = i
    <3>1. map[k] = Null
      BY <1>1, <1>5, <1>8, <2>1, <2>3 DEF MapTold
    <3>2. (tree[PathTo(k, l)][Pos(k, l)])' = y
      BY <1>6, <2>3 DEF PathTo, Pos
    <3>3. Home(k, l)'
      BY <1>6, <2>2, <2>3, <3>2, <1>4, Contents DEF Home, PathTo, Pos
    <3>4. map'[k] = Null
      BY <1>1, <1>4, <1>5, <1>8, <3>2, <3>3, Contents DEF MapTold
    <3> QED
      BY <3>1, <3>4
  <2>4. CASE ~(PathTo(k, l) = p /\ Pos(k, l) = i)
    <3>1. tree'[PathTo(k, l)][Pos(k, l)] = tree[PathTo(k, l)][Pos(k, l)]
      BY <1>6, <2>2, <2>4
    <3>2. (tree[PathTo(k, l)][Pos(k, l)])' = tree[PathTo(k, l)][Pos(k, l)]
      BY <3>1 DEF PathTo, Pos
    <3>3. Home(k, l)'
      BY <1>6, <2>2, <3>2 DEF Home, PathTo, Pos
    <3> QED
      BY <1>1, <1>5, <2>1, <3>2, <3>3 DEF MapTold
  <2> QED
    BY <2>3, <2>4
<1>9. v \in Value \union {Null}
  BY <1>1, <1>2, <1>3, <1>7 DEF MapTyped
<1> HIDE DEF v
<1>10. map' = [map EXCEPT ![j] = v]
  BY <1>1, <1>7, <1>8, <1>9 DEF MapTyped
<1> QED
  BY <1>3, <1>4, <1>10 DEF v

-----------------------------------------------------------------------------
(* The other threads                                                       *)

NeverSuccess == \A c \in AllCalls : "success" \notin M!Answers(c, map)

LEMMA NoSuccess == WInv => NeverSuccess
<1> SUFFICES ASSUME WInv, NEW c \in AllCalls PROVE "success" \notin M!Answers(c, map)
  BY DEF NeverSuccess
<1>1. c.key \in Key
  BY CallAssumption
<1>2. map[c.key] \in Value \union {Null}
  BY <1>1, MapTyping DEF MapTyped
<1> HIDE DEF map
<1> QED
  BY <1>2, AnswerAssumption DEF M!Answers

\* A step of t decides no other call; if it changes the map, then the other calls may
\* answer for what it makes of it.
HistoryKept(t) == \A u \in Thread : u # t =>
    /\ res'[u] = res[u]
    /\ \/ map' = map /\ could'[u] = could[u]
       \/ could'[u] = IF call[u] = NoCall \/ "success" \in could[u] THEN could[u]
                      ELSE could[u] \union M!Answers(call[u], map')

\* A node is replaced by an array, or by nothing, unless somebody updates its key.
Replaces(t) == \A p \in DOMAIN tree : \A i \in DOMAIN tree[p] : tree[p][i] \in Node =>
    \/ tree'[p][i] \in {tree[p][i], Array, Null}
    \/ call[t] \in Roles[role][t] /\ call[t].op = "update"

LEMMA OthersCall ==
  ASSUME WInv, WInv', NEW t \in Thread, Around(t), UpdatesAlone(role), HistoryKept(t), Replaces(t),
         NEW u \in Thread, u # t, CallOK(u)
  PROVE  CallOK(u)'
<1>1. /\ Unmoved(u) /\ LocalType(u) /\ PlaceOK(u) /\ MineOK(u) /\ role' = role
      /\ \A n \in Node : Uses(u, n) \/ mine[u] = n => heap'[n] = heap[n]
      /\ res'[u] = res[u]
  BY DEF Around, Others, HeapKept, HistoryKept, WInv, WType, ThreadOK
<1>2. Open(u)' <=> Open(u)
  BY <1>1 DEF Open, Unmoved
<1>3. Open(u) => call[u] \in AllCalls /\ call[u] # NoCall /\ lvl[u] < Levels
  BY <1>1 DEF Open, LocalType
<1>4. could[u] \subseteq could'[u]
  BY DEF HistoryKept
<1>5. AnswersOK(u)'
  <2>1. ASSUME Open(u)
        PROVE  M!Answers(call[u], map') \subseteq could'[u] /\ "success" \notin could'[u]
    <3>1. M!Answers(call[u], map) \subseteq could[u] /\ "success" \notin could[u]
      BY <2>1 DEF CallOK, AnswersOK
    <3>2. NeverSuccess'
      BY NoSuccess, PTL
    <3>3. "success" \notin M!Answers(call[u], map')
      BY <1>3, <2>1, <3>2 DEF NeverSuccess, M!Answers
    <3>4. CASE map' = map /\ could'[u] = could[u]
      BY <3>1, <3>4
    <3>5. CASE could'[u] = could[u] \union M!Answers(call[u], map')
      BY <3>1, <3>3, <3>5
    <3> QED
      BY <1>3, <2>1, <3>1, <3>4, <3>5 DEF HistoryKept
  <2>2. M!Answers(call[u], map)' = M!Answers(call[u], map')
    BY <1>1 DEF Unmoved, M!Answers
  <2> HIDE DEF map
  <2> QED
    BY <1>1, <1>2, <1>4, <2>1, <2>2 DEF CallOK, AnswersOK, Unmoved
<1>6. NewOK(u)'
  <2>1. mine[u] # Null => heap'[mine[u]] = heap[mine[u]]
    BY <1>1 DEF LocalType
  <2> QED
    BY <1>1, <2>1 DEF CallOK, NewOK, Unmoved
<1>7. Missed(u) => Missed(u)'
  BY <1>1, <1>4 DEF Missed, Unmoved
<1>8. ReadOK(u)'
  <2>1. /\ pc[u] = "i_hash" /\ node[u] \in Node => heap'[node[u]] = heap[node[u]]
        /\ pc[u] \in {"g_read", "m_read", "m_cas"} => heap'[node[u]] = heap[node[u]]
    BY <1>1 DEF Uses, Using, PlaceOK, WithNode
  <2> QED
    BY <1>1, <1>4, <1>7, <2>1 DEF CallOK, ReadOK, Unmoved
<1>9. ASSUME Open(u)
      PROVE  /\ loc[u] \in DOMAIN tree /\ pos(u) \in DOMAIN tree[loc[u]]
             /\ At(u) = tree[loc[u]][pos(u)] /\ At(u)' = tree'[loc[u]][pos(u)]
             /\ At(u) = Array => At(u)' = Array
  <2>1. loc[u] \in DOMAIN tree /\ pos(u) \in DOMAIN tree[loc[u]]
    BY <1>1, <1>3, <1>9, PosInTree DEF WInv, LocalType
  <2>2. At(u) = tree[loc[u]][pos(u)] /\ At(u)' = tree'[loc[u]][pos(u)]
    BY <1>1 DEF At, pos, Unmoved
  <2> QED
    BY <2>1, <2>2 DEF Around, TreeGrows
<1>10. Follows(u)'
  <2>1. Open(u) /\ call[u].op = "get" => loc[u] = PathTo(call[u].key, lvl[u]) \/ Missed(u)
    BY DEF CallOK, Follows
  <2>2. ASSUME pc[u] \in {"g_watch", "g_check", "m_read", "m_cas"}
        PROVE  At(u)' = node[u] \/ At(u)' = Array \/ Missed(u)'
    <3>0. /\ Open(u) /\ node[u] \in Node
          /\ call[u].op \in {"get", "update", "remove"}
      BY <1>1, <2>2 DEF Open, PlaceOK, WithNode, Modifying, Reading
    <3>1. At(u) = node[u] \/ At(u) = Array \/ Missed(u)
      BY <2>2 DEF CallOK, Follows
    <3>2. CASE At(u) = Array \/ Missed(u)
      BY <1>7, <1>9, <3>0, <3>2
    <3>3. CASE At(u) = node[u] /\ ~Missed(u)
      <4>1. At(u)' \in {node[u], Array, Null}
        <5>1. \/ tree'[loc[u]][pos(u)] \in {node[u], Array, Null}
              \/ call[t] \in Roles[role][t] /\ call[t].op = "update"
          BY <1>9, <3>0, <3>3 DEF Replaces
        <5>2. ~(call[t] \in Roles[role][t] /\ call[t].op = "update")
          BY <1>1, <1>3, <3>0 DEF UpdatesAlone, LocalType
        <5> QED
          BY <1>9, <3>0, <5>1, <5>2
      <4>2. ASSUME At(u)' = Null PROVE Missed(u)'
        <5>1. loc[u] = PathTo(call[u].key, lvl[u])
          BY <1>1, <1>3, <2>1, <3>0, <3>3 DEF PlaceOK
        <5>2. LooksRight'
          BY LookingRight, PTL
        <5>3. loc'[u] = (PathTo(call[u].key, lvl[u]))'
          BY <1>1, <5>1 DEF Unmoved, PathTo, Pos
        <5>4. map'[call[u].key] = Null
          BY <1>1, <1>3, <3>0, <4>2, <5>2, <5>3 DEF LooksRight, Unmoved
        <5>5. (IF call[u].op = "get" THEN Null ELSE "element_not_found") \in M!Answers(call[u], map')
          <6> HIDE DEF map
          <6> QED
            BY <3>0, <5>4 DEF M!Answers
        <5>6. M!Answers(call[u], map)' = M!Answers(call[u], map')
          BY <1>1 DEF Unmoved, M!Answers
        <5>7. M!Answers(call[u], map') \subseteq could'[u]
          BY <1>2, <1>5, <3>0, <5>6 DEF AnswersOK
        <5> QED
          BY <1>1, <5>5, <5>7 DEF Missed, Unmoved
      <4> QED
        BY <4>1, <4>2
    <3> QED
      BY <3>1, <3>2, <3>3
  <2>3. ASSUME (pc[u] \in Ensuring /\ call[u].op = "get") \/ pc[u] = "m_reload"
        PROVE  At(u)' = Array \/ Missed(u)'
    <3>1. Open(u)
      BY <2>3 DEF Open, Ensuring
    <3> QED
      BY <1>7, <1>9, <2>3, <3>1 DEF CallOK, Follows
  <2>4. loc'[u] = (PathTo(call[u].key, lvl[u]))' <=> loc[u] = PathTo(call[u].key, lvl[u])
    BY <1>1 DEF Unmoved, PathTo, Pos
  <2> QED
    BY <1>1, <1>2, <1>7, <2>1, <2>2, <2>3, <2>4 DEF Follows, Unmoved
<1> QED
  BY <1>5, <1>6, <1>8, <1>10 DEF CallOK

-----------------------------------------------------------------------------
(* Kinds of steps                                                          *)

MStep == (map' = map /\ UNCHANGED <<call, could, res>>) \/ M!MNext

\* Nothing that is in the map changes.
Leaves(t) == map' = map /\ Replaces(t)

LEMMA LeavesTree ==
  ASSUME RInv, WInv', NEW t \in Thread, tree' = tree,
         \A n \in Node : InTree(n) => heap'[n] = heap[n]
  PROVE  Leaves(t)
<1>1. map' = map
  BY SameMap DEF RInv
<1>2. Replaces(t)
  BY DEF Replaces
<1> QED
  BY <1>1, <1>2 DEF Leaves

LEMMA LeavesAll ==
  ASSUME RInv, WInv', NEW t \in Thread, tree' = tree, heap' = heap
  PROVE  Leaves(t)
BY LeavesTree

LEMMA StepOK ==
  ASSUME RInv, WInv', NEW t \in Thread, Around(t), HistoryKept(t), Replaces(t), HistoryType',
         CallOK(t)'
  PROVE  RInv'
<1>1. \A u \in Thread : CallOK(u)'
  BY OthersCall DEF RInv
<1>2. UpdatesAlone(role)'
  BY DEF RInv, Around, Others, UpdatesAlone
<1> QED
  BY <1>1, <1>2 DEF RInv

\* A step inside a call, of which the map knows nothing
LEMMA HiddenStep ==
  ASSUME RInv, WInv', NEW t \in Thread, Around(t), Leaves(t), UNCHANGED <<call, could, res>>,
         Open(t), Open(t)', NewOK(t)', ReadOK(t)', Follows(t)'
  PROVE  RInv' /\ MStep
<1>1. CallOK(t) /\ HistoryType
  BY DEF RInv
<1>2. AnswersOK(t)'
  BY <1>1 DEF CallOK, AnswersOK, Leaves, Open, M!Answers
<1>3. HistoryKept(t) /\ HistoryType' /\ Replaces(t)
  BY <1>1 DEF HistoryKept, HistoryType, Leaves
<1> QED
  BY <1>2, <1>3, StepOK DEF CallOK, MStep, Leaves

\* A call is decided.
LEMMA DecidedStep ==
  ASSUME RInv, WInv', NEW t \in Thread, Around(t), Leaves(t), UNCHANGED <<call, could>>,
         pc[t] \notin {"idle", "clear"}, pc'[t] = "clear",
         NEW a \in Value \union {Null, "success", "already_present", "element_not_found",
                                 "expected_value_mismatch"},
         a \in could[t], res' = [res EXCEPT ![t] = a]
  PROVE  RInv' /\ MStep
<1>1. CallOK(t) /\ HistoryType /\ LocalType(t) /\ ThreadOK(t)'
  BY DEF RInv, WInv, WType
<1>2. a # NoCall
  BY AnswerAssumption
<1>3. call[t] # NoCall /\ res[t] = NoCall
  BY <1>1 DEF CallOK, AnswersOK, LocalType
<1>4. res'[t] = a /\ DOMAIN res' = Thread
  BY <1>1 DEF HistoryType
<1>5. CallOK(t)'
  <2>1. AnswersOK(t)'
    BY <1>2, <1>4 DEF AnswersOK, Open
  <2>2. NewOK(t)'
    BY <1>1 DEF ThreadOK, MineOK, NewOK
  <2>3. ReadOK(t)' /\ Follows(t)'
    BY DEF ReadOK, Follows, Open, Ensuring
  <2> QED
    BY <2>1, <2>2, <2>3 DEF CallOK
<1>6. HistoryKept(t) /\ HistoryType' /\ Replaces(t)
  BY <1>1, <1>4 DEF HistoryKept, HistoryType, Leaves
<1>7. M!Decide(t, a)
  BY <1>3 DEF M!Decide, Leaves
<1> QED
  BY <1>5, <1>6, <1>7, StepOK DEF MStep, M!MNext

\* A new node is not known to anyone else.
LEMMA NewNode ==
  ASSUME RInv, NEW t \in Thread
  PROVE  \A n \in Node : New(t, n) =>
            /\ \A m \in Node : InTree(m) => heap'[m] = heap[m]
            /\ heap'[n].val = call[t].val
            /\ \A m \in Node : heap[m] # Free => heap'[m] = heap[m]
<1> SUFFICES ASSUME NEW n \in Node, New(t, n)
             PROVE  /\ \A m \in Node : InTree(m) => heap'[m] = heap[m]
                    /\ heap'[n].val = call[t].val
                    /\ \A m \in Node : heap[m] # Free => heap'[m] = heap[m]
  OBVIOUS
<1>1. heap[n] = Free /\ ~InTree(n)
  BY FreeIsNothing DEF New, RInv
<1> QED
  BY <1>1 DEF New, RInv, WInv, WType, HeapType

\* What the place that a thread looks at says is true now.
LEMMA Sees ==
  ASSUME RInv, NEW t \in Thread, Open(t)
  PROVE  /\ call[t] # NoCall /\ call[t] \in AllCalls /\ lvl[t] < Levels /\ At(t) \in Content
         /\ At(t) \in Node =>
               /\ heap[At(t)] # Free /\ heap[At(t)].val \in Value
               /\ heap[At(t)].key = call[t].key =>
                     /\ call[t].op = "get" => heap[At(t)].val \in could[t]
                     /\ call[t].op = "insert" => "already_present" \in could[t]
                     /\ call[t].op \in {"update", "remove"} /\ heap[At(t)].val \notin call[t].exp =>
                           "expected_value_mismatch" \in could[t]
         /\ /\ call[t].op # "insert"
            /\ At(t) = Null \/ (At(t) \in Node /\ heap[At(t)].key # call[t].key)
            => Missed(t)
<1> DEFINE k == call[t].key
           x == At(t)
<1>1. /\ call[t] # NoCall /\ call[t] \in AllCalls /\ lvl[t] < Levels /\ PlaceOK(t) /\ CallOK(t)
      /\ call[t].op \in {"insert", "get", "update", "remove"}
  BY CallAssumption DEF Open, RInv, WInv, WType, LocalType, ThreadOK
<1>2. /\ x \in Content
      /\ x \in Node => heap[x] # Free /\ heap[x].val \in Value /\ heap[x].val # Null
      /\ x \in Node /\ heap[x].key = k => map[k] = heap[x].val
      /\ loc[t] = PathTo(k, lvl[t]) /\ (x = Null \/ (x \in Node /\ heap[x].key # k)) =>
            map[k] = Null
  BY <1>1, LookingRight DEF LooksRight, RInv
<1>3. M!Answers(call[t], map) \subseteq could[t]
  BY <1>1 DEF CallOK, AnswersOK
<1> HIDE DEF x, map
<1>4. x \in Node /\ heap[x].key = k =>
         /\ call[t].op = "get" => heap[x].val \in could[t]
         /\ call[t].op = "insert" => "already_present" \in could[t]
         /\ call[t].op \in {"update", "remove"} /\ heap[x].val \notin call[t].exp =>
               "expected_value_mismatch" \in could[t]
  BY <1>2, <1>3 DEF M!Answers
<1>5. ASSUME call[t].op # "insert", x = Null \/ (x \in Node /\ heap[x].key # k)
      PROVE  Missed(t)
  <2>1. CASE loc[t] = PathTo(k, lvl[t])
    <3>1. map[k] = Null
      BY <1>2, <1>5, <2>1
    <3> QED
      BY <1>1, <1>3, <1>5, <3>1 DEF Missed, M!Answers
  <2>2. CASE loc[t] # PathTo(k, lvl[t])
    BY <1>1, <1>5, <2>2 DEF CallOK, Follows, PlaceOK
  <2> QED
    BY <2>1, <2>2
<1> QED
  BY <1>1, <1>2, <1>4, <1>5 DEF x

\* A call ends without its key.
LEMMA MissStep ==
  ASSUME RInv, WInv', NEW t \in Thread, Around(t), tree' = tree, heap' = heap,
         UNCHANGED <<call, could>>, Open(t), Missed(t), Miss(t)
  PROVE  RInv' /\ MStep
<1>1. Leaves(t)
  BY LeavesAll
<1>2. PICK a \in {Null, "element_not_found"} :
         a = (IF call[t].op = "get" THEN Null ELSE "element_not_found")
  OBVIOUS
<1>3. a \in could[t] /\ res' = [res EXCEPT ![t] = a] /\ pc'[t] = "clear"
  BY <1>2 DEF Missed, Miss, Answer, RInv, WInv, WType, Domains
<1> QED
  BY <1>1, <1>3, DecidedStep DEF Open

\* A search goes down, or a get stays where it is and knows that its key has been gone.
LEMMA NextRoundStep ==
  ASSUME RInv, WInv', NEW t \in Thread, Around(t), tree' = tree, heap' = heap,
         UNCHANGED <<call, could>>, Open(t), call[t].op # "insert", NEW l, NextRound(t, l),
         \/ l = Append(loc[t], pos(t)) /\ At(t) = Array
         \/ l = loc[t] /\ call[t].op = "get" /\ Missed(t)
  PROVE  RInv' /\ MStep
<1>1. /\ call[t] # NoCall /\ lvl[t] \in 0..(Levels - 1) /\ WInv /\ Domains /\ PlaceOK(t) /\ CallOK(t)
      /\ ThreadOK(t)' /\ DOMAIN lvl = Thread /\ DOMAIN loc = Thread /\ DOMAIN pc = Thread
  BY LevelsType DEF Open, RInv, WInv, WType, LocalType, ThreadOK, Domains
<1>2. loc'[t] = l /\ lvl'[t] = lvl[t] + 1
  BY <1>1 DEF NextRound
<1>3. \/ l = PathTo(call[t].key, lvl[t] + 1) /\ lvl[t] + 1 < Levels
      \/ Missed(t)
  <2>1. CASE l = Append(loc[t], pos(t)) /\ At(t) = Array
    <3>1. CASE loc[t] = PathTo(call[t].key, lvl[t])
      BY <1>1, <2>1, <3>1, LevelsType, DeeperPlace
    <3>2. CASE loc[t] # PathTo(call[t].key, lvl[t])
      BY <1>1, <3>2 DEF CallOK, Follows, PlaceOK
    <3> QED
      BY <3>1, <3>2
  <2>2. CASE l = loc[t] /\ call[t].op = "get" /\ Missed(t)
    BY <2>2
  <2> QED
    BY <2>1, <2>2
<1>4. CASE lvl[t] + 1 < Levels
  <2>1. pc'[t] = (IF call[t].op = "get" THEN "get" ELSE "modify") /\ res' = res
    BY <1>1, <1>4 DEF NextRound
  <2>2. Open(t)' /\ NewOK(t)' /\ ReadOK(t)'
    BY <1>1, <2>1 DEF Open, ThreadOK, MineOK, NewOK, ReadOK
  <2>3. Missed(t)' <=> Missed(t)
    BY DEF Missed
  <2>4. Follows(t)'
    <3>1. loc'[t] = (PathTo(call[t].key, lvl[t]))' \/ Missed(t)'
      BY <1>2, <1>3, <2>3 DEF PathTo, Pos
    <3> QED
      BY <2>1, <3>1 DEF Follows, Ensuring
  <2>5. Leaves(t)
    BY LeavesAll
  <2> QED
    BY <2>1, <2>2, <2>4, <2>5, HiddenStep
<1>5. CASE ~(lvl[t] + 1 < Levels)
  <2>1. Miss(t) /\ Missed(t)
    BY <1>3, <1>5 DEF NextRound
  <2> QED
    BY <2>1, MissStep
<1> QED
  BY <1>4, <1>5

-----------------------------------------------------------------------------
(* The steps of insert                                                     *)

\* An insert that has not found a node to compare with
PlainPC == {"insert", "i_reload", "i_watch", "i_check", "x_load", "x_watch", "x_check", "x_cas",
            "x_last"}

LEMMA PlainStep ==
  ASSUME RInv, WInv', NEW t \in Thread, Around(t), Leaves(t), UNCHANGED <<call, could, res>>,
         Open(t), pc'[t] \in PlainPC
  PROVE  RInv' /\ MStep
<1>1. ThreadOK(t)'
  BY DEF WInv
<1>2. NewOK(t)' /\ ReadOK(t)'
  BY <1>1 DEF PlainPC, ThreadOK, MineOK, NewOK, ReadOK
<1>3. Follows(t)' /\ Open(t)'
  BY <1>1 DEF PlainPC, ThreadOK, PlaceOK, Follows, Inserting, Ensuring, Open
<1> QED
  BY <1>2, <1>3, HiddenStep

LEMMA ConsiderRef ==
  ASSUME RInv, WInv', NEW t \in Thread, Considering(t)
  PROVE  RInv' /\ MStep
<1>0. pc[t] \in ConsiderPC /\ InsertConsider(t, At(t)) /\ WInv /\ DOMAIN pc = Thread
  BY ConsiderStep DEF RInv, WInv, WType, Domains
<1>1. /\ Around(t) /\ Open(t) /\ tree' = tree /\ UNCHANGED <<call, could, res>>
      /\ ThreadOK(t)'
  BY <1>0, ConsiderInv DEF ConsiderPC, InsertConsider, Open, history, WInv
<1>2. CASE heap' = heap /\ pc'[t] \in {"insert", "i_watch"}
  <2>1. Leaves(t)
    BY <1>1, <1>2, LeavesAll
  <2> QED
    BY <1>1, <1>2, <2>1, PlainStep DEF PlainPC
<1>3. CASE pc'[t] = "i_cas" /\ \E n \in Node : New(t, n)
  <2>1. PICK n \in Node : New(t, n)
    BY <1>3
  <2>2. Leaves(t)
    BY <1>1, <2>1, NewNode, LeavesTree
  <2>3. NewOK(t)'
    <3>1. mine'[t] = n /\ heap'[n].val = call[t].val
      BY <1>0, <2>1, NewNode DEF New, WInv, WType, Domains
    <3> QED
      BY <1>1, <1>3, <3>1 DEF NewOK
  <2>4. ReadOK(t)' /\ Open(t)' /\ Follows(t)'
    BY <1>1, <1>3 DEF ReadOK, Open, Follows, Ensuring, ThreadOK, PlaceOK, Inserting
  <2> QED
    BY <1>1, <2>2, <2>3, <2>4, HiddenStep
<1>4. \/ heap' = heap /\ pc'[t] \in {"insert", "i_watch"}
      \/ pc'[t] = "i_cas" /\ \E n \in Node : New(t, n)
  BY <1>0 DEF InsertConsider, Descend
<1> QED
  BY <1>2, <1>3, <1>4

\* Where the CAS of an insert succeeds its key is not in the map.
LEMMA InsertCasRef ==
  ASSUME RInv, WInv', NEW t \in Thread, InsertCas(t)
  PROVE  RInv' /\ MStep
<1>1. /\ WInv /\ LocalType(t) /\ ThreadOK(t) /\ CallOK(t) /\ HistoryType /\ Domains
      /\ pc[t] = "i_cas" /\ mine[t] # Null /\ mine[t] \in Node /\ At(t) = Null /\ lvl[t] < Levels
      /\ call[t] # NoCall /\ call[t] \in AllCalls /\ call[t].op = "insert" /\ Open(t)
      /\ loc[t] = PathTo(call[t].key, lvl[t])
  BY DEF RInv, WInv, WType, LocalType, ThreadOK, MineOK, PlaceOK, Inserting, InsertCas, Goto, Open
<1>2. /\ pc' = [pc EXCEPT ![t] = "i_count"] /\ mine' = [mine EXCEPT ![t] = Null]
      /\ Put(t, mine[t]) /\ Effect(t)
      /\ UNCHANGED <<heap, watched, size, role, loc, lvl, node, seen, call, res>>
  BY DEF InsertCas, Goto, Effect
<1>3. Around(t) /\ Others(t)
  BY <1>1, InsertCasInv DEF Around
<1>4. Placed(t)
  BY <1>1, <1>2, <1>3, Contents DEF Placed, ThreadOK, MineOK, LocalType
<1>5. map' = [map EXCEPT ![call[t].key] = heap[mine[t]].val]
  <2>1. map' = [map EXCEPT ![call[t].key] = IF mine[t] = Null THEN Null ELSE heap[mine[t]].val]
    BY <1>1, <1>4, PutMap
  <2> HIDE DEF map
  <2> QED
    BY <1>1, <2>1
<1>6. map[call[t].key] = Null /\ heap[mine[t]].val = call[t].val
  BY <1>1, LookingRight DEF LooksRight, CallOK, NewOK
<1>7. "success" \notin could[t]
  BY <1>1 DEF CallOK, AnswersOK
<1>8. could' = [u \in Thread |->
         IF u = t THEN {"success"}
         ELSE IF call[u] = NoCall \/ "success" \in could[u] THEN could[u]
         ELSE could[u] \union M!Answers(call[u], map')]
  BY <1>2 DEF Effect, M!Witness
<1>9. M!Apply(t)
  <2>1. M!Witness(t, map')
    BY <1>2 DEF Effect
  <2> HIDE DEF map
  <2> QED
    BY <1>1, <1>2, <1>5, <1>6, <1>7, <2>1 DEF M!Apply, M!Applies, M!After
<1>10. HistoryKept(t) /\ HistoryType' /\ could'[t] = {"success"}
  BY <1>1, <1>2, <1>8 DEF HistoryKept, HistoryType
<1>11. Replaces(t)
  <2>1. \A p \in DOMAIN tree : \A i \in DOMAIN tree[p] :
           tree'[p][i] = IF p = loc[t] /\ i = pos(t) THEN mine[t] ELSE tree[p][i]
    BY <1>1, <1>4, PutPlace
  <2> QED
    BY <1>1, <2>1, Contents DEF Replaces, At
<1>12. CallOK(t)'
  <2>1. AnswersOK(t)'
    BY <1>1, <1>2, <1>10 DEF CallOK, AnswersOK, Open, Domains
  <2>2. NewOK(t)' /\ ReadOK(t)' /\ Follows(t)'
    BY <1>1, <1>2 DEF NewOK, ReadOK, Follows, Open, Ensuring, Domains
  <2> QED
    BY <2>1, <2>2 DEF CallOK
<1>13. M!MNext
  BY <1>9 DEF M!MNext
<1> QED
  BY <1>3, <1>10, <1>11, <1>12, <1>13, StepOK DEF MStep

LEMMA InsertCasFailsRef ==
  ASSUME RInv, WInv', NEW t \in Thread, InsertCasFails(t)
  PROVE  RInv' /\ MStep
<1>1. /\ Around(t) /\ Open(t) /\ pc'[t] \in PlainPC /\ UNCHANGED <<call, could, res>>
      /\ tree' = tree /\ heap' = [heap EXCEPT ![mine[t]] = Free] /\ Owns(t, mine[t])
  BY InsertCasFailsInv
     DEF InsertCasFails, DeleteMine, Goto, Open, PlainPC, history, Owns, RInv, WInv, WType, Domains,
         LocalType, ThreadOK, MineOK
<1>2. \A n \in Node : InTree(n) => heap'[n] = heap[n]
  BY <1>1 DEF RInv, WInv, WType, HeapType, OwnersOK
<1>3. Leaves(t)
  BY <1>1, <1>2, LeavesTree
<1> QED
  BY <1>1, <1>3, PlainStep

LEMMA InsertCountRef ==
  ASSUME RInv, WInv', NEW t \in Thread, InsertCount(t)
  PROVE  RInv' /\ MStep
<1>1. /\ Around(t) /\ pc[t] = "i_count" /\ pc'[t] = "clear" /\ UNCHANGED <<call, could>>
      /\ tree' = tree /\ heap' = heap /\ res' = [res EXCEPT ![t] = "success"]
  BY InsertCountInv DEF InsertCount, Answer, RInv, WInv, WType, Domains
<1>2. "success" \in could[t]
  BY <1>1 DEF RInv, CallOK, AnswersOK
<1>3. Leaves(t)
  BY <1>1, LeavesAll
<1> QED
  BY <1>1, <1>2, <1>3, DecidedStep

LEMMA InsertCheckRef ==
  ASSUME RInv, WInv', NEW t \in Thread, InsertCheck(t)
  PROVE  RInv' /\ MStep
<1>1. /\ Around(t) /\ Open(t) /\ Open(t)' /\ pc'[t] = "i_hash" /\ UNCHANGED <<call, could, res>>
      /\ tree' = tree /\ heap' = heap /\ At(t) = node[t] /\ node'[t] = node[t]
      /\ call[t].op = "insert" /\ ThreadOK(t)'
  BY InsertCheckInv DEF InsertCheck, Open, Keep, history, RInv, WInv, WType, Domains, ThreadOK,
     PlaceOK,
     Inserting
<1>2. ReadOK(t)'
  BY <1>1, Sees DEF ReadOK
<1>3. NewOK(t)' /\ Follows(t)'
  BY <1>1 DEF ThreadOK, MineOK, NewOK, Follows, Ensuring
<1>4. Leaves(t)
  BY <1>1, LeavesAll
<1> QED
  BY <1>1, <1>2, <1>3, <1>4, HiddenStep

LEMMA InsertHashRef ==
  ASSUME RInv, WInv', NEW t \in Thread, InsertHash(t)
  PROVE  RInv' /\ MStep
<1>1. /\ Around(t) /\ Open(t) /\ UNCHANGED <<call, could>> /\ pc[t] = "i_hash" /\ node[t] \in Node
      /\ tree' = tree /\ heap' = heap /\ DOMAIN pc = Thread
  BY InsertHashInv DEF InsertHash, Open, locals, RInv, WInv, WType, Domains
<1>2. Leaves(t)
  BY <1>1, LeavesAll
<1>3. CASE heap[node[t]].key = call[t].key /\ Answer(t, "already_present")
  <2>1. pc'[t] = "clear" /\ res' = [res EXCEPT ![t] = "already_present"]
    BY <1>1, <1>3 DEF Answer
  <2>2. "already_present" \in could[t]
    BY <1>1, <1>3 DEF RInv, CallOK, ReadOK
  <2> QED
    BY <1>1, <1>2, <2>1, <2>2, DecidedStep
<1>4. CASE pc' = [pc EXCEPT ![t] = "x_load"] /\ res' = res
  BY <1>1, <1>2, <1>4, PlainStep DEF PlainPC
<1> QED
  BY <1>3, <1>4 DEF InsertHash

LEMMA InsertOtherRef ==
  ASSUME RInv, WInv', NEW t \in Thread,
         InsertReload(t) \/ InsertWatch(t) \/ ExpandLoad(t) \/ ExpandWatch(t)
  PROVE  RInv' /\ MStep
<1>1. Around(t)
  BY InsertReloadInv, InsertWatchInv, ExpandLoadInv, ExpandWatchInv DEF RInv
<1>2. /\ Open(t) /\ tree' = tree /\ heap' = heap /\ UNCHANGED <<call, could, res>>
  BY DEF InsertReload, InsertWatch, ExpandLoad, ExpandWatch, Watch, Goto, Open, Keep, history
<1>3. pc'[t] \in PlainPC
  BY DEF InsertReload, InsertWatch, ExpandLoad, ExpandWatch, Watch, Goto, Descend, PlainPC, RInv,
     WInv, WType, Domains
<1> QED
  BY <1>1, <1>2, <1>3, LeavesAll, PlainStep

LEMMA ExpandCheckRef ==
  ASSUME RInv, WInv', NEW t \in Thread, ExpandCheck(t)
  PROVE  RInv' /\ MStep
<1>1. Around(t)
  BY ExpandCheckInv DEF RInv
<1>2. /\ Open(t) /\ tree' = tree /\ heap' = heap /\ UNCHANGED <<call, could, res>>
      /\ pc'[t] \in PlainPC
  BY DEF ExpandCheck, Open, Keep, history, PlainPC, RInv, WInv, WType, Domains
<1> QED
  BY <1>1, <1>2, LeavesAll, PlainStep

LEMMA ExpandCasRef ==
  ASSUME RInv, WInv', NEW t \in Thread, ExpandCas(t)
  PROVE  RInv' /\ MStep
<1>1. Around(t)
  BY ExpandCasInv DEF RInv
<1>2. /\ Open(t) /\ UNCHANGED <<call, could, res>> /\ pc'[t] \in PlainPC
  BY DEF ExpandCas, Goto, Open, history, PlainPC, RInv, WInv, WType, Domains
<1>3. Leaves(t)
  <2>1. map' = map
    BY ExpandMap DEF RInv
  <2>2. Replaces(t)
    <3>1. CASE At(t) = node[t]
      BY <3>1, ExpandPlace DEF Replaces, RInv
    <3>2. CASE At(t) # node[t]
      BY <3>2 DEF Replaces, ExpandCas
    <3> QED
      BY <3>1, <3>2
  <2> QED
    BY <2>1, <2>2 DEF Leaves
<1> QED
  BY <1>1, <1>2, <1>3, PlainStep

-----------------------------------------------------------------------------
(* The steps of get, update and remove                                     *)

\* What a step that only reads leaves alone
Reads(t) == /\ tree' = tree /\ heap' = heap /\ UNCHANGED <<call, could>>
            /\ pc[t] \in Reading \union Ensuring \union (Modifying \ {"s_read"})

LEMMA ReadsFacts ==
  ASSUME RInv, NEW t \in Thread, Reads(t), WInv'
  PROVE  /\ Open(t) /\ Leaves(t) /\ call[t].op # "insert" /\ At(t) \in Content
         /\ pc'[t] \notin {"i_cas", "m_cas"} => NewOK(t)'
         /\ Missed(t)' <=> Missed(t)
<1>1. Open(t)
  BY DEF Reads, Open, Reading, Ensuring, Modifying
<1>2. Leaves(t)
  BY LeavesAll DEF Reads
<1>3. call[t].op # "insert"
  BY DEF Reads, RInv, WInv, ThreadOK, PlaceOK
<1>4. At(t) \in Content
  BY <1>1, Sees
<1>5. pc'[t] \notin {"i_cas", "m_cas"} => NewOK(t)'
  BY DEF WInv, ThreadOK, MineOK, NewOK
<1> QED
  BY <1>1, <1>2, <1>3, <1>4, <1>5 DEF Missed, Reads

LEMMA LoadRef ==
  ASSUME RInv, WInv', NEW t \in Thread, GetLoad(t) \/ ModifyLoad(t)
  PROVE  RInv' /\ MStep
<1>1. Around(t)
  BY GetLoadInv, ModifyLoadInv DEF RInv
<1>2. Reads(t) /\ DOMAIN pc = Thread
  BY DEF GetLoad, ModifyLoad, Reads, Reading, Modifying, RInv, WInv, WType, Domains
<1>3. \/ At(t) = Array /\ Deeper(t)
      \/ At(t) = Null /\ Miss(t)
      \/ /\ At(t) \in Node /\ pc'[t] \in {"g_watch", "m_watch"} /\ res' = res /\ node'[t] = At(t)
         /\ loc'[t] = loc[t] /\ lvl'[t] = lvl[t]
  BY <1>2 DEF GetLoad, ModifyLoad, RInv, WInv, WType, Domains
<1>4. CASE At(t) = Array /\ Deeper(t)
  BY <1>1, <1>2, <1>4, ReadsFacts, NextRoundStep DEF Deeper, Reads
<1>5. CASE At(t) = Null /\ Miss(t)
  BY <1>1, <1>2, <1>5, ReadsFacts, Sees, MissStep DEF Reads
<1>6. CASE /\ At(t) \in Node /\ pc'[t] \in {"g_watch", "m_watch"} /\ res' = res
           /\ node'[t] = At(t) /\ loc'[t] = loc[t] /\ lvl'[t] = lvl[t]
  <2>1. Open(t)' /\ ReadOK(t)'
    BY <1>6 DEF Open, ReadOK
  <2>2. At(t)' = At(t) /\ (Missed(t)' <=> Missed(t))
    BY <1>2, <1>6, ReadsFacts DEF Reads, At, pos
  <2>3. Open(t) /\ Leaves(t) /\ NewOK(t)'
    BY <1>2, <1>6, ReadsFacts
  <2>4. call[t].op = "get" => loc'[t] = (PathTo(call[t].key, lvl[t]))' \/ Missed(t)'
    <3>1. call[t].op = "get" => loc[t] = PathTo(call[t].key, lvl[t]) \/ Missed(t)
      BY <2>3 DEF RInv, CallOK, Follows
    <3> QED
      BY <1>2, <1>6, <2>2, <3>1 DEF Reads, PathTo, Pos
  <2>5. Follows(t)'
    BY <1>2, <1>6, <2>2, <2>4 DEF Follows, Ensuring, Reads
  <2> QED
    BY <1>1, <1>2, <1>6, <2>1, <2>3, <2>5, HiddenStep DEF Reads
<1> QED
  BY <1>3, <1>4, <1>5, <1>6

\* A step that stays at the same place, and the answer not decided
Stays(t) == Reads(t) /\ UNCHANGED <<loc, lvl, res>> /\ Open(t)'

LEMMA StaysStep ==
  ASSUME RInv, WInv', NEW t \in Thread, Around(t), Stays(t), pc'[t] # "m_cas", ReadOK(t)',
         pc'[t] \in {"g_watch", "g_check", "m_read", "m_cas"} =>
            At(t) = node'[t] \/ At(t) = Array \/ Missed(t),
         (pc'[t] \in Ensuring /\ call[t].op = "get") \/ pc'[t] = "m_reload" =>
            At(t) = Array \/ Missed(t)
  PROVE  RInv' /\ MStep
<1>1. Reads(t) /\ loc' = loc /\ lvl' = lvl /\ res' = res /\ Open(t)' /\ tree' = tree
  BY DEF Stays, Reads
<1>2. At(t)' = At(t) /\ (Missed(t)' <=> Missed(t)) /\ call' = call
  BY <1>1, ReadsFacts DEF At, pos, Reads
<1>3. Open(t) /\ Leaves(t) /\ call[t].op # "insert"
  BY <1>1, ReadsFacts
<1>4. NewOK(t)'
  <2>1. pc'[t] # "i_cas"
    BY <1>2, <1>3 DEF WInv, ThreadOK, PlaceOK, Inserting
  <2> QED
    BY <1>1, <2>1, ReadsFacts
<1>5. call[t].op = "get" => loc'[t] = (PathTo(call[t].key, lvl[t]))' \/ Missed(t)'
  <2>1. call[t].op = "get" => loc[t] = PathTo(call[t].key, lvl[t]) \/ Missed(t)
    BY <1>3 DEF RInv, CallOK, Follows
  <2> QED
    BY <1>1, <1>2, <2>1 DEF PathTo, Pos
<1>6. Follows(t)'
  BY <1>2, <1>5 DEF Follows
<1> QED
  BY <1>1, <1>3, <1>4, <1>6, HiddenStep DEF Reads

LEMMA WatchRef ==
  ASSUME RInv, WInv', NEW t \in Thread, GetWatch(t) \/ ModifyWatch(t) \/ EnsureWatch(t)
  PROVE  RInv' /\ MStep
<1>1. Around(t)
  BY GetWatchInv, ModifyWatchInv, EnsureWatchInv DEF RInv
<1>2. /\ Stays(t) /\ node' = node
      /\ \/ pc[t] = "g_watch" /\ pc'[t] = "g_check"
         \/ pc[t] = "m_watch" /\ pc'[t] = "m_check"
         \/ pc[t] = "e_watch" /\ pc'[t] = "e_check"
  BY DEF GetWatch, ModifyWatch, EnsureWatch, Watch, Goto, Keep, history, Stays, Reads, Open,
     Reading,
     Modifying, Ensuring, RInv, WInv, WType, Domains
<1>3. ReadOK(t)'
  BY <1>2 DEF ReadOK
<1> QED
  BY <1>1, <1>2, <1>3, StaysStep DEF RInv, CallOK, Follows, Ensuring

LEMMA EnsureRef ==
  ASSUME RInv, WInv', NEW t \in Thread, EnsureLoad(t) \/ EnsureCheckFails(t)
  PROVE  RInv' /\ MStep
<1>1. Around(t)
  BY EnsureLoadInv, EnsureCheckFailsInv DEF RInv
<1>2. /\ Stays(t)
      /\ pc[t] \in Ensuring /\ pc'[t] \in Ensuring
  BY DEF EnsureLoad, EnsureCheckFails, Goto, Keep, history, Stays, Reads, Open, Reading,
     Modifying, Ensuring, RInv, WInv, WType, Domains
<1>3. ReadOK(t)'
  BY <1>2 DEF ReadOK, Ensuring
<1> QED
  BY <1>1, <1>2, <1>3, StaysStep DEF RInv, CallOK, Follows, Ensuring

\* A node that is still where it was found tells what the map has for the key.
LEMMA FoundRef ==
  ASSUME RInv, WInv', NEW t \in Thread, Around(t), Stays(t), At(t) = node'[t], At(t) \in Node,
         pc'[t] \in {"g_read", "m_read"}
  PROVE  RInv' /\ MStep
<1>1. Reads(t) /\ heap' = heap /\ UNCHANGED <<call, could>> /\ PlaceOK(t)'
  BY DEF Stays, Reads, WInv, ThreadOK
<1>2. Open(t) /\ call[t].op # "insert" /\ (Missed(t)' <=> Missed(t))
  BY <1>1, ReadsFacts
<1>3. /\ pc'[t] = "g_read" => call[t].op = "get"
      /\ pc'[t] = "m_read" => call[t].op \in {"update", "remove"}
  BY <1>1 DEF PlaceOK, Reading, Modifying
<1>4. ReadOK(t)'
  BY <1>1, <1>2, <1>3, Sees DEF ReadOK
<1> QED
  BY <1>4, StaysStep DEF Ensuring

LEMMA CheckRef ==
  ASSUME RInv, WInv', NEW t \in Thread, GetCheck(t) \/ ModifyCheck(t)
  PROVE  RInv' /\ MStep
<1>1. Around(t)
  BY GetCheckInv, ModifyCheckInv DEF RInv
<1>2. /\ Stays(t) /\ node' = node /\ node[t] \in Node
      /\ pc[t] \in {"g_check", "m_check"} /\ (pc[t] = "m_check" => call[t].op # "get")
      /\ \/ At(t) = node[t] /\ pc'[t] \in {"g_read", "m_read"}
         \/ At(t) # node[t] /\ pc'[t] = "e_load"
  BY DEF GetCheck, ModifyCheck, Goto, Keep, history, Stays, Reads, Open, Reading,
     Modifying, Ensuring, RInv, WInv, WType, Domains, ThreadOK, PlaceOK, WithNode
<1>3. CASE At(t) = node[t] /\ pc'[t] \in {"g_read", "m_read"}
  BY <1>1, <1>2, <1>3, FoundRef
<1>4. CASE At(t) # node[t] /\ pc'[t] = "e_load"
  <2>1. ReadOK(t)'
    BY <1>4 DEF ReadOK
  <2>2. call[t].op = "get" => At(t) = Array \/ Missed(t)
    BY <1>2, <1>4 DEF RInv, CallOK, Follows
  <2> QED
    BY <1>1, <1>2, <1>4, <2>1, <2>2, StaysStep
<1> QED
  BY <1>2, <1>3, <1>4

LEMMA GetReadRef ==
  ASSUME RInv, WInv', NEW t \in Thread, GetRead(t)
  PROVE  RInv' /\ MStep
<1>1. /\ Around(t) /\ Reads(t) /\ pc[t] = "g_read" /\ node[t] \in Node /\ tree' = tree /\ heap' = heap
      /\ UNCHANGED <<call, could>> /\ DOMAIN pc = Thread
  BY GetReadInv DEF GetRead, locals, Reads, Reading, RInv, WInv, WType, Domains
<1>2. Open(t) /\ Leaves(t)
  BY <1>1, ReadsFacts
<1>3. CASE heap[node[t]].key # call[t].key
  <2>1. Miss(t) /\ Missed(t)
    BY <1>1, <1>3 DEF GetRead, RInv, CallOK, ReadOK
  <2> QED
    BY <1>1, <1>2, <2>1, MissStep
<1>4. CASE heap[node[t]].key = call[t].key
  <2>1. PICK a : a = heap[node[t]].val
    OBVIOUS
  <2>2. pc'[t] = "clear" /\ res' = [res EXCEPT ![t] = a] /\ a \in could[t]
    BY <1>1, <1>4, <2>1 DEF GetRead, Answer, RInv, CallOK, ReadOK
  <2>3. a \in Value
    <3>1. Uses(t, node[t])
      BY <1>1 DEF Uses, Using
    <3>2. heap[node[t]] # Free
      BY <1>1, <3>1 DEF RInv, WInv, ThreadOK, WatchOK
    <3> QED
      BY <1>1, <2>1, <3>2 DEF RInv, WInv, WType, HeapType
  <2> QED
    BY <1>1, <1>2, <2>2, <2>3, DecidedStep
<1> QED
  BY <1>3, <1>4

LEMMA AgainRef ==
  ASSUME RInv, WInv', NEW t \in Thread, GetAgain(t) \/ ModifyAgain(t)
  PROVE  RInv' /\ MStep
<1>1. Around(t)
  BY GetAgainInv, ModifyAgainInv DEF RInv
<1>2. /\ Reads(t) /\ pc[t] = "e_check" /\ At(t) = node[t] /\ node' = node /\ DOMAIN pc = Thread
      /\ tree' = tree /\ heap' = heap /\ UNCHANGED <<call, could>>
  BY DEF GetAgain, ModifyAgain, Reads, Ensuring, RInv, WInv, WType, Domains
<1>3. call[t].op = "get" => At(t) = Array \/ Missed(t)
  BY <1>2 DEF RInv, CallOK, Follows, Ensuring
<1>4. Open(t) /\ Leaves(t) /\ call[t].op # "insert"
  BY <1>2, ReadsFacts
<1>5. CASE At(t) = Array /\ Deeper(t)
  BY <1>1, <1>2, <1>4, <1>5, NextRoundStep DEF Deeper
<1>6. CASE At(t) = Null /\ Miss(t)
  BY <1>1, <1>2, <1>4, <1>6, Sees, MissStep
<1>7. CASE At(t) \in Node /\ call[t].op = "get" /\ NextRound(t, loc[t])
  BY <1>1, <1>2, <1>3, <1>4, <1>7, Contents, NextRoundStep
<1>8. CASE At(t) \in Node /\ pc' = [pc EXCEPT ![t] = "m_read"] /\ UNCHANGED <<loc, lvl, res>>
  <2>1. Stays(t) /\ pc'[t] = "m_read"
    BY <1>2, <1>8 DEF Stays, Open
  <2> QED
    BY <1>1, <1>2, <1>8, <2>1, FoundRef
<1> QED
  BY <1>2, <1>5, <1>6, <1>7, <1>8 DEF GetAgain, ModifyAgain

LEMMA ModifyReloadRef ==
  ASSUME RInv, WInv', NEW t \in Thread, ModifyReload(t)
  PROVE  RInv' /\ MStep
<1>1. Around(t)
  BY ModifyReloadInv DEF RInv
<1>2. /\ Reads(t) /\ pc[t] = "m_reload" /\ tree' = tree /\ heap' = heap /\ UNCHANGED <<call, could>>
  BY DEF ModifyReload, Reads, Modifying
<1>3. At(t) = Array \/ Missed(t)
  BY <1>2 DEF RInv, CallOK, Follows
<1>4. Open(t) /\ call[t].op # "insert"
  BY <1>2, ReadsFacts
<1>5. CASE At(t) = Array
  BY <1>1, <1>2, <1>4, <1>5, NextRoundStep DEF ModifyReload, Deeper
<1>6. CASE At(t) # Array
  BY <1>1, <1>2, <1>3, <1>4, <1>6, MissStep DEF ModifyReload
<1> QED
  BY <1>5, <1>6

LEMMA ModifyReadRef ==
  ASSUME RInv, WInv', NEW t \in Thread, ModifyRead(t)
  PROVE  RInv' /\ MStep
<1>1. /\ Around(t) /\ pc[t] = "m_read" /\ node[t] \in Node /\ tree' = tree /\ WInv /\ CallOK(t)
      /\ UNCHANGED <<call, could, loc, lvl, node>> /\ DOMAIN pc = Thread /\ DOMAIN mine = Thread
      /\ Open(t) /\ ThreadOK(t) /\ call[t].op \in {"update", "remove"} /\ mine[t] = Null
  BY ModifyReadInv DEF ModifyRead, Open, RInv, WInv, WType, Domains, ThreadOK, PlaceOK, MineOK,
     Modifying
<1>2. heap[node[t]] # Free
  <2>1. Uses(t, node[t])
    BY <1>1 DEF Uses, Using
  <2> QED
    BY <1>1, <2>1 DEF ThreadOK, WatchOK
<1>3. CASE heap[node[t]].key # call[t].key
  <2>1. Miss(t) /\ Missed(t) /\ heap' = heap
    BY <1>1, <1>3 DEF ModifyRead, CallOK, ReadOK
  <2> QED
    BY <1>1, <2>1, MissStep
<1>4. CASE heap[node[t]].key = call[t].key /\ heap[node[t]].val \notin call[t].exp
  <2>1. /\ pc'[t] = "clear" /\ res' = [res EXCEPT ![t] = "expected_value_mismatch"] /\ heap' = heap
        /\ "expected_value_mismatch" \in could[t]
    BY <1>1, <1>4 DEF ModifyRead, Answer, CallOK, ReadOK
  <2> QED
    BY <1>1, <2>1, LeavesAll, DecidedStep
<1>5. CASE heap[node[t]].key = call[t].key /\ heap[node[t]].val \in call[t].exp
  <2>1. /\ pc'[t] = "m_cas" /\ res' = res
        /\ IF call[t].op = "update" THEN \E n \in Node : New(t, n) ELSE UNCHANGED <<heap, mine>>
    BY <1>1, <1>5 DEF ModifyRead
  <2>2. /\ \A m \in Node : InTree(m) => heap'[m] = heap[m]
        /\ heap'[node[t]] = heap[node[t]]
        /\ NewOK(t)'
    <3>1. CASE call[t].op = "update"
      <4>1. PICK n \in Node : New(t, n)
        BY <2>1, <3>1
      <4>2. /\ \A m \in Node : InTree(m) => heap'[m] = heap[m]
            /\ heap'[n].val = call[t].val
            /\ heap'[node[t]] = heap[node[t]]
        BY <1>1, <1>2, <4>1, NewNode
      <4>3. mine'[t] = n
        BY <1>1, <4>1 DEF New
      <4> QED
        BY <1>1, <3>1, <4>2, <4>3 DEF NewOK
    <3>2. CASE call[t].op # "update"
      BY <1>1, <2>1, <3>2 DEF NewOK
    <3> QED
      BY <3>1, <3>2
  <2>3. Leaves(t)
    BY <1>1, <2>2, LeavesTree
  <2>4. ReadOK(t)' /\ Open(t)'
    BY <1>1, <1>5, <2>1, <2>2 DEF ReadOK, Open
  <2>5. Follows(t)'
    <3>1. At(t) = node[t] \/ At(t) = Array \/ Missed(t)
      BY <1>1 DEF CallOK, Follows
    <3>2. At(t)' = At(t) /\ (Missed(t)' <=> Missed(t))
      BY <1>1 DEF At, pos, Missed
    <3> QED
      BY <1>1, <2>1, <3>1, <3>2 DEF Follows, Ensuring
  <2> QED
    BY <1>1, <2>1, <2>2, <2>3, <2>4, <2>5, HiddenStep
<1> QED
  BY <1>3, <1>4, <1>5

\* Where the CAS of an update or a remove succeeds the map has an expected value.
LEMMA ModifyCasRef ==
  ASSUME RInv, WInv', NEW t \in Thread, ModifyCas(t)
  PROVE  RInv' /\ MStep
<1>1. /\ WInv /\ LocalType(t) /\ ThreadOK(t) /\ CallOK(t) /\ HistoryType /\ Domains
      /\ pc[t] = "m_cas" /\ At(t) = node[t] /\ node[t] \in Node /\ lvl[t] < Levels
      /\ call[t] # NoCall /\ call[t] \in AllCalls /\ call[t].op \in {"update", "remove"} /\ Open(t)
      /\ loc[t] = PathTo(call[t].key, lvl[t]) /\ call[t] \in Roles[role][t]
      /\ heap[node[t]].key = call[t].key /\ heap[node[t]].val \in call[t].exp
  BY DEF RInv, WInv, WType, LocalType, ThreadOK, PlaceOK, Modifying, WithNode, ModifyCas, Goto,
     Open,
     CallOK, ReadOK
<1>2. /\ pc' = [pc EXCEPT ![t] = "s_read"] /\ mine' = [mine EXCEPT ![t] = Null]
      /\ Put(t, mine[t]) /\ Effect(t)
      /\ UNCHANGED <<heap, watched, size, role, loc, lvl, node, call, res>>
  BY DEF ModifyCas, Goto, Effect
<1>3. Around(t) /\ Others(t)
  BY <1>1, ModifyCasInv DEF Around
<1>14. mine[t] = Null <=> call[t].op = "remove"
  BY <1>1 DEF ThreadOK, MineOK, CallOK, NewOK
<1>4. Placed(t)
  BY <1>1, <1>2, <1>3, <1>14, Contents DEF Placed, ThreadOK, MineOK
<1>5. map' = [map EXCEPT ![call[t].key] = IF mine[t] = Null THEN Null ELSE heap[mine[t]].val]
  BY <1>1, <1>4, PutMap
<1>6. map[call[t].key] \in call[t].exp
  BY <1>1, LookingRight DEF LooksRight
<1>15. mine[t] # Null => heap[mine[t]].val = call[t].val
  BY <1>1 DEF CallOK, NewOK
<1>7. "success" \notin could[t]
  BY <1>1 DEF CallOK, AnswersOK
<1>8. could' = [u \in Thread |->
         IF u = t THEN {"success"}
         ELSE IF call[u] = NoCall \/ "success" \in could[u] THEN could[u]
         ELSE could[u] \union M!Answers(call[u], map')]
  BY <1>2 DEF Effect, M!Witness
<1>9. M!Apply(t)
  <2>1. M!Witness(t, map')
    BY <1>2 DEF Effect
  <2> HIDE DEF map
  <2>2. map' = M!After(call[t], map)
    BY <1>5, <1>14, <1>15 DEF M!After
  <2> QED
    BY <1>1, <1>2, <1>6, <1>7, <2>1, <2>2 DEF M!Apply, M!Applies
<1>10. HistoryKept(t) /\ HistoryType' /\ could'[t] = {"success"}
  BY <1>1, <1>2, <1>8 DEF HistoryKept, HistoryType
<1>11. Replaces(t)
  <2>1. \A p \in DOMAIN tree : \A i \in DOMAIN tree[p] :
           tree'[p][i] = IF p = loc[t] /\ i = pos(t) THEN mine[t] ELSE tree[p][i]
    BY <1>1, <1>4, PutPlace
  <2> QED
    BY <1>1, <1>14, <2>1 DEF Replaces
<1>12. CallOK(t)'
  <2>1. AnswersOK(t)'
    BY <1>1, <1>2, <1>10 DEF CallOK, AnswersOK, Open, Domains
  <2>2. NewOK(t)' /\ ReadOK(t)' /\ Follows(t)'
    BY <1>1, <1>2 DEF NewOK, ReadOK, Follows, Open, Ensuring, Domains
  <2> QED
    BY <2>1, <2>2 DEF CallOK
<1>13. M!MNext
  BY <1>9 DEF M!MNext
<1> QED
  BY <1>3, <1>10, <1>11, <1>12, <1>13, StepOK DEF MStep

LEMMA ModifyCasFailsRef ==
  ASSUME RInv, WInv', NEW t \in Thread, ModifyCasFails(t)
  PROVE  RInv' /\ MStep
<1>1. /\ Around(t) /\ Open(t) /\ pc[t] = "m_cas" /\ pc'[t] = "m_reload" /\ At(t) # node[t]
      /\ UNCHANGED <<call, could, res, loc, lvl, tree>> /\ ThreadOK(t)'
  BY ModifyCasFailsInv
     DEF ModifyCasFails, Goto, Open, history, RInv, WInv, WType, Domains
<1>2. \A n \in Node : InTree(n) => heap'[n] = heap[n]
  <2>1. CASE mine[t] = Null
    BY <2>1 DEF ModifyCasFails
  <2>2. CASE mine[t] # Null
    <3>1. heap' = [heap EXCEPT ![mine[t]] = Free] /\ Owns(t, mine[t])
      BY <2>2 DEF ModifyCasFails, DeleteMine, Owns, RInv, WInv, WType, LocalType
    <3> QED
      BY <3>1 DEF RInv, WInv, WType, HeapType, OwnersOK
  <2> QED
    BY <2>1, <2>2
<1>3. Leaves(t)
  BY <1>1, <1>2, LeavesTree
<1>4. NewOK(t)' /\ ReadOK(t)' /\ Open(t)'
  BY <1>1 DEF ThreadOK, MineOK, NewOK, ReadOK, Open
<1>5. Follows(t)'
  <2>1. At(t) = Array \/ Missed(t)
    BY <1>1 DEF RInv, CallOK, Follows
  <2>2. At(t)' = At(t) /\ (Missed(t)' <=> Missed(t)) /\ call'[t].op # "get"
    BY <1>1 DEF At, pos, Missed, ThreadOK, PlaceOK, Modifying
  <2> QED
    BY <1>1, <2>1, <2>2 DEF Follows, Ensuring
<1> QED
  BY <1>1, <1>3, <1>4, <1>5, HiddenStep

LEMMA SafeDeleteRef ==
  ASSUME RInv, WInv', NEW t \in Thread, SafeDelete(t)
  PROVE  RInv' /\ MStep
<1>1. /\ Around(t) /\ pc[t] = "s_read" /\ pc'[t] = "clear" /\ UNCHANGED <<call, could>>
      /\ tree' = tree /\ heap' = [heap EXCEPT ![node[t]] = Free]
      /\ res' = [res EXCEPT ![t] = "success"]
      /\ node[t] \in Node
  BY SafeDeleteInv DEF SafeDelete, Answer, RInv, WInv, WType, Domains, ThreadOK, PlaceOK, WithNode
<1>2. \A n \in Node : InTree(n) => heap'[n] = heap[n]
  BY <1>1 DEF RInv, WInv, WType, HeapType, OwnersOK, Owns
<1>3. Leaves(t)
  BY <1>1, <1>2, LeavesTree
<1>4. "success" \in could[t]
  BY <1>1 DEF RInv, CallOK, AnswersOK
<1> QED
  BY <1>1, <1>3, <1>4, DecidedStep

LEMMA SafeDeleteReadRef ==
  ASSUME RInv, WInv', NEW t \in Thread, NEW u \in Thread, SafeDeleteRead(t, u)
  PROVE  RInv' /\ MStep
<1>1. /\ Around(t) /\ pc[t] = "s_read" /\ tree' = tree /\ heap' = heap
      /\ UNCHANGED <<pc, loc, lvl, node, mine, call, could, res>>
  BY SafeDeleteReadInv DEF SafeDeleteRead, history, RInv
<1>2. Leaves(t)
  BY <1>1, LeavesAll
<1>3. CallOK(t)'
  BY <1>1 DEF RInv, CallOK, AnswersOK, NewOK, ReadOK, Follows, Open, Ensuring
<1>4. HistoryKept(t) /\ HistoryType' /\ Replaces(t)
  BY <1>1, <1>2 DEF HistoryKept, HistoryType, Leaves, RInv
<1> QED
  BY <1>1, <1>2, <1>3, <1>4, StepOK DEF MStep, Leaves

LEMMA CallRef ==
  ASSUME RInv, WInv', NEW t \in Thread, NEW c \in AllCalls, Call(t, c)
  PROVE  RInv' /\ MStep
<1>1. /\ Around(t) /\ pc[t] = "idle" /\ pc'[t] \in {"insert", "get", "modify"}
      /\ tree' = tree /\ heap' = heap /\ UNCHANGED <<loc, lvl, res>>
      /\ call' = [call EXCEPT ![t] = c] /\ could' = [could EXCEPT ![t] = M!Answers(c, map)]
      /\ CallOK(t) /\ LocalType(t) /\ HistoryType /\ Domains /\ ThreadOK(t)'
  BY CallInv DEF Call, Goto, locals, RInv, WInv, WType, Domains
<1>2. Leaves(t)
  BY <1>1, LeavesAll
<1>3. res[t] = NoCall /\ call[t] = NoCall
  BY <1>1 DEF CallOK, AnswersOK, LocalType
<1>4. call'[t] = c /\ could'[t] = M!Answers(c, map) /\ HistoryType'
  BY <1>1 DEF Domains, HistoryType
<1>5. "success" \notin M!Answers(c, map)
  BY NoSuccess DEF NeverSuccess, RInv
<1>6. AnswersOK(t)'
  <2>1. M!Answers(call[t], map)' = M!Answers(c, map)
    BY <1>2, <1>4 DEF M!Answers, Leaves
  <2> HIDE DEF map
  <2> QED
    BY <1>1, <1>3, <1>4, <1>5, <2>1 DEF AnswersOK, Open
<1>7. NewOK(t)' /\ ReadOK(t)'
  BY <1>1 DEF ThreadOK, MineOK, NewOK, ReadOK
<1>8. Follows(t)'
  <2>1. loc'[t] = (PathTo(call[t].key, lvl[t]))'
    BY <1>1, <1>4, NoPath DEF LocalType, PathTo, Pos
  <2> QED
    BY <1>1, <2>1 DEF Follows, Ensuring
<1>9. HistoryKept(t) /\ Replaces(t)
  BY <1>1, <1>2 DEF HistoryKept, HistoryType, Leaves
<1>10. M!Begin(t, c)
  BY <1>1, <1>2, <1>3 DEF M!Begin, Leaves
<1> QED
  BY <1>1, <1>4, <1>6, <1>7, <1>8, <1>9, <1>10, StepOK DEF CallOK, MStep, M!MNext

LEMMA ClearRef ==
  ASSUME RInv, WInv', NEW t \in Thread, Clear(t)
  PROVE  RInv' /\ MStep
<1>1. /\ Around(t) /\ pc[t] = "clear" /\ pc'[t] = "idle" /\ tree' = tree /\ heap' = heap
      /\ call' = [call EXCEPT ![t] = NoCall] /\ could' = [could EXCEPT ![t] = {}]
      /\ res' = [res EXCEPT ![t] = NoCall]
      /\ CallOK(t) /\ HistoryType /\ ThreadOK(t)'
  BY ClearInv DEF Clear, Goto, RInv, WInv, WType, Domains
<1>2. Leaves(t)
  BY <1>1, LeavesAll
<1>3. res[t] # NoCall /\ res'[t] = NoCall
  BY <1>1 DEF CallOK, AnswersOK, HistoryType
<1>4. CallOK(t)'
  BY <1>1, <1>3 DEF CallOK, AnswersOK, NewOK, ReadOK, Follows, Open, Ensuring, ThreadOK, MineOK
<1>5. HistoryKept(t) /\ HistoryType' /\ Replaces(t)
  BY <1>1, <1>2 DEF HistoryKept, HistoryType, Leaves
<1>6. M!Return(t)
  BY <1>1, <1>2, <1>3 DEF M!Return, Leaves
<1> QED
  BY <1>1, <1>4, <1>5, <1>6, StepOK DEF MStep, M!MNext

-----------------------------------------------------------------------------
(* The refinement                                                          *)

LEMMA InitRef == Init /\ UpdatesAlone(role) => RInv /\ M!MInit
<1> SUFFICES ASSUME Init, UpdatesAlone(role) PROVE RInv /\ M!MInit
  OBVIOUS
<1>1. WInv /\ MapTyped
  BY InitInv, MapTyping
<1>2. HistoryType
  BY DEF Init, HistoryType
<1>3. \A t \in Thread : CallOK(t)
  BY DEF Init, CallOK, AnswersOK, NewOK, ReadOK, Follows, Open, Ensuring
<1>4. M!MInit
  <2> HIDE DEF map
  <2> QED
    BY <1>1 DEF MapTyped, M!MInit, Init
<1> QED
  BY <1>1, <1>2, <1>3, <1>4 DEF RInv

LEMMA NextRef == RInv /\ [Next]_vars => RInv' /\ MStep
<1> SUFFICES ASSUME RInv, [Next]_vars PROVE RInv' /\ MStep
  OBVIOUS
<1>0. WInv'
  BY NextInv DEF RInv
<1>1. CASE UNCHANGED vars
  <2>1. map' = map
    BY <1>0, <1>1, SameMap DEF RInv, vars
  <2>2. \A t \in Thread : CallOK(t)'
    <3> SUFFICES ASSUME NEW t \in Thread PROVE CallOK(t)'
      OBVIOUS
    <3>1. CallOK(t)
      BY DEF RInv
    <3>2. AnswersOK(t)'
      BY <1>1, <2>1, <3>1 DEF vars, locals, history, CallOK, AnswersOK, Open, M!Answers
    <3>3. NewOK(t)' /\ ReadOK(t)'
      BY <1>1, <3>1 DEF vars, locals, history, CallOK, NewOK, ReadOK, Missed
    <3>4. Follows(t)'
      BY <1>1, <3>1 DEF vars, locals, history, CallOK, Follows, Missed, Open, At, pos, PathTo, Pos
    <3> QED
      BY <3>2, <3>3, <3>4 DEF CallOK
  <2>3. UpdatesAlone(role)' /\ HistoryType'
    BY <1>1 DEF RInv, UpdatesAlone, HistoryType, vars, history
  <2> QED
    BY <1>0, <1>1, <2>1, <2>2, <2>3 DEF RInv, MStep, vars, history
<1>2. ASSUME NEW t \in Thread, NEW c \in AllCalls, Call(t, c) PROVE RInv' /\ MStep
  BY <1>0, <1>2, CallRef
<1>3. ASSUME NEW t \in Thread, InsertStep(t) PROVE RInv' /\ MStep
  BY <1>0, <1>3, ConsiderRef, InsertCasRef, InsertCasFailsRef, InsertCountRef, InsertOtherRef,
     InsertCheckRef, InsertHashRef DEF InsertStep, Considering
<1>4. ASSUME NEW t \in Thread, ExpandStep(t) PROVE RInv' /\ MStep
  BY <1>0, <1>4, ConsiderRef, InsertOtherRef, ExpandCheckRef, ExpandCasRef
       DEF ExpandStep, Considering
<1>5. ASSUME NEW t \in Thread, GetStep(t) PROVE RInv' /\ MStep
  BY <1>0, <1>5, LoadRef, WatchRef, CheckRef, GetReadRef, AgainRef DEF GetStep
<1>6. ASSUME NEW t \in Thread, EnsureStep(t) PROVE RInv' /\ MStep
  BY <1>0, <1>6, EnsureRef, WatchRef DEF EnsureStep
<1>7. ASSUME NEW t \in Thread, ModifyStep(t) PROVE RInv' /\ MStep
  BY <1>0, <1>7, LoadRef, WatchRef, CheckRef, AgainRef, ModifyReadRef, ModifyCasRef,
     ModifyCasFailsRef,
     ModifyReloadRef DEF ModifyStep
<1>8. ASSUME NEW t \in Thread, DeleteStep(t) PROVE RInv' /\ MStep
  BY <1>0, <1>8, SafeDeleteRef, SafeDeleteReadRef DEF DeleteStep
<1>9. ASSUME NEW t \in Thread, Clear(t) PROVE RInv' /\ MStep
  BY <1>0, <1>9, ClearRef
<1> QED
  BY <1>1, <1>2, <1>3, <1>4, <1>5, <1>6, <1>7, <1>8, <1>9 DEF Next

\* Where an update meets no call of another thread but inserts, every call appears to
\* happen at one moment between its beginning and its end (get, insert, update and
\* remove of wfc::unordered_map).
THEOREM Refinement ==
  ASSUME \A i \in DOMAIN Roles : UpdatesAlone(i)
  PROVE  Spec => Linearizable
<1>1. Init => RInv /\ M!MInit
  <2>1. Init => UpdatesAlone(role)
    BY DEF Init
  <2> QED
    BY <2>1, InitRef
<1>2. RInv /\ [Next]_vars => RInv'
  BY NextRef
<1>3. RInv /\ [Next]_vars => [M!MNext]_(M!mvars)
  <2> HIDE DEF map
  <2> QED
    BY NextRef DEF MStep, M!mvars
<1> QED
  BY <1>1, <1>2, <1>3, PTL DEF Spec, Linearizable, M!MSpec
=============================================================================
