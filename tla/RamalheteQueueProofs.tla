----------------------- MODULE RamalheteQueueProofs -----------------------
(***************************************************************************)
(* RamalheteQueue never touches a deleted node, for any number of threads, *)
(* nodes, entries and values, as long as a push acquires _tail while its   *)
(* node is in the list; and that is always so with one thread that pushes  *)
(* beside try_pop.                                                         *)
(*                                                                         *)
(* LInv is inductive.  Listed are the nodes from _head on, told from their *)
(* status: what is live, linked and not unlinked.  Links between them are  *)
(* injective and lead to listed nodes, so that a CAS on _head leaves no    *)
(* link to the node it unlinks.  TInv adds what a lone pusher knows of     *)
(* _tail.  LocalStep and GuardStep treat the steps that change only the    *)
(* place and the guard of their thread; the others have a lemma each.      *)
(*                                                                         *)
(* Under the same conditions no value is lost, unless step_size divides    *)
(* entries_per_node.  ChainOK says that Listed is what _head leads to, and *)
(* VInv, inductive with it, what the entries of a node have in common with *)
(* its indexes: an entry without a value has its index ahead, or a try_pop *)
(* has it, and it is spoiled only by the last that had it.                 *)
(*                                                                         *)
(* Nor does try_pop then answer that the queue is empty when it is not:    *)
(* EInv says that its node is the first one or no longer in the list, and  *)
(* that nothing waits there any more when push has taken no more indexes.  *)
(*                                                                         *)
(* With one such thread the queue is first in, first out.  OInv numbers    *)
(* the listed nodes, and says that a value pushed after another one stands *)
(* behind it, in a later node or at a later index, and that the push which *)
(* is still to store it has an index behind it as well.  So the first one  *)
(* leaves first.  It needs that a value is in one entry only, and that no  *)
(* pushed value is in the node behind that of _tail.                       *)
(***************************************************************************)
EXTENDS RamalheteQueue, FiniteSetTheorems, WellFoundedInduction, TLAPS

-----------------------------------------------------------------------------
(* The invariant                                                           *)

PushPC == {"p_acq", "p_idx", "p_tail", "p_next", "p_link", "p_swing", "p_help", "p_cas"}
PopPC == {"o_acq", "o_load", "o_check", "o_empty", "o_idx", "o_next", "o_cas", "o_retire", "o_read",
          "o_spoil", "o_ret"}

\* The places at which a thread has no guard, or is about to replace it
Outside == {"idle", "destroy", "p_acq", "o_acq"}

LType == /\ qhead \in Node \union {Null} /\ qtail \in Node
         /\ next \in [Node -> Node \union {Null}]
         /\ R!RTypeOK
         /\ pc \in [Thread -> PC]
         /\ mine \in [Thread -> Node \union {Null}]

\* A node of a push that is not linked yet, and one that try_pop has unlinked
\* and not retired yet
Fresh(m) == \E t \in Thread : pc[t] = "p_link" /\ mine[t] = m
Taken(m) == \E t \in Thread : pc[t] = "o_retire" /\ g(t) = m

\* The nodes from _head on, told without following them
Listed == {m \in Node : status[m] = "live" /\ ~Fresh(m) /\ ~Taken(m)}

\* What is linked stays linked to a node of the list; _head is where it begins.
ListOK ==
    /\ qhead \in Listed
    /\ \A m \in Listed : next[m] = Null \/ (next[m] \in Listed /\ next[m] # qhead)
    /\ \A m, n \in Listed : next[m] = next[n] /\ next[m] # Null => m = n

\* A node is unlinked only when it has a successor, which it keeps.
UnlinkedOK == \A m \in Node : status[m] = "retired" \/ Taken(m) => next[m] # Null

\* The new node of a push is its own.
FreshOK(t) == pc[t] = "p_link" =>
    /\ mine[t] \in Node /\ status[mine[t]] = "live" /\ next[mine[t]] = Null
    /\ \A u \in Thread : g(u) # mine[t] /\ (pc[u] = "p_link" /\ mine[u] = mine[t] => u = t)

\* The node that a try_pop has unlinked is retired by that thread only.
TakenOK(t) == pc[t] = "o_retire" =>
    /\ status[g(t)] = "live" /\ g(t) # qhead
    /\ \A u \in Thread : pc[u] = "o_retire" /\ g(u) = g(t) => u = t

GuardOK(t) ==
    /\ g(t) # Null => R!Protected(t, "n")
    /\ pc[t] \notin Outside => g(t) # Null
    /\ pc[t] \in {"idle", "destroy"} => g(t) = Null
    /\ pc[t] \in {"p_help", "o_cas"} => next[g(t)] # Null
    /\ pc[t] = "p_swing" => mine[t] # Null

LInv == /\ LType
        /\ \A t \in Thread : GuardOK(t)
        /\ Closed => \A t \in Thread : pc[t] \in {"idle", "destroy"}
        /\ ~Closed => ListOK
        /\ UnlinkedOK
        /\ \A t \in Thread : FreshOK(t) /\ TakenOK(t)

\* The hypothesis: a push acquires _tail while its node is in the list.
TailListed == \A t \in Thread : pc[t] = "p_acq" => qtail \in Listed

-----------------------------------------------------------------------------
(* One thread pushes beside try_pop                                        *)

LateIs(p) == p \in Thread /\ Pusher \subseteq EarlyPusher \union {p}

\* The others push before the first try_pop.
RolesOK(p) ==
    /\ pops \in Nat
    /\ \A t \in Thread : /\ pc[t] \in PushPC => t \in Pusher /\ (t # p => pops = 0)
                         /\ pc[t] \in PopPC => pops # 0

\* _tail refers to the last node or to the one before, and then the push that
\* has linked the last one is about to move it.
TailOK(p) ==
    /\ qtail \in Listed \/ (pops # 0 /\ pc[p] = "p_swing" /\ g(p) = qtail)
    /\ next[qtail] # Null => /\ next[qtail] \in Listed /\ next[next[qtail]] = Null
                             /\ \E t \in Thread : pc[t] = "p_swing" /\ g(t) = qtail

\* Only the node of _tail may have no successor.
PusherOK(t) ==
    /\ pc[t] \in PushPC \ {"p_acq"} /\ next[g(t)] = Null => qtail = g(t)
    /\ pc[t] = "p_swing" => next[g(t)] = mine[t]

TInv(p) == /\ RolesOK(p)
           /\ ~Closed => TailOK(p)
           /\ \A t \in Thread : PusherOK(t)

-----------------------------------------------------------------------------
(* The initial state, and what every proof takes from the invariant        *)

LEMMA InitLInv == Init => LInv
<1> SUFFICES ASSUME Init PROVE LInv
  OBVIOUS
<1> DEFINE m0 == CHOOSE m \in Node : TRUE
<1>1. m0 \in Node
  BY NodeAssumption
<1>2. /\ qhead = m0 /\ qtail = m0 /\ next = [m \in Node |-> Null]
      /\ status = [m \in Node |-> IF m = m0 THEN "live" ELSE "free"]
      /\ slot = [t \in Thread |-> [s \in {"n"} |-> Null]] /\ pinned = {}
      /\ pc = [t \in Thread |-> "idle"] /\ mine = [t \in Thread |-> Null]
  BY DEF Init
<1> HIDE DEF m0
<1>3. LType
  BY <1>1, <1>2 DEF LType, R!RTypeOK, R!Guard, PC
<1>4. Listed = {m0}
  BY <1>1, <1>2 DEF Listed, Fresh, Taken
<1>5. ListOK
  BY <1>1, <1>2, <1>4 DEF ListOK
<1>6. UnlinkedOK
  BY <1>1, <1>2 DEF UnlinkedOK, Taken
<1>7. ASSUME NEW t \in Thread PROVE GuardOK(t) /\ FreshOK(t) /\ TakenOK(t)
  BY <1>2 DEF GuardOK, FreshOK, TakenOK, Outside, g
<1>8. ~Closed
  BY <1>2 DEF Closed
<1> QED
  BY <1>3, <1>5, <1>6, <1>7, <1>8 DEF LInv

\* While an operation runs the queue exists.
LEMMA Busy ==
  ASSUME LInv, NEW t \in Thread, pc[t] \notin {"idle", "destroy"}
  PROVE  ~Closed /\ ListOK
BY DEF LInv

LEMMA GuardType ==
  ASSUME LInv, NEW t \in Thread
  PROVE  g(t) \in Node \union {Null} /\ (g(t) # Null => g(t) \in Node /\ status[g(t)] # "free")
<1>1. slot[t] \in [{"n"} -> Node \union {Null}]
  BY DEF LInv, LType, R!RTypeOK
<1>2. g(t) \in Node \union {Null}
  BY <1>1 DEF g
<1>3. g(t) # Null => status[g(t)] \in {"live", "retired"}
  BY DEF LInv, GuardOK, R!Protected, g
<1> QED
  BY <1>2, <1>3

-----------------------------------------------------------------------------
(* Steps that leave the list and the status of the nodes alone             *)

LEMMA LocalStep ==
  ASSUME LInv, ~Closed, NEW t \in Thread, NEW b \in PC,
         pc' = [pc EXCEPT ![t] = b], UNCHANGED <<qhead, next, status, slot, pinned, mine>>,
         qtail' \in Node, pc[t] \notin {"p_link", "o_retire"}, b \notin {"p_link", "o_retire"},
         b \notin Outside => g(t) # Null,
         b \in {"idle", "destroy"} => g(t) = Null,
         b \in {"p_help", "o_cas"} => next[g(t)] # Null,
         b = "p_swing" => mine[t] # Null,
         b = "destroy" => \A u \in Thread : pc[u] = "idle"
  PROVE  LInv' /\ Listed' = Listed
<1>1. LType'
  BY DEF LInv, LType, R!RTypeOK
<1>2. ASSUME NEW m \in Node PROVE (Fresh(m)' <=> Fresh(m)) /\ (Taken(m)' <=> Taken(m))
  BY DEF LInv, LType, Fresh, Taken, g
<1>3. ASSUME NEW u \in Thread PROVE GuardOK(u)'
  BY DEF LInv, LType, GuardOK, R!Protected, g
<1>4. Closed' => \A u \in Thread : pc'[u] \in {"idle", "destroy"}
  BY DEF LInv, LType, Closed
<1>5. Listed' = Listed
  BY <1>2 DEF Listed
<1>50. ListOK'
  BY <1>5 DEF LInv, ListOK
<1>6. UnlinkedOK'
  BY <1>2 DEF LInv, UnlinkedOK
<1>7. ASSUME NEW u \in Thread PROVE FreshOK(u)' /\ TakenOK(u)'
  BY DEF LInv, LType, FreshOK, TakenOK, g
<1> QED
  BY <1>50, <1>1, <1>3, <1>4, <1>5, <1>6, <1>7 DEF LInv

\* The guard of thread t changes, to a node of the list or to nothing.
LEMMA GuardStep ==
  ASSUME LInv, ~Closed, NEW t \in Thread, NEW b \in PC, NEW n \in Listed \union {Null},
         pc' = [pc EXCEPT ![t] = b], UNCHANGED <<qhead, next, status>>,
         slot' = [slot EXCEPT ![t]["n"] = n],
         pinned' \in SUBSET R!Guard, pinned \ {<<t, "n">>} \subseteq pinned',
         mine' = mine \/ mine' = [mine EXCEPT ![t] = Null],
         qtail' \in Node, pc[t] \notin {"p_link", "o_retire"},
         b \in {"idle", "p_idx", "o_load"}, b = "idle" <=> n = Null
  PROVE  LInv' /\ Listed' = Listed
<1>0. n \in Node \union {Null}
  BY DEF Listed
<1>1. LType'
  BY <1>0 DEF LInv, LType, R!RTypeOK
<1>2. ASSUME NEW m \in Node PROVE (Fresh(m)' <=> Fresh(m)) /\ (Taken(m)' <=> Taken(m))
  BY DEF LInv, LType, R!RTypeOK, Fresh, Taken, g
<1>a. g(t)' = n /\ \A u \in Thread \ {t} : g(u)' = g(u) /\ pc'[u] = pc[u] /\ mine'[u] = mine[u]
  BY DEF LInv, LType, R!RTypeOK, g
<1>b. pc'[t] = b
  BY DEF LInv, LType
<1>c. n # Null => status[n] = "live" /\ ~Fresh(n) /\ ~Taken(n)
  BY DEF Listed
<1>3. ASSUME NEW u \in Thread PROVE GuardOK(u)'
  <2>1. CASE u = t
    BY <1>a, <1>b, <1>c, <2>1 DEF GuardOK, R!Protected, g, Outside
  <2>2. CASE u # t
    BY <1>a, <2>2 DEF LInv, GuardOK, R!Protected, g
  <2> QED
    BY <2>1, <2>2
<1>4. ~Closed'
  BY <1>a, <1>b DEF Closed
<1>5. Listed' = Listed
  BY <1>2 DEF Listed
<1>50. ListOK'
  BY <1>5 DEF LInv, ListOK
<1>6. UnlinkedOK'
  BY <1>2 DEF LInv, UnlinkedOK
<1>7. ASSUME NEW u \in Thread PROVE FreshOK(u)'
  <2>1. CASE u = t
    BY <1>b, <2>1 DEF FreshOK
  <2>2. CASE u # t
    BY <1>a, <1>b, <1>c, <2>2, NodeAssumption DEF LInv, FreshOK, Fresh
  <2> QED
    BY <2>1, <2>2
<1>8. ASSUME NEW u \in Thread PROVE TakenOK(u)'
  <2>1. CASE u = t
    BY <1>b, <2>1 DEF TakenOK
  <2>2. CASE u # t
    BY <1>a, <1>b, <2>2 DEF LInv, TakenOK
  <2> QED
    BY <2>1, <2>2
<1> QED
  BY <1>50, <1>1, <1>3, <1>4, <1>5, <1>6, <1>7, <1>8 DEF LInv

-----------------------------------------------------------------------------
(* Steps that change the list or the status of a node                      *)

LEMMA NewStep ==
  ASSUME LInv, NEW t \in Thread, NEW m \in Node, PushNew(t, m)
  PROVE  LInv' /\ Listed' = Listed
<1>1. /\ pc[t] = "p_next" /\ pc' = [pc EXCEPT ![t] = "p_link"] /\ status[m] = "free"
      /\ status' = [status EXCEPT ![m] = "live"] /\ mine' = [mine EXCEPT ![t] = m]
      /\ next' = [next EXCEPT ![m] = Null] /\ UNCHANGED <<qhead, qtail, slot, pinned>>
  BY DEF PushNew, Goto, R!Allocate
<1>2. LType'
  BY <1>1 DEF LInv, LType, R!RTypeOK, PC
<1>3. ~Closed /\ ListOK
  BY <1>1, Busy
<1>4. \A u \in Thread : g(u)' = g(u) /\ g(u) # m
  <2>1. \A u \in Thread : g(u)' = g(u)
    BY <1>1 DEF g
  <2>2. \A u \in Thread : g(u) # m
    BY <1>1, GuardType, NodeAssumption
  <2> QED
    BY <2>1, <2>2
<1>5. \A u \in Thread \ {t} : pc'[u] = pc[u] /\ mine'[u] = mine[u]
  BY <1>1 DEF LInv, LType
<1>6. pc'[t] = "p_link" /\ mine'[t] = m
  BY <1>1 DEF LInv, LType
<1>7. status'[m] = "live" /\ next'[m] = Null
      /\ \A n \in Node \ {m} : status'[n] = status[n] /\ next'[n] = next[n]
  BY <1>1 DEF LInv, LType, R!RTypeOK
<1>a. \A u \in Thread : pc[u] = "p_link" => mine[u] # m
  BY <1>1 DEF LInv, FreshOK
<1>8. \A n \in Node \ {m} : (Fresh(n)' <=> Fresh(n)) /\ (Taken(n)' <=> Taken(n))
  BY <1>1, <1>4, <1>5, <1>6 DEF Fresh, Taken
<1>9. Fresh(m)' /\ ~Taken(m)'
  BY <1>4, <1>6 DEF Fresh, Taken
<1>10. Listed' = Listed
  BY <1>1, <1>7, <1>8, <1>9 DEF Listed
<1>11. ListOK'
  <2>1. \A n \in Listed : next'[n] = next[n]
    BY <1>1, <1>7 DEF Listed
  <2> QED
    BY <1>1, <1>3, <1>10, <2>1 DEF ListOK
<1>12. UnlinkedOK'
  BY <1>7, <1>8, <1>9 DEF LInv, UnlinkedOK
<1>13. ASSUME NEW u \in Thread PROVE GuardOK(u)'
  <2>1. GuardOK(u) /\ g(u) \in Node \union {Null}
    BY GuardType DEF LInv
  <2>2. CASE u = t
    BY <1>1, <1>4, <1>6, <1>7, <2>1, <2>2 DEF GuardOK, R!Protected, g, Outside
  <2>3. CASE u # t
    <3>1. pc[u] \in {"p_help", "o_cas"} => g(u) \in Node
      BY <2>1 DEF GuardOK, Outside
    <3> QED
      BY <1>1, <1>4, <1>5, <1>7, <2>1, <2>3, <3>1 DEF GuardOK, R!Protected, g
  <2> QED
    BY <2>2, <2>3
<1>14. ASSUME NEW u \in Thread PROVE FreshOK(u)'
  <2>1. CASE u = t
    BY <1>4, <1>5, <1>6, <1>7, <1>a, <2>1 DEF FreshOK
  <2>2. CASE u # t
    BY <1>4, <1>5, <1>6, <1>7, <1>a, <2>2 DEF LInv, FreshOK
  <2> QED
    BY <2>1, <2>2
<1>15. ASSUME NEW u \in Thread PROVE TakenOK(u)'
  <2>1. CASE u = t
    BY <1>6, <2>1 DEF TakenOK
  <2>2. CASE u # t
    <3>1. pc[u] = "o_retire" => g(u) \in Node
      BY GuardType DEF LInv, GuardOK, Outside
    <3> QED
      BY <1>1, <1>4, <1>5, <1>6, <1>7, <2>2, <3>1 DEF LInv, TakenOK
  <2> QED
    BY <2>1, <2>2
<1>16. ~Closed'
  BY <1>3, <1>5, <1>6 DEF Closed
<1> QED
  BY <1>10, <1>2, <1>11, <1>12, <1>13, <1>14, <1>15, <1>16 DEF LInv

LEMMA LinkStep ==
  ASSUME LInv, NEW t \in Thread, PushLink(t)
  PROVE  LInv' /\ Listed' = Listed \union {mine[t]}
<1> PICK a : a = g(t)
  OBVIOUS
<1> PICK m : m = mine[t]
  OBVIOUS
<1>1. /\ pc[t] = "p_link" /\ pc' = [pc EXCEPT ![t] = "p_swing"] /\ next[a] = Null
      /\ next' = [next EXCEPT ![a] = m]
      /\ UNCHANGED <<qhead, qtail, slot, pinned, status, mine>>
  BY DEF PushLink, Goto, Quiet, guards
<1>2. /\ a \in Node /\ m \in Node /\ a # m /\ status[a] # "free" /\ status[m] = "live"
      /\ next[m] = Null /\ \A u \in Thread : g(u) # m /\ (pc[u] = "p_link" /\ mine[u] = m => u = t)
  <2>1. a # Null
    BY <1>1 DEF LInv, GuardOK, Outside
  <2> QED
    BY <1>1, <2>1, GuardType DEF LInv, FreshOK
<1>3. \A u \in Thread : g(u)' = g(u) /\ mine'[u] = mine[u]
  BY <1>1 DEF g
<1>4. pc'[t] = "p_swing" /\ \A u \in Thread \ {t} : pc'[u] = pc[u]
  BY <1>1 DEF LInv, LType
<1>5. next'[a] = m /\ \A n \in Node \ {a} : next'[n] = next[n]
  BY <1>1, <1>2 DEF LInv, LType
<1>6. ~Closed /\ ListOK
  BY <1>1, Busy
<1>7. LType'
  BY <1>1, <1>2 DEF LInv, LType, R!RTypeOK, PC
<1>8. Fresh(m) /\ ~Fresh(m)' /\ ~Taken(m) /\ ~Taken(m)'
  BY <1>1, <1>2, <1>3, <1>4 DEF Fresh, Taken
<1>9. \A n \in Node \ {m} : Fresh(n)' <=> Fresh(n)
  BY <1>1, <1>3, <1>4 DEF Fresh
<1>10. \A n \in Node : Taken(n)' <=> Taken(n)
  BY <1>1, <1>3, <1>4 DEF Taken
<1>11. Listed' = Listed \union {m}
  <2>1. m \in Listed'
    BY <1>1, <1>2, <1>8 DEF Listed
  <2>2. \A n \in Node \ {m} : n \in Listed' <=> n \in Listed
    BY <1>1, <1>9, <1>10 DEF Listed
  <2>3. Listed \subseteq Node /\ Listed' \subseteq Node
    BY DEF Listed
  <2> QED
    BY <2>1, <2>2, <2>3, <1>2
<1>12. a \in Listed
  <2>1. ~Fresh(a)
    BY DEF LInv, Fresh, FreshOK
  <2>2. status[a] # "retired" /\ ~Taken(a)
    BY <1>1, <1>2 DEF LInv, UnlinkedOK
  <2> QED
    BY <1>2, <2>1, <2>2 DEF Listed, LInv, LType, R!RTypeOK
<1>13. m \notin Listed
  BY <1>8 DEF Listed
<1>14. ListOK'
  <2>1. qhead' \in Listed'
    BY <1>1, <1>6, <1>11 DEF ListOK
  <2>2. next'[m] = Null
    BY <1>2, <1>5
  <2>3. \A n \in Listed : n \in Node /\ next[n] # m
    BY <1>6, <1>13, <1>2, NodeAssumption DEF ListOK, Listed
  <2>4. m # qhead
    BY <1>6, <1>13 DEF ListOK
  <2>5. ASSUME NEW n \in Listed'
        PROVE  next'[n] = Null \/ (next'[n] \in Listed' /\ next'[n] # qhead')
    BY <1>1, <1>5, <1>6, <1>11, <2>2, <2>3, <2>4 DEF ListOK
  <2>6. ASSUME NEW n \in Listed', NEW k \in Listed', next'[n] = next'[k], next'[n] # Null
        PROVE  n = k
    BY <1>5, <1>6, <1>11, <2>2, <2>3, <2>6 DEF ListOK
  <2> QED
    BY <2>1, <2>5, <2>6 DEF ListOK
<1>15. UnlinkedOK'
  BY <1>1, <1>2, <1>5, <1>10, NodeAssumption DEF LInv, UnlinkedOK
<1>16. ASSUME NEW u \in Thread PROVE GuardOK(u)'
  <2>1. GuardOK(u) /\ g(u) \in Node \union {Null}
    BY GuardType DEF LInv
  <2>2. R!Protected(u, "n")' <=> R!Protected(u, "n")
    BY <1>1 DEF R!Protected
  <2>3. CASE u = t
    BY <1>2, <1>3, <1>4, <2>1, <2>2, <2>3, NodeAssumption DEF GuardOK, Outside
  <2>4. CASE u # t
    <3>1. pc[u] \in {"p_help", "o_cas"} => g(u) \in Node
      BY <2>1 DEF GuardOK, Outside
    <3> QED
      BY <1>1, <1>2, <1>3, <1>4, <1>5, <2>1, <2>2, <2>4, <3>1, NodeAssumption DEF GuardOK
  <2> QED
    BY <2>3, <2>4
<1>17. ASSUME NEW u \in Thread PROVE FreshOK(u)' /\ TakenOK(u)'
  <2>1. FreshOK(u) /\ TakenOK(u)
    BY DEF LInv
  <2>2. FreshOK(u)'
    BY <1>1, <1>3, <1>4, <1>5, <2>1 DEF FreshOK
  <2>3. TakenOK(u)'
    BY <1>1, <1>3, <1>4, <2>1 DEF TakenOK
  <2> QED
    BY <2>2, <2>3
<1>18. ~Closed'
  BY <1>4, <1>6 DEF Closed
<1> QED
  BY <1>11, <1>7, <1>14, <1>15, <1>16, <1>17, <1>18 DEF LInv

LEMMA LinkFailsStep ==
  ASSUME LInv, NEW t \in Thread, PushLinkFails(t)
  PROVE  LInv' /\ Listed' = Listed
<1> PICK m : m = mine[t]
  OBVIOUS
<1>1. /\ pc[t] = "p_link" /\ pc' = [pc EXCEPT ![t] = "p_acq"]
      /\ status' = [status EXCEPT ![m] = "free"] /\ mine' = [mine EXCEPT ![t] = Null]
      /\ UNCHANGED <<qhead, qtail, next, slot, pinned>>
  BY DEF PushLinkFails, Goto
<1>2. /\ m \in Node /\ status[m] = "live"
      /\ \A u \in Thread : g(u) # m /\ (pc[u] = "p_link" /\ mine[u] = m => u = t)
  BY <1>1 DEF LInv, FreshOK
<1>3. \A u \in Thread : g(u)' = g(u)
  BY <1>1 DEF g
<1>4. pc'[t] = "p_acq" /\ \A u \in Thread \ {t} : pc'[u] = pc[u] /\ mine'[u] = mine[u]
  BY <1>1 DEF LInv, LType
<1>5. status'[m] = "free" /\ \A n \in Node \ {m} : status'[n] = status[n]
  BY <1>1, <1>2 DEF LInv, LType, R!RTypeOK
<1>6. ~Closed /\ ListOK
  BY <1>1, Busy
<1>7. LType'
  BY <1>1, <1>2 DEF LInv, LType, R!RTypeOK, PC
<1>8. Fresh(m)
  BY <1>1 DEF Fresh
<1>9. \A n \in Node \ {m} : Fresh(n)' <=> Fresh(n)
  BY <1>1, <1>3, <1>4 DEF Fresh
<1>10. \A n \in Node : Taken(n)' <=> Taken(n)
  BY <1>1, <1>3, <1>4 DEF Taken
<1>11. Listed' = Listed
  <2>1. m \notin Listed /\ m \notin Listed'
    BY <1>5, <1>8 DEF Listed
  <2>2. \A n \in Node \ {m} : n \in Listed' <=> n \in Listed
    BY <1>5, <1>9, <1>10 DEF Listed
  <2>3. Listed \subseteq Node /\ Listed' \subseteq Node
    BY DEF Listed
  <2> QED
    BY <2>1, <2>2, <2>3
<1>12. ListOK'
  BY <1>1, <1>6, <1>11 DEF ListOK
<1>13. UnlinkedOK'
  BY <1>1, <1>5, <1>10 DEF LInv, UnlinkedOK
<1>14. ASSUME NEW u \in Thread PROVE GuardOK(u)'
  <2>1. GuardOK(u) /\ g(u) \in Node \union {Null} /\ g(u) # m
    BY <1>2, GuardType DEF LInv
  <2>2. g(u) # Null => R!Protected(u, "n")'
    BY <1>1, <1>5, <2>1 DEF GuardOK, R!Protected, g
  <2> QED
    BY <1>1, <1>3, <1>4, <2>1, <2>2 DEF GuardOK, Outside
<1>15. ASSUME NEW u \in Thread PROVE FreshOK(u)'
  BY <1>1, <1>2, <1>3, <1>4, <1>5 DEF LInv, FreshOK
<1>16. ASSUME NEW u \in Thread PROVE TakenOK(u)'
  <2>1. pc[u] = "o_retire" => g(u) \in Node \ {m}
    BY <1>2, GuardType DEF LInv, GuardOK, Outside
  <2> QED
    BY <1>1, <1>3, <1>4, <1>5, <2>1 DEF LInv, TakenOK
<1>17. ~Closed'
  BY <1>4, <1>6 DEF Closed
<1> QED
  BY <1>11, <1>7, <1>12, <1>13, <1>14, <1>15, <1>16, <1>17 DEF LInv

\* The CAS of try_pop on _head: the node it leaves is the first of the list, and
\* no other node links to its successor.
LEMMA PopCasStep ==
  ASSUME LInv, NEW t \in Thread, PopCas(t)
  PROVE  LInv' /\ Listed' = Listed \ {g(t)}
<1> PICK a : a = g(t)
  OBVIOUS
<1> PICK n : n = next[a]
  OBVIOUS
<1>1. /\ pc[t] = "o_cas" /\ pc' = [pc EXCEPT ![t] = "o_retire"] /\ qhead = a /\ qhead' = n
      /\ UNCHANGED <<qtail, next, status, slot, pinned, mine>>
  BY DEF PopCas, Goto, Quiet, guards
<1>2. ~Closed /\ ListOK
  BY <1>1, Busy
<1>3. a \in Node /\ a \in Listed /\ status[a] = "live" /\ ~Fresh(a) /\ ~Taken(a)
  BY <1>1, <1>2 DEF ListOK, Listed
<1>4. n # Null
  BY <1>1 DEF LInv, GuardOK
<1>5. n \in Listed /\ n # a
  BY <1>1, <1>2, <1>3, <1>4 DEF ListOK
<1>6. n \in Node
  BY <1>5 DEF Listed
<1>7. \A u \in Thread : g(u)' = g(u)
  BY <1>1 DEF g
<1>8. pc'[t] = "o_retire" /\ \A u \in Thread \ {t} : pc'[u] = pc[u]
  BY <1>1 DEF LInv, LType
<1>9. LType'
  BY <1>1, <1>6 DEF LInv, LType, R!RTypeOK, PC
<1>10. \A m \in Node : Fresh(m)' <=> Fresh(m)
  BY <1>1, <1>8 DEF Fresh
<1>11. Taken(a)' /\ \A m \in Node \ {a} : Taken(m)' <=> Taken(m)
  BY <1>1, <1>7, <1>8 DEF Taken
<1>12. Listed' = Listed \ {a}
  <2>1. a \notin Listed'
    BY <1>11 DEF Listed
  <2>2. \A m \in Node \ {a} : m \in Listed' <=> m \in Listed
    BY <1>1, <1>10, <1>11 DEF Listed
  <2>3. Listed \subseteq Node /\ Listed' \subseteq Node
    BY DEF Listed
  <2> QED
    BY <2>1, <2>2, <2>3
<1>13. ListOK'
  BY <1>1, <1>2, <1>3, <1>4, <1>5, <1>12 DEF ListOK
<1>14. UnlinkedOK'
  BY <1>1, <1>4, <1>11 DEF LInv, UnlinkedOK
<1>15. ASSUME NEW u \in Thread PROVE GuardOK(u)'
  <2>1. GuardOK(u)
    BY DEF LInv
  <2>2. R!Protected(u, "n")' <=> R!Protected(u, "n")
    BY <1>1 DEF R!Protected
  <2> QED
    BY <1>1, <1>7, <1>8, <2>1, <2>2 DEF GuardOK, Outside
<1>16. ASSUME NEW u \in Thread PROVE FreshOK(u)'
  BY <1>1, <1>7, <1>8 DEF LInv, FreshOK
<1>17. ASSUME NEW u \in Thread PROVE TakenOK(u)'
  <2>1. \A w \in Thread : pc[w] = "o_retire" => g(w) # a /\ g(w) # n
    BY <1>3, <1>5 DEF Listed, Taken
  <2>2. TakenOK(u)
    BY DEF LInv
  <2> QED
    BY <1>1, <1>3, <1>5, <1>7, <1>8, <2>1, <2>2 DEF TakenOK
<1>18. ~Closed'
  BY <1>2, <1>8 DEF Closed
<1> QED
  BY <1>12, <1>9, <1>13, <1>14, <1>15, <1>16, <1>17, <1>18 DEF LInv

LEMMA RetireStep ==
  ASSUME LInv, NEW t \in Thread, PopRetire(t)
  PROVE  LInv' /\ Listed' = Listed
<1> PICK a : a = g(t)
  OBVIOUS
<1>1. /\ pc[t] = "o_retire" /\ pc' = [pc EXCEPT ![t] = "o_acq"]
      /\ status' = [status EXCEPT ![a] = "retired"]
      /\ slot' = [slot EXCEPT ![t]["n"] = Null]
      /\ pinned' = (pinned \union R!Holders(a)) \ {<<t, "n">>}
      /\ UNCHANGED <<qhead, qtail, next, mine>>
  BY DEF PopRetire, Goto, Quiet, nodes
<1>2. /\ a \in Node /\ status[a] = "live" /\ a # qhead
      /\ \A u \in Thread : pc[u] = "o_retire" /\ g(u) = a => u = t
  <2>1. a # Null
    BY <1>1 DEF LInv, GuardOK, Outside
  <2> QED
    BY <1>1, <2>1, GuardType DEF LInv, TakenOK
<1>3. g(t)' = Null /\ \A u \in Thread \ {t} : g(u)' = g(u)
  BY <1>1 DEF g, LInv, LType, R!RTypeOK
<1>4. pc'[t] = "o_acq" /\ \A u \in Thread \ {t} : pc'[u] = pc[u]
  BY <1>1 DEF LInv, LType
<1>5. status'[a] = "retired" /\ \A n \in Node \ {a} : status'[n] = status[n]
  BY <1>1, <1>2 DEF LInv, LType, R!RTypeOK
<1>6. ~Closed /\ ListOK
  BY <1>1, Busy
<1>7. LType'
  <2>1. R!Holders(a) \in SUBSET R!Guard
    BY DEF R!Holders
  <2> QED
    BY <1>1, <1>2, <2>1 DEF LInv, LType, R!RTypeOK, PC
<1>8. Taken(a) /\ ~Taken(a)'
  BY <1>1, <1>2, <1>3, <1>4 DEF Taken
<1>9. \A n \in Node \ {a} : Taken(n)' <=> Taken(n)
  BY <1>1, <1>3, <1>4 DEF Taken
<1>10. \A n \in Node : Fresh(n)' <=> Fresh(n)
  BY <1>1, <1>4 DEF Fresh
<1>11. Listed' = Listed
  <2>1. a \notin Listed /\ a \notin Listed'
    BY <1>5, <1>8 DEF Listed
  <2>2. \A n \in Node \ {a} : n \in Listed' <=> n \in Listed
    BY <1>5, <1>9, <1>10 DEF Listed
  <2>3. Listed \subseteq Node /\ Listed' \subseteq Node
    BY DEF Listed
  <2> QED
    BY <2>1, <2>2, <2>3
<1>12. ListOK'
  BY <1>1, <1>6, <1>11 DEF ListOK
<1>13. UnlinkedOK'
  <2>1. next[a] # Null
    BY <1>2, <1>8 DEF LInv, UnlinkedOK
  <2> QED
    BY <1>1, <1>5, <1>9, <2>1 DEF LInv, UnlinkedOK
<1>14. ASSUME NEW u \in Thread PROVE GuardOK(u)'
  <2>1. GuardOK(u) /\ g(u) \in Node \union {Null}
    BY GuardType DEF LInv
  <2>2. CASE u = t
    BY <1>3, <1>4, <2>2 DEF GuardOK, Outside
  <2>3. CASE u # t
    <3>1. g(u) # Null => R!Protected(u, "n")'
      <4>1. g(u) = a => <<u, "n">> \in pinned'
        BY <1>1, <2>3 DEF R!Holders, R!Guard, g
      <4>2. <<u, "n">> \in pinned => <<u, "n">> \in pinned'
        BY <1>1, <2>3
      <4>3. slot'[u]["n"] = slot[u]["n"]
        BY <1>3, <2>3 DEF g
      <4> QED
        BY <1>5, <2>1, <4>1, <4>2, <4>3 DEF GuardOK, R!Protected, g
    <3> QED
      BY <1>1, <1>3, <1>4, <2>1, <2>3, <3>1 DEF GuardOK
  <2> QED
    BY <2>2, <2>3
<1>15. ASSUME NEW u \in Thread PROVE FreshOK(u)'
  <2>1. FreshOK(u) /\ (pc[u] = "p_link" => mine[u] # a)
    BY DEF LInv, FreshOK
  <2>2. pc[u] = "p_link" => mine[u] \in Node /\ mine[u] # Null
    BY NodeAssumption DEF LInv, FreshOK
  <2> QED
    BY <1>1, <1>3, <1>4, <1>5, <2>1, <2>2 DEF FreshOK
<1>16. ASSUME NEW u \in Thread PROVE TakenOK(u)'
  <2>1. pc[u] = "o_retire" => g(u) \in Node
    BY GuardType DEF LInv, GuardOK, Outside
  <2> QED
    BY <1>1, <1>2, <1>3, <1>4, <1>5, <2>1 DEF LInv, TakenOK
<1>17. ~Closed'
  BY <1>4, <1>6 DEF Closed
<1> QED
  BY <1>11, <1>7, <1>12, <1>13, <1>14, <1>15, <1>16, <1>17 DEF LInv

LEMMA ReclaimStep ==
  ASSUME LInv, NEW m \in Node, ReclaimNode(m)
  PROVE  LInv' /\ Listed' = Listed /\ \A u \in Thread : g(u) # m
<1>1. /\ status[m] = "retired" /\ R!Holders(m) \intersect pinned = {}
      /\ status' = [status EXCEPT ![m] = "free"]
      /\ UNCHANGED <<qhead, qtail, next, slot, pinned, mine, pc>>
  BY DEF ReclaimNode, R!Reclaim, DeleteNode
<1>2. status'[m] = "free" /\ \A n \in Node \ {m} : status'[n] = status[n]
  BY <1>1 DEF LInv, LType, R!RTypeOK
<1>3. \A u \in Thread : g(u)' = g(u)
  BY <1>1 DEF g
<1>4. LType'
  BY <1>1 DEF LInv, LType, R!RTypeOK
<1>5. \A n \in Node : (Fresh(n)' <=> Fresh(n)) /\ (Taken(n)' <=> Taken(n))
  BY <1>1, <1>3 DEF Fresh, Taken
<1>6. Listed' = Listed
  <2>1. m \notin Listed /\ m \notin Listed'
    BY <1>1, <1>2 DEF Listed
  <2>2. \A n \in Node \ {m} : n \in Listed' <=> n \in Listed
    BY <1>2, <1>5 DEF Listed
  <2>3. Listed \subseteq Node /\ Listed' \subseteq Node
    BY DEF Listed
  <2> QED
    BY <2>1, <2>2, <2>3
<1>7. ListOK => ListOK'
  BY <1>1, <1>6 DEF ListOK
<1>8. UnlinkedOK'
  BY <1>1, <1>2, <1>5 DEF LInv, UnlinkedOK
<1>9. \A u \in Thread : g(u) # m
  <2> SUFFICES ASSUME NEW u \in Thread, g(u) = m PROVE FALSE
    OBVIOUS
  <2>1. <<u, "n">> \in R!Holders(m)
    BY DEF R!Holders, R!Guard, g
  <2>2. R!Protected(u, "n")
    BY NodeAssumption DEF LInv, GuardOK
  <2> QED
    BY <1>1, <2>1, <2>2 DEF R!Protected, g
<1>10. ASSUME NEW u \in Thread PROVE GuardOK(u)'
  <2>1. GuardOK(u) /\ g(u) \in Node \union {Null} /\ g(u) # m
    BY <1>9, GuardType DEF LInv
  <2>2. g(u) # Null => R!Protected(u, "n")'
    BY <1>1, <1>2, <2>1 DEF GuardOK, R!Protected, g
  <2> QED
    BY <1>1, <1>3, <2>1, <2>2 DEF GuardOK
<1>11. ASSUME NEW u \in Thread PROVE FreshOK(u)'
  BY <1>1, <1>2, <1>3 DEF LInv, FreshOK
<1>12. ASSUME NEW u \in Thread PROVE TakenOK(u)'
  <2>1. pc[u] = "o_retire" => g(u) \in Node \ {m}
    BY <1>9, GuardType DEF LInv, GuardOK, Outside
  <2> QED
    BY <1>1, <1>2, <1>3, <2>1 DEF LInv, TakenOK
<1>13. (Closed' <=> Closed) /\ pc' = pc
  BY <1>1 DEF Closed
<1> QED
  BY <1>6, <1>9, <1>4, <1>7, <1>8, <1>10, <1>11, <1>12, <1>13 DEF LInv

LEMMA DestroyNodeStep ==
  ASSUME LInv, NEW t \in Thread, DestroyNode(t)
  PROVE  LInv' /\ Listed' = Listed \ {qhead}
<1> PICK m : m = qhead
  OBVIOUS
<1>1. /\ pc[t] = "destroy" /\ m # Null /\ qhead' = next[m]
      /\ status' = [status EXCEPT ![m] = "free"]
      /\ UNCHANGED <<qtail, next, slot, pinned, mine, pc>>
  BY DEF DestroyNode, DeleteNode
<1>2. m \in Node /\ next[m] \in Node \union {Null}
  BY <1>1 DEF LInv, LType
<1>3. Closed /\ Closed'
  BY <1>1 DEF Closed
<1>4. \A u \in Thread : pc[u] \in {"idle", "destroy"} /\ pc'[u] = pc[u]
  BY <1>1, <1>3 DEF LInv
<1>5. \A u \in Thread : g(u)' = Null
  BY <1>1, <1>4 DEF LInv, GuardOK, g
<1>6. LType'
  BY <1>1, <1>2 DEF LInv, LType, R!RTypeOK
<1>7. UnlinkedOK'
  BY <1>1, <1>2, <1>4 DEF LInv, LType, R!RTypeOK, UnlinkedOK, Taken
<1>8. ASSUME NEW u \in Thread PROVE GuardOK(u)' /\ FreshOK(u)' /\ TakenOK(u)'
  BY <1>4, <1>5 DEF GuardOK, FreshOK, TakenOK, Outside
<1>9. Listed' = Listed \ {m}
  <2>1. status'[m] = "free" /\ \A n \in Node \ {m} : status'[n] = status[n]
    BY <1>1, <1>2 DEF LInv, LType, R!RTypeOK
  <2>2. \A n \in Node : ~Fresh(n) /\ ~Taken(n) /\ ~Fresh(n)' /\ ~Taken(n)'
    BY <1>4 DEF Fresh, Taken
  <2>3. m \notin Listed'
    BY <2>1 DEF Listed
  <2>4. \A n \in Node \ {m} : n \in Listed' <=> n \in Listed
    BY <2>1, <2>2 DEF Listed
  <2>5. Listed \subseteq Node /\ Listed' \subseteq Node
    BY DEF Listed
  <2> QED
    BY <2>3, <2>4, <2>5
<1> QED
  BY <1>3, <1>4, <1>6, <1>7, <1>8, <1>9 DEF LInv

-----------------------------------------------------------------------------
(* The invariant is inductive while pushes find _tail in the list           *)

\* The operation of thread t returns.
LEMMA FinishStep ==
  ASSUME LInv, NEW t \in Thread, NEW a \in PushPC \union PopPC, a \notin {"p_link", "o_retire"},
         Finish(t, a), UNCHANGED <<qhead, next>>, qtail' \in Node
  PROVE  LInv' /\ Listed' = Listed
<1>1. /\ pc[t] = a /\ pc' = [pc EXCEPT ![t] = "idle"] /\ UNCHANGED status
      /\ mine' = [mine EXCEPT ![t] = Null]
      /\ slot' = [slot EXCEPT ![t] = [s \in {"n"} |-> IF s \in {"n"} THEN Null ELSE slot[t][s]]]
      /\ pinned' = pinned \ ({t} \X {"n"})
  BY DEF Finish, Goto, R!Release
<1>2. slot' = [slot EXCEPT ![t]["n"] = Null]
  BY <1>1 DEF LInv, LType, R!RTypeOK
<1>3. pinned' \in SUBSET R!Guard /\ pinned \ {<<t, "n">>} \subseteq pinned'
  BY <1>1 DEF LInv, LType, R!RTypeOK
<1>4. pc[t] \notin {"idle", "destroy"} /\ "idle" \in PC
  BY <1>1 DEF PushPC, PopPC, PC
<1>5. ~Closed
  BY <1>4, Busy
<1> QED
  BY <1>1, <1>2, <1>3, <1>4, <1>5, GuardStep

LEMMA AcquireStep ==
  ASSUME LInv, NEW t \in Thread, NEW b \in {"p_idx", "o_load"}, NEW n \in Listed,
         pc[t] \in {"p_acq", "o_acq"}, pc' = [pc EXCEPT ![t] = b], R!Publish(t, "n", n),
         UNCHANGED <<qhead, qtail, next, status, mine>>
  PROVE  LInv' /\ Listed' = Listed
<1>1. n \in Node /\ n # Null
  BY NodeAssumption DEF Listed
<1>2. slot' = [slot EXCEPT ![t]["n"] = n] /\ pinned \ {<<t, "n">>} \subseteq pinned'
      /\ pinned' \in SUBSET R!Guard
  BY DEF R!Publish, LInv, LType, R!RTypeOK
<1>3. qtail' \in Node /\ b \in PC
  BY DEF LInv, LType, PC
<1>4. ~Closed
  BY Busy
<1> QED
  BY <1>1, <1>2, <1>3, <1>4, GuardStep

\* A push adds its node to the list, and changes nothing else of it.
ListGrows(t) == Listed' = Listed \/ (PushLink(t) /\ Listed' = Listed \union {mine[t]})

LEMMA PushLNext ==
  ASSUME LInv, TailListed, NEW t \in Thread, PushStep(t)
  PROVE  LInv' /\ ListGrows(t)
<1> USE DEF PC, Outside, ListGrows
<1>0. qtail \in Node
  BY DEF LInv, LType
<1>g. g(t) \in Node \union {Null} /\ (pc[t] \notin Outside => g(t) # Null)
  BY GuardType DEF LInv, GuardOK
<1>1. ASSUME NEW v \in Value, Push(t, v) PROVE LInv' /\ ListGrows(t)
  BY <1>0, <1>1, LocalStep DEF Push, Goto, nodes, guards
<1>2. ASSUME PushAcquire(t) PROVE LInv' /\ ListGrows(t)
  <2>1. /\ pc[t] = "p_acq" /\ pc' = [pc EXCEPT ![t] = "p_idx"] /\ R!Publish(t, "n", qtail)
        /\ UNCHANGED <<qhead, qtail, next, status, mine>>
    BY <1>2 DEF PushAcquire, Goto, nodes, Quiet
  <2>2. qtail \in Listed
    BY <2>1 DEF TailListed
  <2> PICK n : n = qtail
    OBVIOUS
  <2> QED
    BY <2>1, <2>2, AcquireStep
<1>3. ASSUME PushIdx(t) PROVE LInv' /\ ListGrows(t)
  <2> PICK b : b = IF push_idx[g(t)] >= max_idx THEN "p_tail" ELSE "p_cas"
    OBVIOUS
  <2>1. pc[t] = "p_idx" /\ pc' = [pc EXCEPT ![t] = b]
        /\ UNCHANGED <<qhead, qtail, next, status, slot, pinned, mine>>
    BY <1>3 DEF PushIdx, Goto, Quiet, guards
  <2>2. b \in {"p_tail", "p_cas"}
    OBVIOUS
  <2> QED
    BY <1>0, <1>g, <2>1, <2>2, Busy, LocalStep
<1>4. ASSUME PushTail(t) PROVE LInv' /\ ListGrows(t)
  <2> PICK b : b = IF qtail = g(t) THEN "p_next" ELSE "p_acq"
    OBVIOUS
  <2>1. pc[t] = "p_tail" /\ pc' = [pc EXCEPT ![t] = b]
        /\ UNCHANGED <<qhead, qtail, next, status, slot, pinned, mine>>
    BY <1>4 DEF PushTail, Goto, Quiet, guards, nodes
  <2>2. b \in {"p_next", "p_acq"}
    OBVIOUS
  <2> QED
    BY <1>0, <1>g, <2>1, <2>2, Busy, LocalStep
<1>5. ASSUME PushMustHelp(t) PROVE LInv' /\ ListGrows(t)
  BY <1>0, <1>g, <1>5, Busy, LocalStep DEF PushMustHelp, Goto, Quiet, guards, nodes
<1>6. ASSUME PushHelp(t) PROVE LInv' /\ ListGrows(t)
  <2>1. pc[t] = "p_help" /\ pc' = [pc EXCEPT ![t] = "p_acq"]
        /\ UNCHANGED <<qhead, next, status, slot, pinned, mine>>
    BY <1>6 DEF PushHelp, Goto, Quiet, guards
  <2>2. next[g(t)] # Null
    BY <2>1 DEF LInv, GuardOK
  <2>3. qtail' \in Node
    BY <1>0, <1>g, <1>6, <2>1, <2>2 DEF PushHelp, SwingTail, LInv, LType
  <2> QED
    BY <2>1, <2>3, Busy, LocalStep
<1>7. ASSUME NEW m \in Node, PushNew(t, m) PROVE LInv' /\ ListGrows(t)
  BY <1>7, NewStep
<1>8. ASSUME PushLink(t) PROVE LInv' /\ ListGrows(t)
  BY <1>8, LinkStep
<1>9. ASSUME PushLinkFails(t) PROVE LInv' /\ ListGrows(t)
  BY <1>9, LinkFailsStep
<1>10. ASSUME PushSwing(t) PROVE LInv' /\ ListGrows(t)
  <2>1. mine[t] # Null
    BY <1>10 DEF PushSwing, Finish, Goto, LInv, GuardOK
  <2>2. qtail' \in Node
    BY <1>0, <1>10, <2>1 DEF PushSwing, SwingTail, LInv, LType
  <2>3. UNCHANGED <<qhead, next>> /\ Finish(t, "p_swing")
    BY <1>10 DEF PushSwing
  <2> QED
    BY <2>2, <2>3, FinishStep DEF PushPC
<1>11. ASSUME PushCas(t) PROVE LInv' /\ ListGrows(t)
  BY <1>0, <1>11, FinishStep DEF PushCas, PushPC
<1>12. ASSUME PushCasFails(t) PROVE LInv' /\ ListGrows(t)
  BY <1>0, <1>g, <1>12, Busy, LocalStep DEF PushCasFails, Goto, Quiet, guards, nodes
<1> QED
  BY <1>1, <1>2, <1>3, <1>4, <1>5, <1>6, <1>7, <1>8, <1>9, <1>10, <1>11, <1>12 DEF PushStep

LEMMA PopLNext ==
  ASSUME LInv, NEW t \in Thread, PopStep(t)
  PROVE  LInv' /\ (Listed' = Listed \/ PopCas(t))
<1> USE DEF PC, Outside
<1>0. qtail \in Node
  BY DEF LInv, LType
<1>g. g(t) \in Node \union {Null} /\ (pc[t] \notin Outside => g(t) # Null)
  BY GuardType DEF LInv, GuardOK
<1>1. ASSUME TryPop(t) PROVE LInv' /\ (Listed' = Listed \/ PopCas(t))
  BY <1>0, <1>1, LocalStep DEF TryPop, Goto, nodes, guards
<1>2. ASSUME PopAcquire(t) PROVE LInv' /\ (Listed' = Listed \/ PopCas(t))
  <2>1. /\ pc[t] = "o_acq" /\ pc' = [pc EXCEPT ![t] = "o_load"] /\ R!Publish(t, "n", qhead)
        /\ UNCHANGED <<qhead, qtail, next, status, mine>>
    BY <1>2 DEF PopAcquire, Goto, nodes, Quiet
  <2>2. qhead \in Listed
    BY <2>1, Busy DEF ListOK
  <2> PICK n : n = qhead
    OBVIOUS
  <2> QED
    BY <2>1, <2>2, AcquireStep
<1>3. ASSUME PopLoad(t) PROVE LInv' /\ (Listed' = Listed \/ PopCas(t))
  BY <1>0, <1>g, <1>3, Busy, LocalStep DEF PopLoad, Goto, Quiet, guards, nodes
<1>4. ASSUME PopCheck(t) PROVE LInv' /\ (Listed' = Listed \/ PopCas(t))
  <2> PICK b : b = IF idx[t] >= push_idx[g(t)] THEN "o_empty" ELSE "o_idx"
    OBVIOUS
  <2>1. pc[t] = "o_check" /\ pc' = [pc EXCEPT ![t] = b]
        /\ UNCHANGED <<qhead, qtail, next, status, slot, pinned, mine>>
    BY <1>4 DEF PopCheck, Goto, Quiet, guards, nodes
  <2>2. b \in {"o_empty", "o_idx"}
    OBVIOUS
  <2> QED
    BY <1>0, <1>g, <2>1, <2>2, Busy, LocalStep
<1>5. ASSUME PopNotEmpty(t) PROVE LInv' /\ (Listed' = Listed \/ PopCas(t))
  BY <1>0, <1>g, <1>5, Busy, LocalStep DEF PopNotEmpty, Goto, Quiet, guards, nodes
<1>6. ASSUME NEW a \in {"o_empty", "o_next"}, PopEmpty(t, a) PROVE LInv' /\ (Listed' = Listed \/ PopCas(t))
  BY <1>0, <1>6, FinishStep DEF PopEmpty, PopPC, nodes
<1>7. ASSUME PopIdx(t) PROVE LInv' /\ (Listed' = Listed \/ PopCas(t))
  <2> PICK b : b = IF pop_idx[g(t)] >= max_idx THEN "o_next" ELSE "o_read"
    OBVIOUS
  <2>1. pc[t] = "o_idx" /\ pc' = [pc EXCEPT ![t] = b]
        /\ UNCHANGED <<qhead, qtail, next, status, slot, pinned, mine>>
    BY <1>7 DEF PopIdx, Goto, Quiet, guards
  <2>2. b \in {"o_next", "o_read"}
    OBVIOUS
  <2> QED
    BY <1>0, <1>g, <2>1, <2>2, Busy, LocalStep
<1>8. ASSUME PopNext(t) PROVE LInv' /\ (Listed' = Listed \/ PopCas(t))
  BY <1>0, <1>g, <1>8, Busy, LocalStep DEF PopNext, Goto, Quiet, guards, nodes
<1>9. ASSUME PopCas(t) PROVE LInv' /\ (Listed' = Listed \/ PopCas(t))
  BY <1>9, PopCasStep
<1>10. ASSUME PopCasFails(t) PROVE LInv' /\ (Listed' = Listed \/ PopCas(t))
  BY <1>0, <1>g, <1>10, Busy, LocalStep DEF PopCasFails, Goto, Quiet, guards, nodes
<1>11. ASSUME PopRetire(t) PROVE LInv' /\ (Listed' = Listed \/ PopCas(t))
  BY <1>11, RetireStep
<1>12. ASSUME PopRead(t) PROVE LInv' /\ (Listed' = Listed \/ PopCas(t))
  BY <1>0, <1>g, <1>12, Busy, LocalStep DEF PopRead, PopFound, Goto, guards, nodes
<1>13. ASSUME PopGiveUp(t) PROVE LInv' /\ (Listed' = Listed \/ PopCas(t))
  BY <1>0, <1>g, <1>13, Busy, LocalStep DEF PopGiveUp, Goto, Quiet, guards, nodes
<1>14. ASSUME PopSpoilFinds(t) PROVE LInv' /\ (Listed' = Listed \/ PopCas(t))
  BY <1>0, <1>g, <1>14, Busy, LocalStep DEF PopSpoilFinds, PopFound, Goto, guards
<1>15. ASSUME PopSpoil(t) PROVE LInv' /\ (Listed' = Listed \/ PopCas(t))
  BY <1>0, <1>g, <1>15, Busy, LocalStep DEF PopSpoil, Goto, Quiet, guards
<1>16. ASSUME PopReturn(t) PROVE LInv' /\ (Listed' = Listed \/ PopCas(t))
  BY <1>0, <1>16, FinishStep DEF PopReturn, PopPC, nodes
<1> QED
  BY <1>1, <1>2, <1>3, <1>4, <1>5, <1>6, <1>7, <1>8, <1>9, <1>10, <1>11, <1>12, <1>13, <1>14,
     <1>15, <1>16 DEF PopStep

LEMMA DestroyStep ==
  ASSUME LInv, NEW t \in Thread, Destroy(t)
  PROVE  LInv' /\ Listed' = Listed
<1>1. /\ \A u \in Thread : pc[u] = "idle"
      /\ pc' = [pc EXCEPT ![t] = "destroy"]
      /\ UNCHANGED <<qhead, qtail, next, status, slot, pinned, mine>>
  BY DEF Destroy, Goto, Quiet, nodes, guards
<1>2. ~Closed /\ qtail' \in Node /\ g(t) = Null
  BY <1>1 DEF Closed, LInv, LType, GuardOK
<1> QED
  BY <1>1, <1>2, LocalStep DEF PC, Outside

\* A stutter changes nothing the invariant is about.
LEMMA StutterL == LInv /\ UNCHANGED vars => LInv'
<1> SUFFICES ASSUME LInv, UNCHANGED vars PROVE LInv'
  OBVIOUS
<1>1. UNCHANGED <<qhead, qtail, next, status, slot, pinned, pc, mine>>
  BY DEF vars, nodes, guards
<1>2. LType'
  BY <1>1 DEF LInv, LType, R!RTypeOK
<1>3. Listed' = Listed /\ (Closed' <=> Closed)
  BY <1>1 DEF Listed, Fresh, Taken, Closed, g
<1>4. (ListOK' <=> ListOK) /\ UnlinkedOK'
  BY <1>1, <1>3 DEF LInv, ListOK, UnlinkedOK, Taken, g
<1>5. ASSUME NEW u \in Thread PROVE GuardOK(u)' /\ FreshOK(u)' /\ TakenOK(u)'
  BY <1>1 DEF LInv, GuardOK, FreshOK, TakenOK, R!Protected, g
<1>6. Closed' => \A u \in Thread : pc'[u] \in {"idle", "destroy"}
  BY <1>1, <1>3 DEF LInv
<1> QED
  BY <1>2, <1>3, <1>4, <1>5, <1>6 DEF LInv

LEMMA NextL == LInv /\ TailListed /\ [Next]_vars => LInv'
<1> SUFFICES ASSUME LInv, TailListed, [Next]_vars PROVE LInv'
  OBVIOUS
<1>1. ASSUME NEW t \in Thread, PushStep(t) PROVE LInv'
  BY <1>1, PushLNext
<1>2. ASSUME NEW t \in Thread, PopStep(t) PROVE LInv'
  BY <1>2, PopLNext
<1>3. ASSUME NEW t \in Thread, Destroy(t) PROVE LInv'
  BY <1>3, DestroyStep
<1>4. ASSUME NEW t \in Thread, DestroyNode(t) PROVE LInv'
  BY <1>4, DestroyNodeStep
<1>5. ASSUME NEW m \in Node, ReclaimNode(m) PROVE LInv'
  BY <1>5, ReclaimStep
<1>6. CASE UNCHANGED vars
  BY <1>6, StutterL
<1> QED
  BY <1>1, <1>2, <1>3, <1>4, <1>5, <1>6 DEF Next

LEMMA LInvSafe == LInv => MemorySafe
<1> SUFFICES ASSUME LInv, NEW t \in Thread, g(t) # Null PROVE status[g(t)] # "free"
  BY DEF MemorySafe
<1> QED
  BY GuardType

\* A thread that pushes or pops never touches a deleted node, as long as no push
\* acquires _tail when its node has been unlinked (push 172).
THEOREM MemorySafetyInList == Spec /\ []TailListed => []MemorySafe
<1>1. Init => LInv
  BY InitLInv
<1>2. LInv /\ TailListed /\ [Next]_vars => LInv'
  BY NextL
<1>3. LInv => MemorySafe
  BY LInvSafe
<1> QED
  BY <1>1, <1>2, <1>3, PTL DEF Spec

-----------------------------------------------------------------------------
(* With one thread that pushes beside try_pop, _tail is in the list         *)

LEMMA TailListedHolds ==
  ASSUME NEW p, LateIs(p), LInv, TInv(p)
  PROVE  TailListed
<1> SUFFICES ASSUME NEW t \in Thread, pc[t] = "p_acq" PROVE qtail \in Listed
  BY DEF TailListed
<1>1. ~Closed
  BY Busy
<1>2. t # p => pops = 0
  BY DEF TInv, RolesOK, PushPC
<1> QED
  BY <1>1, <1>2 DEF TInv, TailOK

LEMMA InitTInv ==
  ASSUME NEW p, LateIs(p), Init
  PROVE  TInv(p)
<1>1. LInv
  BY InitLInv
<1>2. /\ next = [m \in Node |-> Null] /\ pc = [t \in Thread |-> "idle"] /\ pops = 0
      /\ qhead = qtail
  BY DEF Init
<1>3. ~Closed
  BY <1>2 DEF Closed
<1>4. qtail \in Listed /\ next[qtail] = Null
  BY <1>1, <1>2, <1>3 DEF LInv, ListOK, Listed
<1>5. RolesOK(p)
  BY <1>2 DEF RolesOK, PushPC, PopPC
<1>6. \A t \in Thread : PusherOK(t)
  BY <1>2 DEF PusherOK, PushPC
<1> QED
  BY <1>4, <1>5, <1>6 DEF TInv, TailOK

LEMMA RolesKept ==
  ASSUME NEW p, LInv, RolesOK(p), NEW t \in Thread, NEW b,
         pc' = [pc EXCEPT ![t] = b], UNCHANGED pops,
         b \in PushPC => pc[t] \in PushPC, b \in PopPC => pc[t] \in PopPC
  PROVE  RolesOK(p)'
BY DEF LInv, LType, RolesOK

LEMMA RolesStep ==
  ASSUME NEW p, LateIs(p), LInv, RolesOK(p), NEW t \in Thread, PushStep(t) \/ PopStep(t)
  PROVE  RolesOK(p)'
<1> USE DEF PushPC, PopPC
<1>1. ASSUME NEW v \in Value, Push(t, v) PROVE RolesOK(p)'
  <2>1. /\ pc' = [pc EXCEPT ![t] = "p_acq"] /\ UNCHANGED pops
        /\ t \in Pusher /\ (t \in EarlyPusher => pops = 0)
    BY <1>1 DEF Push, Goto
  <2>2. t # p => pops = 0
    BY <2>1 DEF LateIs
  <2> QED
    BY <2>1, <2>2 DEF RolesOK, LInv, LType
<1>2. ASSUME TryPop(t) PROVE RolesOK(p)'
  <2>1. /\ pc[t] = "idle" /\ pc' = [pc EXCEPT ![t] = "o_acq"] /\ pops' = pops + 1
        /\ pops = 0 /\ EarlyPusher # {} => \A u \in Thread : pc[u] = "idle"
    BY <1>2 DEF TryPop, Goto
  <2>2. pops' \in Nat /\ pops' # 0
    BY <2>1 DEF RolesOK
  <2>3. \A u \in Thread : pc'[u] \in PushPC => u = p /\ u \in Pusher
    BY <2>1 DEF LateIs, RolesOK, LInv, LType
  <2> QED
    BY <2>2, <2>3 DEF RolesOK
<1>3. CASE \E b \in PushPC \union PopPC \union {"idle"} :
             /\ pc' = [pc EXCEPT ![t] = b] /\ UNCHANGED pops
             /\ b \in PushPC => pc[t] \in PushPC
             /\ b \in PopPC => pc[t] \in PopPC
  BY <1>3, RolesKept
<1> USE DEF Goto, Quiet, Finish
<1>4. ASSUME \/ PushAcquire(t) \/ PushIdx(t) \/ PushTail(t) \/ PushMustHelp(t) \/ PushHelp(t)
             \/ (\E m \in Node : PushNew(t, m))
             \/ PushLink(t) \/ PushLinkFails(t) \/ PushSwing(t) \/ PushCas(t) \/ PushCasFails(t)
      PROVE  RolesOK(p)'
  <2>1. ASSUME NEW b \in PushPC \union {"idle"}, pc[t] \in PushPC, pc' = [pc EXCEPT ![t] = b],
               UNCHANGED pops
        PROVE  RolesOK(p)'
    BY <2>1, <1>3
  <2>2. CASE PushAcquire(t) \/ PushIdx(t) \/ PushTail(t)
    BY <2>1, <2>2 DEF PushAcquire, PushIdx, PushTail
  <2>3. CASE PushMustHelp(t) \/ PushHelp(t) \/ (\E m \in Node : PushNew(t, m))
    BY <2>1, <2>3 DEF PushMustHelp, PushHelp, PushNew
  <2>4. CASE PushLink(t) \/ PushLinkFails(t) \/ PushCasFails(t)
    BY <2>1, <2>4 DEF PushLink, PushLinkFails, PushCasFails
  <2>5. CASE PushSwing(t) \/ PushCas(t)
    BY <2>1, <2>5 DEF PushSwing, PushCas
  <2> QED
    BY <1>4, <2>2, <2>3, <2>4, <2>5
<1>5. ASSUME \/ PopAcquire(t) \/ PopLoad(t) \/ PopCheck(t) \/ PopNotEmpty(t)
             \/ PopEmpty(t, "o_empty") \/ PopEmpty(t, "o_next") \/ PopIdx(t) \/ PopNext(t)
             \/ PopCas(t) \/ PopCasFails(t) \/ PopRetire(t) \/ PopRead(t) \/ PopGiveUp(t)
             \/ PopSpoilFinds(t) \/ PopSpoil(t) \/ PopReturn(t)
      PROVE  RolesOK(p)'
  <2>1. ASSUME NEW b \in PopPC \union {"idle"}, pc[t] \in PopPC, pc' = [pc EXCEPT ![t] = b],
               UNCHANGED pops
        PROVE  RolesOK(p)'
    BY <2>1, <1>3
  <2>2. CASE PopAcquire(t) \/ PopLoad(t) \/ PopCheck(t) \/ PopNotEmpty(t)
    BY <2>1, <2>2 DEF PopAcquire, PopLoad, PopCheck, PopNotEmpty
  <2>3. CASE PopEmpty(t, "o_empty") \/ PopEmpty(t, "o_next") \/ PopReturn(t)
    BY <2>1, <2>3 DEF PopEmpty, PopReturn
  <2>4. CASE PopIdx(t) \/ PopNext(t) \/ PopCas(t) \/ PopCasFails(t) \/ PopRetire(t)
    BY <2>1, <2>4 DEF PopIdx, PopNext, PopCas, PopCasFails, PopRetire
  <2>5. CASE PopRead(t) \/ PopGiveUp(t) \/ PopSpoilFinds(t) \/ PopSpoil(t)
    BY <2>1, <2>5 DEF PopRead, PopFound, PopGiveUp, PopSpoilFinds, PopSpoil
  <2> QED
    BY <1>5, <2>2, <2>3, <2>4, <2>5
<1> QED
  BY <1>1, <1>2, <1>4, <1>5 DEF PushStep, PopStep

\* A step that neither links a node nor moves _tail nor unlinks a node
LEMMA TailKept ==
  ASSUME NEW p, LateIs(p), LInv, TInv(p), ~Closed, NEW t \in Thread, NEW b \in PC,
         pc' = [pc EXCEPT ![t] = b], UNCHANGED <<qtail, next>>, Listed \subseteq Listed',
         \A u \in Thread \ {t} : g(u)' = g(u) /\ mine'[u] = mine[u],
         pc[t] # "p_swing", b # "p_swing", pops # 0 => pops' # 0,
         b \in PushPC \ {"p_acq"} /\ next[g(t)'] = Null => qtail = g(t)'
  PROVE  TailOK(p)' /\ \A u \in Thread : PusherOK(u)'
<1>1. pc'[t] = b /\ \A u \in Thread \ {t} : pc'[u] = pc[u]
  BY DEF LInv, LType
<1>2. TailOK(p) /\ \A u \in Thread : PusherOK(u)
  BY DEF TInv
<1>3. TailOK(p)'
  <2>1. qtail' \in Listed' \/ (pops' # 0 /\ pc'[p] = "p_swing" /\ g(p)' = qtail')
    <3>1. CASE qtail \in Listed
      BY <3>1
    <3>2. CASE pops # 0 /\ pc[p] = "p_swing" /\ g(p) = qtail
      BY <1>1, <3>2 DEF LateIs
    <3> QED
      BY <1>2, <3>1, <3>2 DEF TailOK
  <2>2. next'[qtail'] # Null => /\ next'[qtail'] \in Listed' /\ next'[next'[qtail']] = Null
                                /\ \E u \in Thread : pc'[u] = "p_swing" /\ g(u)' = qtail'
    BY <1>1, <1>2 DEF TailOK
  <2> QED
    BY <2>1, <2>2 DEF TailOK
<1>4. ASSUME NEW u \in Thread PROVE PusherOK(u)'
  <2>1. CASE u = t
    BY <1>1, <2>1 DEF PusherOK
  <2>2. CASE u # t
    BY <1>1, <1>2, <2>2 DEF PusherOK
  <2> QED
    BY <2>1, <2>2
<1> QED
  BY <1>3, <1>4

LEMMA TailNew ==
  ASSUME NEW p, LateIs(p), LInv, TInv(p), NEW t \in Thread, NEW m \in Node, PushNew(t, m)
  PROVE  TailOK(p)' /\ \A u \in Thread : PusherOK(u)'
<1>1. /\ pc[t] = "p_next" /\ pc' = [pc EXCEPT ![t] = "p_link"] /\ status[m] = "free"
      /\ mine' = [mine EXCEPT ![t] = m] /\ next' = [next EXCEPT ![m] = Null] /\ next[g(t)] = Null
      /\ UNCHANGED <<qhead, qtail, slot, pops>>
  BY DEF PushNew, Goto, R!Allocate
<1>2. ~Closed /\ Listed' = Listed /\ TailOK(p) /\ \A u \in Thread : PusherOK(u)
  BY <1>1, Busy, NewStep DEF TInv
<1>3. pc'[t] = "p_link" /\ \A u \in Thread \ {t} : pc'[u] = pc[u] /\ mine'[u] = mine[u]
  BY <1>1 DEF LInv, LType
<1>4. \A u \in Thread : g(u)' = g(u)
  BY <1>1 DEF g
<1>5. \A u \in Thread : g(u) # m
  BY <1>1, GuardType, NodeAssumption
<1>6. m \notin Listed /\ qtail \in Node
  BY <1>1 DEF Listed, LInv, LType
<1>7. m # qtail
  BY <1>2, <1>5, <1>6 DEF TailOK, LateIs
<1>8. next'[m] = Null /\ \A n \in Node \ {m} : next'[n] = next[n]
  BY <1>1 DEF LInv, LType
<1>9. TailOK(p)'
  <2>1. qtail' \in Listed' \/ (pops' # 0 /\ pc'[p] = "p_swing" /\ g(p)' = qtail')
    BY <1>1, <1>2, <1>3, <1>4 DEF TailOK, LateIs
  <2>2. ASSUME next'[qtail'] # Null
        PROVE  /\ next'[qtail'] \in Listed' /\ next'[next'[qtail']] = Null
               /\ \E u \in Thread : pc'[u] = "p_swing" /\ g(u)' = qtail'
    <3>1. next'[qtail'] = next[qtail] /\ next[qtail] # Null
      BY <1>1, <1>6, <1>7, <1>8, <2>2
    <3>2. next[qtail] \in Listed /\ next[next[qtail]] = Null
      BY <1>2, <3>1 DEF TailOK
    <3>3. next[qtail] \in Node \ {m}
      BY <1>6, <3>2 DEF Listed
    <3>4. PICK u \in Thread : pc[u] = "p_swing" /\ g(u) = qtail
      BY <1>2, <3>1 DEF TailOK
    <3>5. pc'[u] = "p_swing" /\ g(u)' = qtail'
      BY <1>1, <1>3, <1>4, <3>4
    <3> QED
      BY <1>2, <1>8, <3>1, <3>2, <3>3, <3>5
  <2> QED
    BY <2>1, <2>2 DEF TailOK
<1>10. ASSUME NEW u \in Thread PROVE PusherOK(u)'
  <2>1. pc[u] \notin Outside => g(u) \in Node \ {m}
    BY <1>5, GuardType DEF LInv, GuardOK
  <2>2. PusherOK(u)
    BY <1>2
  <2>3. CASE u = t
    BY <1>1, <1>3, <1>4, <1>8, <2>1, <2>2, <2>3 DEF PusherOK, PushPC, Outside
  <2>4. CASE u # t
    BY <1>1, <1>3, <1>4, <1>8, <2>1, <2>2, <2>4 DEF PusherOK, PushPC, Outside
  <2> QED
    BY <2>3, <2>4
<1> QED
  BY <1>9, <1>10

LEMMA TailLink ==
  ASSUME NEW p, LateIs(p), LInv, TInv(p), NEW t \in Thread, PushLink(t)
  PROVE  TailOK(p)' /\ \A u \in Thread : PusherOK(u)'
<1> PICK a : a = g(t)
  OBVIOUS
<1> PICK m : m = mine[t]
  OBVIOUS
<1>1. /\ pc[t] = "p_link" /\ pc' = [pc EXCEPT ![t] = "p_swing"] /\ next[a] = Null
      /\ next' = [next EXCEPT ![a] = m] /\ UNCHANGED <<qhead, qtail, slot, mine, pops>>
  BY DEF PushLink, Goto, Quiet, guards
<1>2. TailOK(p) /\ \A u \in Thread : PusherOK(u)
  BY <1>1, Busy DEF TInv
<1>3. Listed' = Listed \union {m}
  BY LinkStep
<1>4. \A u \in Thread : g(u)' = g(u) /\ mine'[u] = mine[u]
  BY <1>1 DEF g
<1>5. pc'[t] = "p_swing" /\ \A u \in Thread \ {t} : pc'[u] = pc[u]
  BY <1>1 DEF LInv, LType
<1>6. a \in Node /\ m \in Node /\ m # a /\ next[m] = Null /\ m # Null
  <2>1. a # Null
    BY <1>1 DEF LInv, GuardOK, Outside
  <2> QED
    BY <1>1, <2>1, GuardType, NodeAssumption DEF LInv, FreshOK
<1>7. next'[a] = m /\ next'[m] = Null /\ \A n \in Node \ {a} : next'[n] = next[n]
  BY <1>1, <1>6 DEF LInv, LType
<1>8. qtail = a
  BY <1>1, <1>2 DEF PusherOK, PushPC
<1>9. TailOK(p)'
  <2>1. qtail' \in Listed' \/ (pops' # 0 /\ pc'[p] = "p_swing" /\ g(p)' = qtail')
    BY <1>1, <1>2, <1>3, <1>4, <1>5 DEF TailOK, LateIs
  <2>2. /\ next'[qtail'] \in Listed' /\ next'[next'[qtail']] = Null
        /\ \E u \in Thread : pc'[u] = "p_swing" /\ g(u)' = qtail'
    BY <1>1, <1>3, <1>4, <1>5, <1>7, <1>8
  <2> QED
    BY <2>1, <2>2 DEF TailOK
<1>10. ASSUME NEW u \in Thread PROVE PusherOK(u)'
  <2>1. PusherOK(u) /\ (pc[u] \notin Outside => g(u) \in Node)
    BY <1>2, GuardType DEF LInv, GuardOK
  <2>2. CASE u = t
    BY <1>4, <1>5, <1>6, <1>7, <2>2 DEF PusherOK
  <2>3. CASE u # t
    <3>1. pc[u] = "p_swing" => mine[u] # Null
      BY DEF LInv, GuardOK
    <3>2. pc[u] \in PushPC \ {"p_acq"} => pc[u] \notin Outside
      BY DEF PushPC, Outside
    <3> QED
      BY <1>1, <1>4, <1>5, <1>6, <1>7, <2>1, <2>3, <3>1, <3>2 DEF PusherOK, Outside
  <2> QED
    BY <2>2, <2>3
<1> QED
  BY <1>9, <1>10

\* The new _tail is the node linked last.
LEMMA TailMoves ==
  ASSUME NEW p, LateIs(p), LInv, TInv(p), ~Closed, NEW t \in Thread,
         NEW b \in {"idle", "p_acq"}, NEW m \in Node,
         pc' = [pc EXCEPT ![t] = b], pc[t] \in {"p_swing", "p_help"},
         next[g(t)] = m, SwingTail(t, m), UNCHANGED <<next, pops>>, Listed \subseteq Listed',
         \A u \in Thread \ {t} : g(u)' = g(u) /\ mine'[u] = mine[u]
  PROVE  TailOK(p)' /\ \A u \in Thread : PusherOK(u)'
<1>1. TailOK(p) /\ \A u \in Thread : PusherOK(u)
  BY DEF TInv
<1>2. pc'[t] = b /\ \A u \in Thread \ {t} : pc'[u] = pc[u]
  BY DEF LInv, LType
<1>3. m # Null
  BY NodeAssumption
<1>4. CASE qtail = g(t)
  <2>1. qtail' = m /\ m \in Listed /\ next[m] = Null
    BY <1>1, <1>3, <1>4 DEF SwingTail, TailOK
  <2>2. TailOK(p)'
    BY <2>1 DEF TailOK
  <2>3. ASSUME NEW u \in Thread PROVE PusherOK(u)'
    <3>1. CASE u = t
      BY <1>2, <3>1 DEF PusherOK, PushPC
    <3>2. CASE u # t
      BY <1>1, <1>2, <1>3, <1>4, <3>2 DEF PusherOK
    <3> QED
      BY <3>1, <3>2
  <2> QED
    BY <2>2, <2>3
<1>5. CASE qtail # g(t)
  <2>1. qtail' = qtail
    BY <1>5 DEF SwingTail
  <2>2. TailOK(p)'
    <3>1. qtail' \in Listed' \/ (pops' # 0 /\ pc'[p] = "p_swing" /\ g(p)' = qtail')
      BY <1>1, <1>2, <1>5, <2>1 DEF TailOK, LateIs
    <3>2. next'[qtail'] # Null => /\ next'[qtail'] \in Listed' /\ next'[next'[qtail']] = Null
                                  /\ \E u \in Thread : pc'[u] = "p_swing" /\ g(u)' = qtail'
      BY <1>1, <1>2, <1>5, <2>1 DEF TailOK
    <3> QED
      BY <3>1, <3>2 DEF TailOK
  <2>3. ASSUME NEW u \in Thread PROVE PusherOK(u)'
    <3>1. CASE u = t
      BY <1>2, <3>1 DEF PusherOK, PushPC
    <3>2. CASE u # t
      BY <1>1, <1>2, <2>1, <3>2 DEF PusherOK
    <3> QED
      BY <3>1, <3>2
  <2> QED
    BY <2>2, <2>3
<1> QED
  BY <1>4, <1>5

\* When _head leaves the node of _tail, the push that has linked its successor is
\* about to move _tail, and is the only one there is.
LEMMA TailPopCas ==
  ASSUME NEW p, LateIs(p), LInv, TInv(p), NEW t \in Thread, PopCas(t)
  PROVE  TailOK(p)' /\ \A u \in Thread : PusherOK(u)'
<1> PICK a : a = g(t)
  OBVIOUS
<1>1. /\ pc[t] = "o_cas" /\ pc' = [pc EXCEPT ![t] = "o_retire"] /\ qhead = a
      /\ UNCHANGED <<qtail, next, slot, mine, pops>>
  BY DEF PopCas, Goto, Quiet, guards
<1>2. TailOK(p) /\ RolesOK(p) /\ \A u \in Thread : PusherOK(u)
  BY <1>1, Busy DEF TInv
<1>3. Listed' = Listed \ {a}
  BY PopCasStep
<1>4. \A u \in Thread : g(u)' = g(u) /\ mine'[u] = mine[u]
  BY <1>1 DEF g
<1>5. pc'[t] = "o_retire" /\ \A u \in Thread \ {t} : pc'[u] = pc[u]
  BY <1>1 DEF LInv, LType
<1>6. next[a] # Null /\ pops # 0
  BY <1>1, <1>2 DEF LInv, GuardOK, RolesOK, PopPC
<1>7. \A u \in Thread : pc[u] = "p_swing" => u = p
  BY <1>2, <1>6 DEF RolesOK, PushPC
<1>8. TailOK(p)'
  <2>1. qtail' \in Listed' \/ (pops' # 0 /\ pc'[p] = "p_swing" /\ g(p)' = qtail')
    <3>1. CASE qtail = a
      <4>1. PICK u \in Thread : pc[u] = "p_swing" /\ g(u) = qtail
        BY <1>2, <1>6, <3>1 DEF TailOK
      <4> QED
        BY <1>1, <1>4, <1>5, <1>6, <1>7, <4>1
    <3>2. CASE qtail # a
      BY <1>1, <1>2, <1>3, <1>4, <1>5, <3>2 DEF TailOK, LateIs
    <3> QED
      BY <3>1, <3>2
  <2>2. next'[qtail'] # Null => /\ next'[qtail'] \in Listed' /\ next'[next'[qtail']] = Null
                                /\ \E u \in Thread : pc'[u] = "p_swing" /\ g(u)' = qtail'
    BY <1>1, <1>2, <1>3, <1>4, <1>5, <1>6 DEF TailOK
  <2> QED
    BY <2>1, <2>2 DEF TailOK
<1>9. ASSUME NEW u \in Thread PROVE PusherOK(u)'
  BY <1>1, <1>2, <1>4, <1>5 DEF PusherOK, PushPC
<1> QED
  BY <1>8, <1>9

LEMMA TailPush ==
  ASSUME NEW p, LateIs(p), LInv, TInv(p), NEW t \in Thread, PushStep(t)
  PROVE  TailOK(p)' /\ \A u \in Thread : PusherOK(u)'
<1> USE DEF Goto, Quiet
<1>0. Listed \subseteq Listed'
  BY PushLNext, TailListedHolds DEF ListGrows
<1>1. PusherOK(t) /\ g(t) \in Node \union {Null}
  BY GuardType DEF TInv
<1>2. ASSUME NEW a \in PushPC \ {"p_swing"}, NEW b \in PushPC \ {"p_swing"},
             pc[t] = a, pc' = [pc EXCEPT ![t] = b],
             UNCHANGED <<qtail, next, slot, mine, pops>>, a = "p_acq" => b = "p_acq"
      PROVE  TailOK(p)' /\ \A u \in Thread : PusherOK(u)'
  <2>1. ~Closed /\ b \in PC
    BY <1>2, Busy DEF PushPC, PC
  <2>2. \A u \in Thread : g(u)' = g(u) /\ mine'[u] = mine[u]
    BY <1>2 DEF g
  <2>3. b \in PushPC \ {"p_acq"} /\ next[g(t)'] = Null => qtail = g(t)'
    BY <1>1, <1>2, <2>2 DEF PusherOK
  <2> QED
    BY <1>0, <1>2, <2>1, <2>2, <2>3, TailKept
<1>3. ASSUME NEW a \in PushPC, NEW b \in {"p_acq", "p_idx", "idle"}, a # "p_swing",
             pc[t] = a, pc' = [pc EXCEPT ![t] = b],
             UNCHANGED <<qtail, next, pops>>,
             \A u \in Thread \ {t} : g(u)' = g(u) /\ mine'[u] = mine[u],
             b = "p_idx" => g(t)' = qtail
      PROVE  TailOK(p)' /\ \A u \in Thread : PusherOK(u)'
  <2>1. ~Closed /\ b \in PC
    BY <1>3, Busy DEF PushPC, PC
  <2>2. b \in PushPC \ {"p_acq"} /\ next[g(t)'] = Null => qtail = g(t)'
    BY <1>3 DEF PushPC
  <2> QED
    BY <1>0, <1>3, <2>1, <2>2, TailKept
<1>4. ASSUME NEW v \in Value, Push(t, v) PROVE TailOK(p)' /\ \A u \in Thread : PusherOK(u)'
  <2>1. /\ ~Closed /\ pc[t] = "idle" /\ pc' = [pc EXCEPT ![t] = "p_acq"]
        /\ UNCHANGED <<qtail, next, slot, mine, pops>>
    BY <1>4 DEF Push, nodes, guards
  <2>2. \A u \in Thread : g(u)' = g(u) /\ mine'[u] = mine[u]
    BY <2>1 DEF g
  <2>3. "p_acq" \in PC
    BY DEF PC
  <2> QED
    BY <1>0, <2>1, <2>2, <2>3, TailKept
<1>5. ASSUME PushAcquire(t) PROVE TailOK(p)' /\ \A u \in Thread : PusherOK(u)'
  <2>1. /\ pc[t] = "p_acq" /\ pc' = [pc EXCEPT ![t] = "p_idx"]
        /\ slot' = [slot EXCEPT ![t]["n"] = qtail] /\ UNCHANGED <<qtail, next, mine, pops>>
    BY <1>5 DEF PushAcquire, R!Publish, nodes
  <2>2. g(t)' = qtail /\ \A u \in Thread \ {t} : g(u)' = g(u) /\ mine'[u] = mine[u]
    BY <2>1 DEF g, LInv, LType, R!RTypeOK
  <2> QED
    BY <1>3, <2>1, <2>2 DEF PushPC
<1>6. ASSUME PushIdx(t) PROVE TailOK(p)' /\ \A u \in Thread : PusherOK(u)'
  <2> PICK b : b = IF push_idx[g(t)] >= max_idx THEN "p_tail" ELSE "p_cas"
    OBVIOUS
  <2>1. /\ pc[t] = "p_idx" /\ pc' = [pc EXCEPT ![t] = b]
        /\ UNCHANGED <<qtail, next, slot, mine, pops>>
    BY <1>6 DEF PushIdx, guards
  <2>2. b \in {"p_tail", "p_cas"}
    OBVIOUS
  <2> QED
    BY <1>2, <2>1, <2>2 DEF PushPC
<1>7. ASSUME PushTail(t) PROVE TailOK(p)' /\ \A u \in Thread : PusherOK(u)'
  <2> PICK b : b = IF qtail = g(t) THEN "p_next" ELSE "p_acq"
    OBVIOUS
  <2>1. /\ pc[t] = "p_tail" /\ pc' = [pc EXCEPT ![t] = b]
        /\ UNCHANGED <<qtail, next, slot, mine, pops>>
    BY <1>7 DEF PushTail, nodes, guards
  <2>2. b \in {"p_next", "p_acq"}
    OBVIOUS
  <2> QED
    BY <1>2, <2>1, <2>2 DEF PushPC
<1>8. ASSUME PushMustHelp(t) \/ PushCasFails(t)
      PROVE  TailOK(p)' /\ \A u \in Thread : PusherOK(u)'
  BY <1>2, <1>8 DEF PushMustHelp, PushCasFails, PushPC, nodes, guards
<1>9. ASSUME PushHelp(t) PROVE TailOK(p)' /\ \A u \in Thread : PusherOK(u)'
  <2>1. /\ pc[t] = "p_help" /\ pc' = [pc EXCEPT ![t] = "p_acq"] /\ SwingTail(t, next[g(t)])
        /\ UNCHANGED <<next, slot, mine, pops>>
    BY <1>9 DEF PushHelp, guards
  <2>2. ~Closed /\ next[g(t)] # Null /\ g(t) # Null
    BY <2>1, Busy DEF LInv, GuardOK, Outside
  <2>3. next[g(t)] \in Node
    BY <1>1, <2>2 DEF LInv, LType
  <2>4. \A u \in Thread : g(u)' = g(u) /\ mine'[u] = mine[u]
    BY <2>1 DEF g
  <2> PICK m : m = next[g(t)]
    OBVIOUS
  <2> QED
    BY <1>0, <2>1, <2>2, <2>3, <2>4, TailMoves
<1>10. ASSUME NEW m \in Node, PushNew(t, m) PROVE TailOK(p)' /\ \A u \in Thread : PusherOK(u)'
  BY <1>10, TailNew
<1>11. ASSUME PushLink(t) PROVE TailOK(p)' /\ \A u \in Thread : PusherOK(u)'
  BY <1>11, TailLink
<1>12. ASSUME PushLinkFails(t) PROVE TailOK(p)' /\ \A u \in Thread : PusherOK(u)'
  <2>1. /\ pc[t] = "p_link" /\ pc' = [pc EXCEPT ![t] = "p_acq"]
        /\ mine' = [mine EXCEPT ![t] = Null] /\ UNCHANGED <<qtail, next, slot, pops>>
    BY <1>12 DEF PushLinkFails
  <2>2. \A u \in Thread \ {t} : g(u)' = g(u) /\ mine'[u] = mine[u]
    BY <2>1 DEF g, LInv, LType
  <2> QED
    BY <1>3, <2>1, <2>2 DEF PushPC
<1>13. ASSUME PushSwing(t) PROVE TailOK(p)' /\ \A u \in Thread : PusherOK(u)'
  <2>1. /\ pc[t] = "p_swing" /\ pc' = [pc EXCEPT ![t] = "idle"] /\ SwingTail(t, mine[t])
        /\ R!Release(t, {"n"}) /\ mine' = [mine EXCEPT ![t] = Null] /\ UNCHANGED <<next, pops>>
    BY <1>13 DEF PushSwing, Finish
  <2>2. ~Closed /\ mine[t] # Null /\ next[g(t)] = mine[t]
    BY <1>1, <2>1, Busy DEF LInv, GuardOK, PusherOK
  <2>3. mine[t] \in Node
    BY <2>2 DEF LInv, LType
  <2>4. \A u \in Thread \ {t} : g(u)' = g(u) /\ mine'[u] = mine[u]
    BY <2>1 DEF g, R!Release, LInv, LType, R!RTypeOK
  <2> PICK m : m = mine[t]
    OBVIOUS
  <2> QED
    BY <1>0, <2>1, <2>2, <2>3, <2>4, TailMoves
<1>14. ASSUME PushCas(t) PROVE TailOK(p)' /\ \A u \in Thread : PusherOK(u)'
  <2>1. /\ pc[t] = "p_cas" /\ pc' = [pc EXCEPT ![t] = "idle"] /\ R!Release(t, {"n"})
        /\ mine' = [mine EXCEPT ![t] = Null] /\ UNCHANGED <<qtail, next, pops>>
    BY <1>14 DEF PushCas, Finish
  <2>2. \A u \in Thread \ {t} : g(u)' = g(u) /\ mine'[u] = mine[u]
    BY <2>1 DEF g, R!Release, LInv, LType, R!RTypeOK
  <2> QED
    BY <1>3, <2>1, <2>2 DEF PushPC
<1> QED
  BY <1>4, <1>5, <1>6, <1>7, <1>8, <1>9, <1>10, <1>11, <1>12, <1>13, <1>14 DEF PushStep

LEMMA TailPop ==
  ASSUME NEW p, LateIs(p), LInv, TInv(p), NEW t \in Thread, PopStep(t)
  PROVE  TailOK(p)' /\ \A u \in Thread : PusherOK(u)'
<1> USE DEF Goto, Quiet
<1>1. ASSUME NEW a \in PC \ {"p_swing"}, NEW b \in PopPC \union {"idle"},
             ~Closed, pc[t] = a, pc' = [pc EXCEPT ![t] = b],
             UNCHANGED <<qtail, next>>, pops' = pops \/ pops' = pops + 1, Listed' = Listed,
             \A u \in Thread \ {t} : g(u)' = g(u) /\ mine'[u] = mine[u]
      PROVE  TailOK(p)' /\ \A u \in Thread : PusherOK(u)'
  <2>1. b \in PC \ PushPC /\ b # "p_swing"
    BY DEF PC, PushPC, PopPC
  <2>2. pops # 0 => pops' # 0
    BY <1>1 DEF TInv, RolesOK
  <2> QED
    BY <1>1, <2>1, <2>2, TailKept
<1>2. ASSUME PopCas(t) PROVE TailOK(p)' /\ \A u \in Thread : PusherOK(u)'
  BY <1>2, TailPopCas
<1>3. CASE ~PopCas(t)
  <2>0. Listed' = Listed
    BY <1>3, PopLNext
  <2>a. ASSUME NEW a \in PopPC, NEW b \in PopPC, pc[t] = a, pc' = [pc EXCEPT ![t] = b],
               UNCHANGED <<qtail, next, slot, mine, pops>>
        PROVE  TailOK(p)' /\ \A u \in Thread : PusherOK(u)'
    <3>1. ~Closed /\ a \in PC \ {"p_swing"}
      BY <2>a, Busy DEF PC, PopPC
    <3>2. \A u \in Thread : g(u)' = g(u) /\ mine'[u] = mine[u]
      BY <2>a DEF g
    <3> QED
      BY <1>1, <2>0, <2>a, <3>1, <3>2
  <2>b. ASSUME NEW a \in PopPC, Finish(t, a), UNCHANGED <<qtail, next>>
        PROVE  TailOK(p)' /\ \A u \in Thread : PusherOK(u)'
    <3>1. /\ pc[t] = a /\ pc' = [pc EXCEPT ![t] = "idle"] /\ R!Release(t, {"n"})
          /\ mine' = [mine EXCEPT ![t] = Null] /\ UNCHANGED pops
      BY <2>b DEF Finish
    <3>2. \A u \in Thread \ {t} : g(u)' = g(u) /\ mine'[u] = mine[u]
      BY <3>1 DEF g, R!Release, LInv, LType, R!RTypeOK
    <3>3. ~Closed /\ a \in PC \ {"p_swing"}
      BY <3>1, Busy DEF PC, PopPC
    <3> QED
      BY <1>1, <2>0, <2>b, <3>1, <3>2, <3>3
  <2>1. CASE TryPop(t)
    <3>1. /\ ~Closed /\ pc[t] = "idle" /\ pc' = [pc EXCEPT ![t] = "o_acq"] /\ pops' = pops + 1
          /\ UNCHANGED <<qtail, next, slot, mine>>
      BY <2>1 DEF TryPop, nodes, guards
    <3>2. \A u \in Thread : g(u)' = g(u) /\ mine'[u] = mine[u]
      BY <3>1 DEF g
    <3> QED
      BY <1>1, <2>0, <3>1, <3>2 DEF PC, PopPC
  <2>2. CASE PopAcquire(t)
    <3>1. /\ pc[t] = "o_acq" /\ pc' = [pc EXCEPT ![t] = "o_load"]
          /\ slot' = [slot EXCEPT ![t]["n"] = qhead] /\ UNCHANGED <<qtail, next, mine, pops>>
      BY <2>2 DEF PopAcquire, R!Publish, nodes
    <3>2. ~Closed /\ \A u \in Thread \ {t} : g(u)' = g(u) /\ mine'[u] = mine[u]
      BY <3>1, Busy DEF g, LInv, LType, R!RTypeOK
    <3> QED
      BY <1>1, <2>0, <3>1, <3>2 DEF PC, PopPC
  <2>3. CASE PopLoad(t)
    BY <2>a, <2>3 DEF PopLoad, PopPC, nodes, guards
  <2>4. CASE PopCheck(t)
    <3> PICK b : b = IF idx[t] >= push_idx[g(t)] THEN "o_empty" ELSE "o_idx"
      OBVIOUS
    <3>1. /\ pc[t] = "o_check" /\ pc' = [pc EXCEPT ![t] = b]
          /\ UNCHANGED <<qtail, next, slot, mine, pops>>
      BY <2>4 DEF PopCheck, nodes, guards
    <3>2. b \in {"o_empty", "o_idx"}
      OBVIOUS
    <3> QED
      BY <2>a, <3>1, <3>2 DEF PopPC
  <2>5. CASE PopNotEmpty(t) \/ PopNext(t) \/ PopCasFails(t) \/ PopGiveUp(t)
    BY <2>a, <2>5 DEF PopNotEmpty, PopNext, PopCasFails, PopGiveUp, PopPC, nodes, guards
  <2>6. CASE PopEmpty(t, "o_empty") \/ PopEmpty(t, "o_next") \/ PopReturn(t)
    BY <2>b, <2>6 DEF PopEmpty, PopReturn, PopPC, nodes
  <2>7. CASE PopIdx(t)
    <3> PICK b : b = IF pop_idx[g(t)] >= max_idx THEN "o_next" ELSE "o_read"
      OBVIOUS
    <3>1. /\ pc[t] = "o_idx" /\ pc' = [pc EXCEPT ![t] = b]
          /\ UNCHANGED <<qtail, next, slot, mine, pops>>
      BY <2>7 DEF PopIdx, guards
    <3>2. b \in {"o_next", "o_read"}
      OBVIOUS
    <3> QED
      BY <2>a, <3>1, <3>2 DEF PopPC
  <2>8. CASE PopRetire(t)
    <3>1. /\ pc[t] = "o_retire" /\ pc' = [pc EXCEPT ![t] = "o_acq"]
          /\ slot' = [slot EXCEPT ![t]["n"] = Null] /\ UNCHANGED <<qtail, next, mine, pops>>
      BY <2>8 DEF PopRetire, nodes
    <3>2. ~Closed /\ \A u \in Thread \ {t} : g(u)' = g(u) /\ mine'[u] = mine[u]
      BY <3>1, Busy DEF g, LInv, LType, R!RTypeOK
    <3> QED
      BY <1>1, <2>0, <3>1, <3>2 DEF PC, PopPC
  <2>9. CASE PopRead(t) \/ PopSpoilFinds(t) \/ PopSpoil(t)
    BY <2>a, <2>9 DEF PopRead, PopFound, PopSpoilFinds, PopSpoil, PopPC, nodes, guards
  <2> QED
    BY <1>3, <2>1, <2>2, <2>3, <2>4, <2>5, <2>6, <2>7, <2>8, <2>9 DEF PopStep
<1> QED
  BY <1>2, <1>3

LEMMA NextT ==
  ASSUME NEW p, LateIs(p), LInv, TInv(p), [Next]_vars
  PROVE  TInv(p)'
<1>1. ASSUME NEW t \in Thread, PushStep(t) \/ PopStep(t) PROVE TInv(p)'
  <2>1. RolesOK(p)'
    BY <1>1, RolesStep DEF TInv
  <2>2. TailOK(p)' /\ \A u \in Thread : PusherOK(u)'
    BY <1>1, TailPush, TailPop
  <2> QED
    BY <2>1, <2>2 DEF TInv
<1>2. ASSUME NEW t \in Thread, Destroy(t) PROVE TInv(p)'
  <2>1. /\ pc' = [pc EXCEPT ![t] = "destroy"] /\ UNCHANGED pops
        /\ \A u \in Thread : pc[u] = "idle"
    BY <1>2 DEF Destroy, Goto, Quiet
  <2>2. \A u \in Thread : pc'[u] \in {"idle", "destroy"}
    BY <2>1 DEF LInv, LType
  <2>3. Closed'
    BY <2>1 DEF Closed, LInv, LType
  <2>4. RolesOK(p)'
    BY <2>1, <2>2 DEF TInv, RolesOK, PushPC, PopPC
  <2>5. \A u \in Thread : PusherOK(u)'
    BY <2>2 DEF PusherOK, PushPC
  <2> QED
    BY <2>3, <2>4, <2>5 DEF TInv
<1>3. ASSUME NEW t \in Thread, DestroyNode(t) PROVE TInv(p)'
  <2>1. pc[t] = "destroy" /\ UNCHANGED <<pc, pops>>
    BY <1>3 DEF DestroyNode, DeleteNode
  <2>2. Closed /\ Closed'
    BY <2>1 DEF Closed
  <2>3. \A u \in Thread : pc'[u] \in {"idle", "destroy"}
    BY <2>1, <2>2 DEF LInv
  <2>4. RolesOK(p)'
    BY <2>1 DEF TInv, RolesOK
  <2>5. \A u \in Thread : PusherOK(u)'
    BY <2>3 DEF PusherOK, PushPC
  <2> QED
    BY <2>2, <2>4, <2>5 DEF TInv
<1>4. ASSUME UNCHANGED <<qtail, next, slot, mine, pc, pops>>, Listed' = Listed PROVE TInv(p)'
  <2>1. RolesOK(p)' /\ (Closed' <=> Closed)
    BY <1>4 DEF TInv, RolesOK, Closed
  <2>2. \A u \in Thread : PusherOK(u)'
    BY <1>4 DEF TInv, PusherOK, g
  <2>3. TailOK(p) => TailOK(p)'
    BY <1>4 DEF TailOK, g
  <2> QED
    BY <2>1, <2>2, <2>3 DEF TInv
<1>5. ASSUME NEW m \in Node, ReclaimNode(m) PROVE TInv(p)'
  <2>1. UNCHANGED <<qtail, next, slot, mine, pc, pops>>
    BY <1>5 DEF ReclaimNode, DeleteNode
  <2> QED
    BY <1>4, <1>5, <2>1, ReclaimStep
<1>6. CASE UNCHANGED vars
  <2>1. UNCHANGED <<qtail, next, slot, mine, pc, pops, status>>
    BY <1>6 DEF vars, nodes, guards
  <2>2. Listed' = Listed
    BY <2>1 DEF Listed, Fresh, Taken, g
  <2> QED
    BY <1>4, <2>1, <2>2
<1> QED
  BY <1>1, <1>2, <1>3, <1>5, <1>6 DEF Next

\* With one thread that pushes beside try_pop -- the others are done before the
\* first try_pop -- the hypothesis holds: no thread touches a deleted node.
THEOREM MemorySafety ==
  ASSUME NEW p, LateIs(p)
  PROVE  Spec => []MemorySafe
<1>1. Init => LInv /\ TInv(p)
  BY InitLInv, InitTInv
<1>2. LInv /\ TInv(p) /\ [Next]_vars => (LInv /\ TInv(p))'
  BY TailListedHolds, NextL, NextT
<1>3. LInv => MemorySafe
  BY LInvSafe
<1> QED
  BY <1>1, <1>2, <1>3, PTL DEF Spec

-----------------------------------------------------------------------------
(* The list is what _head leads to                                         *)

\* From _head every node of the list is reached: no set of nodes that has _head
\* and, with a node, its successor leaves one out.
Reaches == \A S \in SUBSET Node :
    qhead \in S \union {Null} /\ (\A m \in S : next[m] \in S \union {Null}) => Listed \subseteq S

\* The list from its first node to its last, also while ~ramalhete_queue runs
ChainOK == /\ qhead \in Listed \union {Null}
           /\ qhead = Null => Closed
           /\ \A m \in Listed : next[m] = Null \/ (next[m] \in Listed /\ next[m] # qhead)
           /\ \A m, n \in Listed : next[m] = next[n] /\ next[m] # Null => m = n
           /\ Reaches

LEMMA LeastNumber ==
  ASSUME NEW S \in SUBSET Nat, S # {}
  PROVE  \E m \in S : \A n \in S : m <= n
<1>1. PICK m \in S : \A n \in S : ~(<<n, m>> \in OpToRel(<, Nat))
  BY WFMin, NatLessThanWellFounded
<1>2. \A n \in S : ~(n < m)
  BY <1>1 DEF OpToRel
<1> QED
  BY <1>2

\* f follows the links nx from h, n times.
Walks(f, h, nx, n) == /\ f = [i \in 0..n |-> f[i]] /\ f[0] = h
                      /\ \A i \in 1..n : f[i] = IF f[i - 1] = Null THEN Null ELSE nx[f[i - 1]]

LEMMA WalksExists ==
  ASSUME NEW h, NEW nx
  PROVE  \A n \in Nat : \E f : Walks(f, h, nx, n)
<1> DEFINE Bad == {n \in Nat : ~ \E f : Walks(f, h, nx, n)}
           Step(x) == IF x = Null THEN Null ELSE nx[x]
<1> SUFFICES ASSUME Bad # {} PROVE FALSE
  OBVIOUS
<1>1. PICK m \in Bad : \A n \in Bad : m <= n
  BY LeastNumber
<1>2. CASE m = 0
  <2>1. Walks([i \in 0..0 |-> h], h, nx, 0)
    BY DEF Walks
  <2> QED
    BY <1>1, <1>2, <2>1
<1>3. CASE m # 0
  <2>1. m - 1 \in Nat /\ m - 1 \notin Bad
    BY <1>1, <1>3
  <2>2. PICK f : Walks(f, h, nx, m - 1)
    BY <2>1
  <2> DEFINE e == [i \in 0..m |-> IF i = m THEN Step(f[m - 1]) ELSE f[i]]
  <2>3. e = [i \in 0..m |-> e[i]] /\ e[0] = h
    BY <2>1, <2>2, <1>3 DEF Walks
  <2>4. ASSUME NEW i \in 1..m PROVE e[i] = Step(e[i - 1])
    <3>1. CASE i = m
      <4>1. e[i] = Step(f[m - 1]) /\ e[i - 1] = f[m - 1]
        BY <2>1, <3>1
      <4> QED
        BY <4>1
    <3>2. CASE i # m
      <4>1. i \in 1..(m - 1) /\ e[i] = f[i] /\ e[i - 1] = f[i - 1]
        BY <2>1, <3>2
      <4> QED
        BY <4>1, <2>2 DEF Walks
    <3> QED
      BY <3>1, <3>2
  <2> HIDE DEF e
  <2>5. Walks(e, h, nx, m)
    BY <2>3, <2>4 DEF Walks
  <2> QED
    BY <1>1, <2>5
<1> QED
  BY <1>2, <1>3

\* Chain, by the walk it is made of
LEMMA ChainWalk ==
  \E f : /\ Walks(f, qhead, next, Cardinality(Node))
         /\ Chain = {f[i] : i \in 0..Cardinality(Node)} \ {Null}
<1> DEFINE N == Cardinality(Node)
           Step(f) == [i \in 0..N |-> IF i = 0 THEN qhead ELSE IF f[i - 1] = Null THEN Null ELSE next[f[i - 1]]]
           at == CHOOSE f : f = Step(f)
<1>1. Chain = {at[i] : i \in DOMAIN at} \ {Null}
  BY DEF Chain
<1>2. N \in Nat
  BY FS_CardinalityType, NodeAssumption
<1> HIDE DEF N
<1>3. \E f : f = Step(f)
  <2>1. PICK w : Walks(w, qhead, next, N)
    BY <1>2, WalksExists
  <2> DEFINE f == [i \in 0..N |-> w[i]]
  <2>2. f[0] = qhead
    BY <2>1, <1>2 DEF Walks
  <2>3. ASSUME NEW i \in 0..N, i # 0
        PROVE  f[i] = IF f[i - 1] = Null THEN Null ELSE next[f[i - 1]]
    <3>1. i \in 1..N /\ i - 1 \in 0..N
      BY <1>2, <2>3
    <3>2. w[i] = IF w[i - 1] = Null THEN Null ELSE next[w[i - 1]]
      BY <2>1, <3>1 DEF Walks
    <3>3. f[i] = w[i] /\ f[i - 1] = w[i - 1]
      BY <3>1
    <3> QED
      BY <3>2, <3>3
  <2>4. f = [i \in 0..N |-> f[i]]
    OBVIOUS
  <2> HIDE DEF f
  <2>5. f = Step(f)
    BY <2>2, <2>3, <2>4
  <2> QED
    BY <2>5
<1>4. at = Step(at)
  BY <1>3
<1> HIDE DEF at
<1>5. DOMAIN at = 0..N
  BY <1>4
<1>6. Walks(at, qhead, next, N)
  BY <1>4, <1>2 DEF Walks
<1>7. Chain = {at[i] : i \in 0..N} \ {Null}
  BY <1>1, <1>5
<1> QED
  BY <1>6, <1>7 DEF N

\* Following the links finds exactly the nodes of the list: they are all
\* different, and there are no more of them than nodes.
LEMMA ChainIsListed ==
  ASSUME ChainOK
  PROVE  Chain = Listed
<1> DEFINE N == Cardinality(Node)
<1>0. N \in Nat
  BY FS_CardinalityType, NodeAssumption
<1>1. PICK f : Walks(f, qhead, next, N) /\ Chain = {f[i] : i \in 0..N} \ {Null}
  BY ChainWalk
<1> HIDE DEF N
<1>2. f[0] = qhead /\ \A i \in 1..N : f[i] = IF f[i - 1] = Null THEN Null ELSE next[f[i - 1]]
  BY <1>1 DEF Walks
<1>n. Listed \subseteq Node /\ Null \notin Listed
  BY NodeAssumption DEF Listed
<1>3. \A i \in 0..N : f[i] \in Listed \union {Null}
  <2> DEFINE Bad == {i \in 0..N : f[i] \notin Listed \union {Null}}
  <2> SUFFICES ASSUME Bad # {} PROVE FALSE
    OBVIOUS
  <2>0. Bad \in SUBSET Nat
    BY <1>0
  <2>1. PICK m \in Bad : \A i \in Bad : m <= i
    BY <2>0, LeastNumber
  <2>2. m # 0
    BY <1>2, <2>1 DEF ChainOK
  <2>3. m - 1 \in 0..N /\ m - 1 \notin Bad /\ m \in 1..N
    BY <1>0, <2>1, <2>2
  <2>4. f[m] = IF f[m - 1] = Null THEN Null ELSE next[f[m - 1]]
    BY <1>2, <2>3
  <2>5. f[m - 1] \in Listed \union {Null}
    BY <2>3
  <2>6. f[m] \in Listed \union {Null}
    BY <2>4, <2>5 DEF ChainOK
  <2> QED
    BY <2>1, <2>6
<1>4. ASSUME NEW i \in 0..N, NEW j \in 0..N, i < j, f[j] # Null
      PROVE  f[i] # f[j]
  <2> DEFINE Bad == {k \in 0..N : \E l \in 0..N : k < l /\ f[l] # Null /\ f[k] = f[l]}
  <2> SUFFICES ASSUME Bad # {} PROVE FALSE
    BY <1>4
  <2>0. Bad \in SUBSET Nat
    BY <1>0
  <2>1. PICK k \in Bad : \A x \in Bad : k <= x
    BY <2>0, LeastNumber
  <2>2. PICK l \in 0..N : k < l /\ f[l] # Null /\ f[k] = f[l]
    BY <2>1
  <2>3. l \in 1..N /\ l - 1 \in 0..N /\ k \in 0..N
    BY <1>0, <2>1, <2>2
  <2>4. f[l - 1] # Null /\ f[l] = next[f[l - 1]] /\ f[l - 1] \in Listed
    BY <1>2, <1>3, <2>2, <2>3
  <2>5. k # 0
    BY <1>2, <2>2, <2>4 DEF ChainOK
  <2>6. k \in 1..N /\ k - 1 \in 0..N /\ k - 1 < l - 1 /\ ~(k <= k - 1)
    BY <1>0, <2>2, <2>3, <2>5
  <2>7. f[k - 1] # Null /\ f[k] = next[f[k - 1]] /\ f[k - 1] \in Listed
    BY <1>2, <1>3, <2>2, <2>6
  <2>8. f[k - 1] = f[l - 1]
    BY <2>2, <2>4, <2>7 DEF ChainOK
  <2>9. k - 1 \in Bad
    BY <2>3, <2>4, <2>6, <2>8
  <2> QED
    BY <2>1, <2>6, <2>9
<1>5. f[N] = Null
  <2> SUFFICES ASSUME f[N] # Null PROVE FALSE
    OBVIOUS
  <2>1. \A i \in 0..N : f[i] # Null
    <3> DEFINE Bad == {k \in Nat : k <= N /\ f[N - k] = Null}
    <3> SUFFICES ASSUME Bad # {} PROVE FALSE
      <4>1. \A i \in 0..N : N - i \in Nat /\ N - i <= N /\ N - (N - i) = i
        BY <1>0
      <4> QED
        BY <4>1
    <3>1. PICK k \in Bad : \A x \in Bad : k <= x
      BY LeastNumber
    <3>2. k # 0
      BY <1>0, <3>1
    <3> PICK i : i = N - k
      OBVIOUS
    <3>3. k - 1 \in Nat /\ k - 1 <= N /\ k - 1 \notin Bad /\ N - (k - 1) = i + 1
      BY <1>0, <3>1, <3>2
    <3>4. f[i + 1] # Null
      BY <3>3
    <3>5. i + 1 \in 1..N /\ (i + 1) - 1 = i /\ f[i] = Null
      BY <1>0, <3>1, <3>2
    <3>6. f[i + 1] = Null
      BY <1>2, <3>5
    <3> QED
      BY <3>4, <3>6
  <2>2. f \in [0..N -> Node]
    <3>1. \A i \in 0..N : f[i] \in Node
      BY <1>3, <1>n, <2>1
    <3>2. f = [i \in 0..N |-> f[i]]
      BY <1>1 DEF Walks
    <3> QED
      BY <3>1, <3>2
  <2>3. IsFiniteSet(0..N) /\ Cardinality(0..N) = N + 1
    BY <1>0, FS_Interval
  <2>4. PICK x \in 0..N, y \in 0..N : x # y /\ f[x] = f[y]
    BY <1>0, <2>2, <2>3, FS_PigeonHole, NodeAssumption DEF N
  <2>5. x < y \/ y < x
    BY <2>4, <1>0
  <2> QED
    BY <1>4, <2>1, <2>4, <2>5
<1>6. Chain \subseteq Listed
  BY <1>1, <1>3
<1>7. qhead \in Chain \union {Null}
  <2>1. 0 \in 0..N
    BY <1>0
  <2> QED
    BY <1>1, <1>2, <2>1
<1>8. ASSUME NEW m \in Chain PROVE next[m] \in Chain \union {Null}
  <2>1. PICK i \in 0..N : m = f[i] /\ m # Null
    BY <1>1
  <2>2. i + 1 \in 1..N /\ i + 1 \in 0..N /\ i + 1 - 1 = i
    BY <1>0, <1>5, <2>1
  <2>3. f[i + 1] = next[m]
    BY <1>2, <2>1, <2>2
  <2> QED
    BY <1>1, <2>2, <2>3
<1>9. Listed \subseteq Chain
  BY <1>6, <1>7, <1>8, <1>n DEF ChainOK, Reaches
<1> QED
  BY <1>6, <1>9

\* No operation runs when ~ramalhete_queue does.
LEMMA OpenStep ==
  ASSUME LInv, NEW t \in Thread, PushStep(t) \/ PopStep(t)
  PROVE  ~Closed
<1> USE DEF Goto, Finish, PopFound
<1>1. ~Closed \/ pc[t] \notin {"idle", "destroy"}
  <2>1. CASE PushStep(t)
    BY <2>1 DEF PushStep, Push, PushAcquire, PushIdx, PushTail, PushMustHelp, PushHelp, PushNew, PushLink,
       PushLinkFails, PushSwing, PushCas, PushCasFails
  <2>2. CASE PopStep(t)
    BY <2>2 DEF PopStep, TryPop, PopAcquire, PopLoad, PopCheck, PopNotEmpty, PopEmpty, PopIdx, PopNext,
       PopCas, PopCasFails, PopRetire, PopRead, PopGiveUp, PopSpoilFinds, PopSpoil, PopReturn
  <2> QED
    BY <2>1, <2>2
<1> QED
  BY <1>1, Busy

\* What the steps other than PushLink and PopCas leave alone
LEMMA LinksKept ==
  ASSUME LInv, NEW t \in Thread, PushStep(t) \/ PopStep(t), ~PushLink(t), ~PopCas(t)
  PROVE  qhead' = qhead /\ \A m \in Listed : next'[m] = next[m]
<1> USE DEF Quiet, nodes
<1>1. ASSUME NEW n \in Node, PushNew(t, n)
      PROVE  qhead' = qhead /\ \A m \in Listed : next'[m] = next[m]
  <2>1. qhead' = qhead /\ next' = [next EXCEPT ![n] = Null] /\ status[n] = "free"
    BY <1>1 DEF PushNew, R!Allocate
  <2>2. n \notin Listed /\ Listed \subseteq Node
    BY <2>1 DEF Listed
  <2> QED
    BY <2>1, <2>2 DEF LInv, LType
<1>2. CASE PushStep(t) /\ ~(\E n \in Node : PushNew(t, n))
  BY <1>2 DEF PushStep, Push, PushAcquire, PushIdx, PushTail, PushMustHelp, PushHelp,
     PushLinkFails, PushSwing, PushCas, PushCasFails
<1>3. CASE PopStep(t)
  BY <1>3 DEF PopStep, TryPop, PopAcquire, PopLoad, PopCheck, PopNotEmpty, PopEmpty, PopIdx, PopNext,
     PopCasFails, PopRetire, PopRead, PopGiveUp, PopSpoilFinds, PopSpoil, PopReturn
<1> QED
  BY <1>1, <1>2, <1>3

LEMMA ReachKept ==
  ASSUME ChainOK, Listed' = Listed, qhead' = qhead, \A m \in Listed : next'[m] = next[m],
         Closed => Closed'
  PROVE  ChainOK'
<1>1. /\ qhead' \in Listed' \union {Null} /\ qhead' = Null => Closed'
      /\ \A m \in Listed' : next'[m] = Null \/ (next'[m] \in Listed' /\ next'[m] # qhead')
      /\ \A m, n \in Listed' : next'[m] = next'[n] /\ next'[m] # Null => m = n
  BY DEF ChainOK
<1>2. ASSUME NEW S \in SUBSET Node, qhead' \in S \union {Null}, \A m \in S : next'[m] \in S \union {Null}
      PROVE  Listed' \subseteq S
  <2> DEFINE Q == S \intersect Listed
  <2>1. qhead \in Q \union {Null} /\ \A m \in Q : next[m] \in Q \union {Null}
    BY <1>2 DEF ChainOK
  <2>2. Q \in SUBSET Node
    OBVIOUS
  <2>3. Listed \subseteq Q
    BY <2>1, <2>2 DEF ChainOK, Reaches
  <2> QED
    BY <2>3
<1>3. Reaches'
  BY <1>2 DEF Reaches
<1> QED
  BY <1>1, <1>3 DEF ChainOK

LEMMA ListChain ==
  ASSUME LInv, ~Closed, Reaches
  PROVE  ChainOK
<1>1. qhead \in Listed /\ qhead # Null
  BY NodeAssumption DEF LInv, ListOK, Listed
<1> QED
  BY <1>1 DEF LInv, ListOK, ChainOK

LEMMA ChainLink ==
  ASSUME LInv, ChainOK, NEW t \in Thread, PushLink(t)
  PROVE  Reaches'
<1> PICK a : a = g(t)
  OBVIOUS
<1> PICK m : m = mine[t]
  OBVIOUS
<1>1. pc[t] = "p_link" /\ next[a] = Null /\ next' = [next EXCEPT ![a] = m] /\ qhead' = qhead
  BY DEF PushLink, Goto
<1>2. a \in Node /\ status[a] # "free" /\ ~Fresh(a)
  <2>1. a # Null
    BY <1>1 DEF LInv, GuardOK, Outside
  <2> QED
    BY <2>1, GuardType DEF LInv, Fresh, FreshOK
<1>3. a \in Listed
  <2>1. status[a] # "retired" /\ ~Taken(a)
    BY <1>1, <1>2 DEF LInv, UnlinkedOK
  <2> QED
    BY <1>2, <2>1 DEF Listed, LInv, LType, R!RTypeOK
<1>4. Listed' = Listed \union {m} /\ Null \notin Node
  BY LinkStep, NodeAssumption
<1>5. m \in Node
  BY <1>1 DEF LInv, FreshOK
<1> SUFFICES ASSUME NEW S \in SUBSET Node, qhead' \in S \union {Null},
                    \A n \in S : next'[n] \in S \union {Null}
             PROVE  Listed' \subseteq S
  BY DEF Reaches
<1>6. \A n \in S : next[n] \in S \union {Null}
  BY <1>1 DEF LInv, LType
<1>7. Listed \subseteq S
  BY <1>1, <1>6 DEF ChainOK, Reaches
<1>8. m \in S
  BY <1>1, <1>2, <1>3, <1>4, <1>5, <1>7 DEF LInv, LType
<1> QED
  BY <1>4, <1>7, <1>8

\* _head moves on to the second node: every set that has it has the rest.
LEMMA ChainLeave ==
  ASSUME ChainOK, qhead # Null, qhead' = next[qhead], UNCHANGED next, Listed' = Listed \ {qhead}
  PROVE  Reaches'
<1> PICK a : a = qhead
  OBVIOUS
<1> SUFFICES ASSUME NEW S \in SUBSET Node, qhead' \in S \union {Null},
                    \A n \in S : next'[n] \in S \union {Null}
             PROVE  Listed' \subseteq S
  BY DEF Reaches
<1>1. a \in Listed /\ a \in Node
  BY DEF ChainOK, Listed
<1>2. S \union {a} \in SUBSET Node
  BY <1>1
<1>3. \A n \in S \union {a} : next[n] \in (S \union {a}) \union {Null}
  OBVIOUS
<1>4. Listed \subseteq S \union {a}
  BY <1>2, <1>3 DEF ChainOK, Reaches
<1> QED
  BY <1>4

LEMMA NextC == LInv /\ TailListed /\ ChainOK /\ [Next]_vars => ChainOK'
<1> SUFFICES ASSUME LInv, TailListed, ChainOK, [Next]_vars PROVE ChainOK'
  OBVIOUS
<1>0. LInv'
  BY NextL
<1>1. ASSUME NEW t \in Thread, PushStep(t) \/ PopStep(t) PROVE ChainOK'
  <2>1. ~Closed
    BY <1>1, OpenStep
  <2>2. CASE PushLink(t)
    <3>1. ~Closed'
      <4>1. pc' = [pc EXCEPT ![t] = "p_swing"]
        BY <2>2 DEF PushLink, Goto
      <4> QED
        BY <2>1, <4>1 DEF Closed, LInv, LType
    <3>2. Reaches'
      BY <2>2, ChainLink
    <3>3. qhead' \in Listed' /\ qhead' # Null
      BY <1>0, <3>1, NodeAssumption DEF LInv, ListOK, Listed
    <3> QED
      BY <1>0, <3>1, <3>2, <3>3 DEF LInv, ListOK, ChainOK
  <2>3. CASE PopCas(t)
    <3>1. pc' = [pc EXCEPT ![t] = "o_retire"] /\ qhead = g(t) /\ qhead' = next[qhead] /\ UNCHANGED next
      BY <2>3 DEF PopCas, Goto
    <3>2. ~Closed'
      BY <2>1, <3>1 DEF Closed, LInv, LType
    <3>3. Listed' = Listed \ {qhead}
      BY <2>3, <3>1, PopCasStep
    <3>4. Reaches'
      BY <2>1, <3>1, <3>3, ChainLeave DEF ChainOK
    <3>5. qhead' \in Listed' /\ qhead' # Null
      BY <1>0, <3>2, NodeAssumption DEF LInv, ListOK, Listed
    <3> QED
      BY <1>0, <3>2, <3>4, <3>5 DEF LInv, ListOK, ChainOK
  <2>4. CASE ~PushLink(t) /\ ~PopCas(t)
    <3>1. Listed' = Listed
      BY <1>1, <2>4, PushLNext, PopLNext DEF ListGrows
    <3> QED
      BY <1>1, <2>1, <2>4, <3>1, LinksKept, ReachKept
  <2> QED
    BY <2>2, <2>3, <2>4
<1>2. ASSUME NEW t \in Thread, Destroy(t) PROVE ChainOK'
  <2>1. ~Closed /\ qhead' = qhead /\ UNCHANGED next
    BY <1>2 DEF Destroy, nodes, Closed
  <2> QED
    BY <1>2, <2>1, DestroyStep, ReachKept
<1>3. ASSUME NEW t \in Thread, DestroyNode(t) PROVE ChainOK'
  <2>1. pc[t] = "destroy" /\ qhead # Null /\ qhead' = next[qhead] /\ UNCHANGED <<next, pc>>
    BY <1>3 DEF DestroyNode, DeleteNode
  <2>2. Listed' = Listed \ {qhead} /\ Closed'
    BY <1>3, <2>1, DestroyNodeStep DEF Closed
  <2>3. Reaches'
    BY <2>1, <2>2, ChainLeave
  <2>4. qhead \in Listed
    BY <2>1 DEF ChainOK
  <2>5. qhead' \in Listed' \union {Null}
    BY <2>1, <2>2, <2>4 DEF ChainOK
  <2>6. ASSUME NEW m \in Listed'
        PROVE  next'[m] = Null \/ (next'[m] \in Listed' /\ next'[m] # qhead')
    BY <2>1, <2>2, <2>4, <2>6 DEF ChainOK
  <2>7. \A m, n \in Listed' : next'[m] = next'[n] /\ next'[m] # Null => m = n
    BY <2>1, <2>2 DEF ChainOK
  <2> QED
    BY <2>2, <2>3, <2>5, <2>6, <2>7 DEF ChainOK
<1>4. ASSUME NEW m \in Node, ReclaimNode(m) PROVE ChainOK'
  <2>1. UNCHANGED <<qhead, next, pc>>
    BY <1>4 DEF ReclaimNode, DeleteNode
  <2>2. Closed => Closed'
    BY <2>1 DEF Closed
  <2> QED
    BY <1>4, <2>1, <2>2, ReclaimStep, ReachKept
<1>5. CASE UNCHANGED vars
  <2>1. UNCHANGED <<qhead, next, pc, status, slot, mine>>
    BY <1>5 DEF vars, nodes, guards
  <2>2. Listed' = Listed /\ (Closed => Closed')
    BY <2>1 DEF Listed, Fresh, Taken, Closed, g
  <2> QED
    BY <2>1, <2>2, ReachKept
<1> QED
  BY <1>1, <1>2, <1>3, <1>4, <1>5 DEF Next

LEMMA InitC == Init => ChainOK
<1> SUFFICES ASSUME Init PROVE ChainOK
  OBVIOUS
<1>1. LInv
  BY InitLInv
<1>2. ~Closed
  BY DEF Init, Closed
<1>3. Listed = {qhead}
  BY <1>1, <1>2 DEF Init, Listed, LInv, ListOK
<1>4. qhead # Null
  BY <1>3, NodeAssumption DEF Listed
<1>5. Reaches
  BY <1>3, <1>4 DEF Reaches
<1> QED
  BY <1>1, <1>2, <1>5, ListChain

-----------------------------------------------------------------------------
(* The entries and their indexes                                           *)

\* What the code does not check: step_size is a prime number, and unless it
\* divides entries_per_node every entry has one index of its own.
Coprime == EntriesPerNode % step_size # 0

Multiple(k) == k \in Nat /\ k % step_size = 0
Index == {k \in 0..(max_idx - 1) : Multiple(k)}

LEMMA ModUnique ==
  ASSUME NEW n \in Nat \ {0}, NEW q \in Nat, NEW r \in 0..(n - 1)
  PROVE  (n * q + r) % n = r
OBVIOUS

LEMMA DivMod ==
  ASSUME NEW a \in Nat, NEW n \in Nat \ {0}
  PROVE  a = n * (a \div n) + (a % n) /\ a % n \in 0..(n - 1) /\ a \div n \in Nat
OBVIOUS

LEMMA NextMultiple ==
  ASSUME NEW k \in Nat, NEW j \in Nat, k % 11 = 0, j % 11 = 0, j >= k, j # k
  PROVE  j >= k + 11
<1>1. /\ k = 11 * (k \div 11) + (k % 11) /\ k \div 11 \in Nat
      /\ j = 11 * (j \div 11) + (j % 11) /\ j \div 11 \in Nat
  OBVIOUS
<1>2. PICK a \in Nat, b \in Nat : k = 11 * a /\ j = 11 * b
  BY <1>1
<1> QED
  BY <1>2

LEMMA MultipleDifference ==
  ASSUME NEW k \in Nat, NEW j \in Nat, k % 11 = 0, j % 11 = 0, j >= k
  PROVE  (j - k) % 11 = 0
<1>1. /\ k = 11 * (k \div 11) + (k % 11) /\ k \div 11 \in Nat
      /\ j = 11 * (j \div 11) + (j % 11) /\ j \div 11 \in Nat
  OBVIOUS
<1>2. PICK a \in Nat, b \in Nat : k = 11 * a /\ j = 11 * b
  BY <1>1
<1> QED
  BY <1>2

\* n is a unit modulo 11.
LEMMA ModEleven ==
  ASSUME NEW n \in Nat, n % 11 # 0, NEW i \in Nat
  PROVE  /\ \E q \in 0..10 : (n * q + i) % 11 = 0
         /\ \A a, b \in 0..10 : (n * a + i) % 11 = 0 /\ (n * b + i) % 11 = 0 => a = b
<1> DEFINE c == n \div 11
           r == n % 11
           d == i \div 11
           s == i % 11
<1>1. n = 11 * c + r /\ r \in 1..10 /\ c \in Nat /\ i = 11 * d + s /\ s \in 0..10 /\ d \in Nat
  OBVIOUS
<1> HIDE DEF c, r, d, s
<1>2. \E q \in 0..10 : (r * q + s) % 11 = 0
  BY <1>1
<1>3. \A a, b \in 0..10 : (r * a + s) % 11 = 0 /\ (r * b + s) % 11 = 0 => a = b
  BY <1>1
<1>4. ASSUME NEW q \in 0..10 PROVE (n * q + i) % 11 = 0 <=> (r * q + s) % 11 = 0
  BY <1>1
<1> QED
  BY <1>2, <1>3, <1>4

LEMMA IndexOfPlace ==
  ASSUME Coprime, NEW m
  PROVE  /\ \A i \in Place : AtIndex(m, i) \in Index /\ place(AtIndex(m, i)) = i
         /\ \A k \in Index : place(k) \in Place /\ AtIndex(m, place(k)) = k
<1> DEFINE N == EntriesPerNode
<1>0. N \in Nat \ {0} /\ N % 11 # 0 /\ max_idx = 11 * N
  BY EntriesAssumption DEF Coprime, step_size, max_idx
<1>1. \A i \in Place : i \in 0..(N - 1) /\ i \in Nat
  BY <1>0 DEF Place
<1>i. \A k : k \in Index <=> k \in 0..(11 * N - 1) /\ k % 11 = 0
  BY <1>0 DEF Index, Multiple, step_size
<1>2. ASSUME NEW i \in Place PROVE \E k \in Index : place(k) = i
  <2>1. PICK q \in 0..10 : (N * q + i) % 11 = 0
    BY <1>0, <1>1, ModEleven
  <2>2. N * q <= N * 10 /\ N * q \in Nat
    BY <1>0
  <2>3. N * q + i \in 0..(11 * N - 1)
    BY <1>0, <1>1, <2>2
  <2>4. (N * q + i) % N = i
    BY <1>0, <1>1, ModUnique
  <2> QED
    BY <1>i, <2>1, <2>3, <2>4 DEF place
<1>3. ASSUME NEW k \in Index
      PROVE  place(k) \in Place /\ \E a \in 0..10 : k = N * a + place(k)
  <2>1. k \in Nat /\ k < 11 * N
    BY <1>0, <1>i
  <2>2. k = N * (k \div N) + (k % N) /\ k % N \in 0..(N - 1) /\ k \div N \in Nat
    BY <1>0, <2>1, DivMod
  <2> PICK a : a = k \div N
    OBVIOUS
  <2>3. a <= 10
    <3>1. a \in Nat /\ N * a < 11 * N
      BY <1>0, <2>1, <2>2
    <3> HIDE DEF N
    <3>2. a >= 11 => N * a >= 11 * N
      BY <1>0, <3>1
    <3> QED
      BY <1>0, <3>1, <3>2
  <2> QED
    BY <2>2, <2>3 DEF place, Place
<1>4. ASSUME NEW k \in Index, NEW l \in Index, place(k) = place(l) PROVE k = l
  <2>1. PICK a \in 0..10 : k = N * a + place(k)
    BY <1>3
  <2>2. PICK b \in 0..10 : l = N * b + place(k)
    BY <1>3, <1>4
  <2>3. place(k) \in Nat
    BY <1>1, <1>3
  <2> PICK i : i = place(k)
    OBVIOUS
  <2>4. (N * a + i) % 11 = 0 /\ (N * b + i) % 11 = 0
    BY <1>i, <2>1, <2>2
  <2>5. a = b
    BY <1>0, <2>3, <2>4, ModEleven
  <2> QED
    BY <2>1, <2>2, <2>5
<1>5. ASSUME NEW i \in Place PROVE AtIndex(m, i) \in Index /\ place(AtIndex(m, i)) = i
  <2>1. \A k : k \in Index <=> k \in 0..(max_idx - 1) /\ k % step_size = 0
    BY <1>0, <1>i DEF step_size
  <2>2. \E k \in 0..(max_idx - 1) : k % step_size = 0 /\ place(k) = i
    BY <1>2, <2>1
  <2> QED
    BY <2>1, <2>2 DEF AtIndex
<1> QED
  BY <1>3, <1>4, <1>5

-----------------------------------------------------------------------------
(* No value is lost: the invariant                                         *)

Ahead(m, i) == AtIndex(m, i) >= pop_idx[m]
Held(m, i) == \E t \in Thread : TakenBy(t, m, i)

VType == /\ entries \in [Node -> [Place -> Value \union {NoValue, Spoiled}]]
         /\ push_idx \in [Node -> Nat] /\ pop_idx \in [Node -> Nat]
         /\ idx \in [Thread -> Nat] /\ val \in [Thread -> Value \union {NoValue}]
         /\ deleted \in [Value -> Nat]
         /\ pushed \in SUBSET Value

\* An entry that has nothing yet is still to be read: a try_pop has its index
\* or will be given it.  An entry with a value has had its index given to a push,
\* and the try_pop that has spoiled an entry was the last to have its index.
\* The indexes of a node that has left the list are used up.
NodeOK(m) ==
    /\ Multiple(push_idx[m]) /\ Multiple(pop_idx[m])
    /\ \A i \in Place : /\ entries[m][i] = NoValue => Ahead(m, i) \/ Held(m, i)
                        /\ entries[m][i] \in Value => AtIndex(m, i) < push_idx[m]
                        /\ entries[m][i] = Spoiled => ~Ahead(m, i) /\ ~Held(m, i)
    /\ status[m] = "free" => \A i \in Place : entries[m][i] = NoValue
    /\ status[m] # "free" /\ m \notin Listed /\ ~Fresh(m) => pop_idx[m] >= max_idx

\* The index a thread works with is one of its node that has been given out.
IdxOK(t) ==
    /\ pc[t] = "p_cas" => idx[t] \in Index /\ idx[t] < push_idx[g(t)]
    /\ pc[t] \in {"o_read", "o_spoil"} => idx[t] \in Index /\ idx[t] < pop_idx[g(t)]
    /\ pc[t] \in {"o_next", "o_cas"} => pop_idx[g(t)] >= max_idx
    /\ pc[t] = "p_link" => /\ pop_idx[mine[t]] = 0 /\ push_idx[mine[t]] = step_size
                           /\ entries[mine[t]] = [i \in Place |-> IF i = 0 THEN val[t] ELSE NoValue]
    /\ val[t] # NoValue <=> pc[t] \in PushPC \union {"o_ret"}

\* No index is given to two try_pop.
Reading == {"o_read", "o_spoil"}
TakenOnce == \A t, u \in Thread :
    pc[t] \in Reading /\ pc[u] \in Reading /\ g(t) = g(u) /\ idx[t] = idx[u] => t = u

InPlace(v, m, i) == entries[m][i] = v /\ (Held(m, i) \/ (m \in Listed /\ Ahead(m, i)))

\* Where a value may be that a push has put into the queue
Located(v) == \/ v \in popped
              \/ Closed /\ deleted[v] > 0
              \/ \E t \in Thread : pc[t] = "o_ret" /\ val[t] = v
              \/ \E m \in Node : \E i \in Place : InPlace(v, m, i)

PutOK == /\ \A v \in pushed : Located(v)
         /\ \A t \in Thread : \A v \in Value : pc[t] = "p_swing" /\ val[t] = v => Located(v)

VInv == /\ VType
        /\ \A m \in Node : NodeOK(m)
        /\ \A t \in Thread : IdxOK(t)
        /\ TakenOnce
        /\ PutOK

\* A step is one of thread t.
Others(t) == \A u \in Thread \ {t} : /\ pc'[u] = pc[u] /\ g(u)' = g(u) /\ idx'[u] = idx[u]
                                     /\ val'[u] = val[u] /\ mine'[u] = mine[u]

-----------------------------------------------------------------------------
(* What the steps have in common                                           *)

LEMMA InitV ==
  ASSUME Coprime, Init
  PROVE  VInv
<1>1. /\ entries = [m \in Node |-> [i \in Place |-> NoValue]]
      /\ push_idx = [m \in Node |-> 0] /\ pop_idx = [m \in Node |-> 0]
      /\ pc = [t \in Thread |-> "idle"] /\ idx = [t \in Thread |-> 0]
      /\ val = [t \in Thread |-> NoValue] /\ deleted = [v \in Value |-> 0] /\ pushed = {}
      /\ status = [m \in Node |-> IF m = qhead THEN "live" ELSE "free"]
  BY DEF Init, HistoryInit
<1>2. VType
  BY <1>1 DEF VType
<1>3. ASSUME NEW m \in Node PROVE NodeOK(m)
  <2>1. Multiple(0)
    BY DEF Multiple, step_size
  <2>2. \A i \in Place : AtIndex(m, i) >= 0
    BY IndexOfPlace DEF Index, Multiple
  <2>3. status[m] # "free" => m \in Listed
    BY <1>1 DEF Listed, Fresh, Taken
  <2> QED
    BY <1>1, <2>1, <2>2, <2>3, ValueAssumption DEF NodeOK, Ahead
<1>4. \A t \in Thread : IdxOK(t)
  BY <1>1 DEF IdxOK, PushPC
<1>5. PutOK
  BY <1>1 DEF PutOK
<1>6. TakenOnce
  BY <1>1 DEF TakenOnce, Reading
<1> QED
  BY <1>2, <1>3, <1>4, <1>5, <1>6 DEF VInv

\* An index that a try_pop has taken stays taken while another thread steps.
LEMMA HeldKept ==
  ASSUME NEW t \in Thread, Others(t), NEW m \in Node, NEW i \in Place,
         TakenBy(t, m, i) => Held(m, i)'
  PROVE  Held(m, i) => Held(m, i)'
BY DEF Held, TakenBy, Others

LEMMA HeldBefore ==
  ASSUME NEW t \in Thread, Others(t), NEW m \in Node, NEW i \in Place,
         TakenBy(t, m, i)' => Held(m, i)
  PROVE  Held(m, i)' => Held(m, i)
<1> SUFFICES ASSUME NEW u \in Thread, TakenBy(u, m, i)' PROVE Held(m, i)
  BY DEF Held
<1>1. CASE u = t
  BY <1>1
<1>2. CASE u # t
  BY <1>2 DEF Held, TakenBy, Others, place
<1> QED
  BY <1>1, <1>2

\* The thread that steps keeps its index, or is not about to read.
LEMMA OnceKept ==
  ASSUME TakenOnce, NEW t \in Thread, Others(t),
         pc'[t] \in Reading => pc[t] \in Reading /\ g(t)' = g(t) /\ idx'[t] = idx[t]
  PROVE  TakenOnce'
<1> SUFFICES ASSUME NEW u \in Thread, NEW w \in Thread, pc'[u] \in Reading, pc'[w] \in Reading,
                    g(u)' = g(w)', idx'[u] = idx'[w]
             PROVE  u = w
  BY DEF TakenOnce, Reading
<1>1. \A x \in {u, w} : pc[x] \in Reading /\ g(x)' = g(x) /\ idx'[x] = idx[x]
  BY DEF Others
<1> QED
  BY <1>1 DEF TakenOnce

LEMMA NodeKept ==
  ASSUME VInv, NEW m \in Node, entries'[m] = entries[m], push_idx'[m] = push_idx[m],
         pop_idx'[m] = pop_idx[m], \A i \in Place : Held(m, i) => Held(m, i)' \/ entries[m][i] # NoValue,
         \A i \in Place : Held(m, i)' => Held(m, i) \/ entries[m][i] # Spoiled,
         status'[m] = "free" => status[m] = "free",
         status'[m] # "free" /\ m \notin Listed' /\ ~Fresh(m)' =>
            \/ pop_idx[m] >= max_idx
            \/ status[m] # "free" /\ m \notin Listed /\ ~Fresh(m)
  PROVE  NodeOK(m)'
<1>1. NodeOK(m)
  BY DEF VInv
<1>2. \A i \in Place : Ahead(m, i) <=> Ahead(m, i)'
  BY DEF Ahead, AtIndex
<1>3. \A i \in Place : AtIndex(m, i)' = AtIndex(m, i)
  BY DEF AtIndex
<1> QED
  BY <1>1, <1>2, <1>3 DEF NodeOK

LEMMA OthersIdx ==
  ASSUME LInv, VInv, NEW t \in Thread, Others(t),
         \A u \in Thread : g(u) # Null => push_idx'[g(u)] >= push_idx[g(u)] /\ pop_idx'[g(u)] >= pop_idx[g(u)],
         \A u \in Thread \ {t} : pc[u] = "p_link" =>
            /\ pop_idx'[mine[u]] = pop_idx[mine[u]] /\ push_idx'[mine[u]] = push_idx[mine[u]]
            /\ entries'[mine[u]] = entries[mine[u]],
         VType'
  PROVE  \A u \in Thread \ {t} : IdxOK(u)'
<1> SUFFICES ASSUME NEW u \in Thread \ {t} PROVE IdxOK(u)'
  OBVIOUS
<1> PICK m : m = g(u)
  OBVIOUS
<1>1. IdxOK(u) /\ g(u)' = m
  BY DEF VInv, Others
<1>2. /\ pc'[u] = pc[u] /\ idx'[u] = idx[u] /\ val'[u] = val[u] /\ mine'[u] = mine[u]
  BY DEF Others
<1>3. pc[u] \in {"p_cas", "o_read", "o_spoil", "o_next", "o_cas"} =>
         /\ m \in Node /\ push_idx[m] \in Nat /\ pop_idx[m] \in Nat /\ push_idx'[m] \in Nat
         /\ pop_idx'[m] \in Nat /\ push_idx'[m] >= push_idx[m] /\ pop_idx'[m] >= pop_idx[m]
  <2>1. pc[u] \notin Outside => m # Null
    BY DEF LInv, GuardOK
  <2> QED
    BY <2>1, GuardType DEF Outside, VInv, VType
<1>4. max_idx \in Nat /\ idx[u] \in Nat
  BY EntriesAssumption DEF max_idx, step_size, VInv, VType
<1> QED
  BY <1>1, <1>2, <1>3, <1>4 DEF IdxOK

LEMMA LocatedKept ==
  ASSUME NEW t \in Thread, Others(t), NEW v \in Value, Located(v),
         popped \subseteq popped', Closed => Closed' /\ (deleted[v] > 0 => deleted'[v] > 0),
         pc[t] = "o_ret" => val[t] \in popped' \/ (pc'[t] = "o_ret" /\ val'[t] = val[t]),
         \A m \in Node : \A i \in Place : InPlace(v, m, i) => Located(v)'
  PROVE  Located(v)'
<1>1. CASE v \in popped
  BY <1>1 DEF Located
<1>2. CASE Closed /\ deleted[v] > 0
  BY <1>2 DEF Located
<1>3. ASSUME NEW u \in Thread, pc[u] = "o_ret", val[u] = v PROVE Located(v)'
  <2>1. CASE u = t
    BY <1>3, <2>1 DEF Located
  <2>2. CASE u # t
    BY <1>3, <2>2 DEF Located, Others
  <2> QED
    BY <2>1, <2>2
<1> QED
  BY <1>1, <1>2, <1>3 DEF Located

\* A place that a step leaves alone still has its value.
LEMMA PlaceKept ==
  ASSUME NEW v, NEW m \in Node, NEW i \in Place, InPlace(v, m, i), entries'[m][i] = entries[m][i],
         Held(m, i) => Held(m, i)', pop_idx'[m] = pop_idx[m], m \in Listed => m \in Listed'
  PROVE  Located(v)'
<1>1. Ahead(m, i) => Ahead(m, i)'
  BY DEF Ahead, AtIndex
<1> QED
  BY <1>1 DEF InPlace, Located

\* The other threads that are about to move _tail, and the values pushed before
LEMMA PutKept ==
  ASSUME VInv, NEW t \in Thread, Others(t),
         \A v \in Value : Located(v) => Located(v)',
         \A v \in pushed' : v \in pushed \/ (v \in Value /\ Located(v)'),
         \A v \in Value : pc'[t] = "p_swing" /\ val'[t] = v => Located(v)'
  PROVE  PutOK'
<1>1. ASSUME NEW v \in pushed' PROVE Located(v)'
  <2>1. CASE v \in pushed
    BY <2>1 DEF VInv, PutOK, VType
  <2> QED
    BY <1>1, <2>1
<1>2. ASSUME NEW u \in Thread, NEW v \in Value, pc'[u] = "p_swing", val'[u] = v PROVE Located(v)'
  <2>1. CASE u = t
    BY <1>2, <2>1
  <2>2. CASE u # t
    <3>1. pc[u] = "p_swing" /\ val[u] = v
      BY <1>2, <2>2 DEF Others
    <3>2. Located(v)
      BY <3>1 DEF VInv, PutOK
    <3> QED
      BY <3>2
  <2> QED
    BY <2>1, <2>2
<1> QED
  BY <1>1, <1>2 DEF PutOK

LEMMA FreshKept ==
  ASSUME NEW t \in Thread, Others(t), pc[t] # "p_link", pc'[t] # "p_link"
  PROVE  \A m \in Node : Fresh(m)' <=> Fresh(m)
BY DEF Fresh, Others

\* A step that leaves the entries, the indexes and the list alone
LEMMA PlainStep ==
  ASSUME LInv, VInv, NEW t \in Thread, Others(t), Listed' = Listed,
         UNCHANGED <<entries, push_idx, pop_idx, deleted, status>>,
         pc[t] # "p_link", pc'[t] \notin {"p_link", "p_swing"},
         pc[t] \in Reading <=> pc'[t] \in Reading,
         pc[t] \in Reading => g(t)' = g(t) /\ idx'[t] = idx[t],
         pc[t] = "o_ret" => val[t] \in popped',
         popped \subseteq popped', Closed => Closed',
         \A v \in pushed' : v \in pushed \/ (v \in Value /\ Located(v)),
         VType', IdxOK(t)'
  PROVE  VInv'
<1>1. ASSUME NEW m \in Node, NEW i \in Place PROVE Held(m, i) => Held(m, i)'
  <2>1. TakenBy(t, m, i) => Held(m, i)'
    BY DEF TakenBy, Held, place, Reading
  <2> QED
    BY <2>1, HeldKept
<1>6. ASSUME NEW m \in Node, NEW i \in Place PROVE Held(m, i)' => Held(m, i)
  <2>1. TakenBy(t, m, i)' => Held(m, i)
    BY DEF TakenBy, Held, place, Reading
  <2> QED
    BY <2>1, HeldBefore
<1>2. ASSUME NEW m \in Node PROVE NodeOK(m)'
  BY <1>1, <1>6, FreshKept, NodeKept
<1>3. \A u \in Thread : IdxOK(u)'
  <2>1. \A u \in Thread : g(u) # Null => push_idx'[g(u)] >= push_idx[g(u)] /\ pop_idx'[g(u)] >= pop_idx[g(u)]
    <3>1. \A u \in Thread : g(u) # Null => push_idx[g(u)] \in Nat /\ pop_idx[g(u)] \in Nat
      BY GuardType DEF VInv, VType
    <3> QED
      BY <3>1
  <2> QED
    BY <2>1, OthersIdx
<1>4. \A v \in Value : Located(v) => Located(v)'
  <2> SUFFICES ASSUME NEW v \in Value, Located(v) PROVE Located(v)'
    OBVIOUS
  <2>1. \A m \in Node : \A i \in Place : InPlace(v, m, i) => Located(v)'
    BY <1>1, PlaceKept
  <2> QED
    BY <2>1, LocatedKept
<1>5. PutOK'
  BY <1>4, PutKept
<1>7. TakenOnce'
  BY OnceKept DEF VInv
<1> QED
  BY <1>2, <1>3, <1>5, <1>7 DEF VInv

LEMMA OthersLocal ==
  ASSUME LInv, VInv, NEW t \in Thread, NEW b, pc' = [pc EXCEPT ![t] = b],
         idx' = idx \/ \E k \in Nat : idx' = [idx EXCEPT ![t] = k],
         val' = val \/ \E v \in Value \union {NoValue} : val' = [val EXCEPT ![t] = v],
         mine' = mine \/ \E m : mine' = [mine EXCEPT ![t] = m],
         slot' = slot \/ \E n : slot' = [slot EXCEPT ![t]["n"] = n]
  PROVE  /\ Others(t) /\ pc'[t] = b
         /\ idx' \in [Thread -> Nat] /\ val' \in [Thread -> Value \union {NoValue}]
<1>1. \A u \in Thread \ {t} : g(u)' = g(u)
  BY DEF g, LInv, LType, R!RTypeOK
<1>2. Others(t) /\ pc'[t] = b
  BY <1>1 DEF Others, LInv, LType, VInv, VType
<1> QED
  BY <1>2 DEF VInv, VType

LEMMA FinishLocal ==
  ASSUME LInv, VInv, NEW t \in Thread, NEW a, Finish(t, a)
  PROVE  /\ Others(t) /\ pc[t] = a /\ pc'[t] = "idle" /\ val'[t] = NoValue
         /\ idx' \in [Thread -> Nat] /\ val' \in [Thread -> Value \union {NoValue}]
         /\ UNCHANGED <<status, deleted>>
<1>1. /\ pc[t] = a /\ pc' = [pc EXCEPT ![t] = "idle"] /\ UNCHANGED <<status, deleted>>
      /\ slot' = [slot EXCEPT ![t] = [s \in {"n"} |-> IF s \in {"n"} THEN Null ELSE slot[t][s]]]
      /\ idx' = [idx EXCEPT ![t] = 0] /\ val' = [val EXCEPT ![t] = NoValue]
      /\ mine' = [mine EXCEPT ![t] = Null]
  BY DEF Finish, Goto, Set, R!Release
<1>2. slot' = [slot EXCEPT ![t]["n"] = Null]
  BY <1>1 DEF LInv, LType, R!RTypeOK
<1>3. Others(t) /\ pc'[t] = "idle"
  BY <1>1, <1>2, OthersLocal
<1>4. /\ val'[t] = NoValue
      /\ idx' \in [Thread -> Nat] /\ val' \in [Thread -> Value \union {NoValue}]
  BY <1>1 DEF VInv, VType
<1> QED
  BY <1>1, <1>3, <1>4

\* A push, and then a try_pop, that goes on from place to place
LEMMA PlainPushStep ==
  ASSUME LInv, VInv, NEW t \in Thread, Listed' = Listed,
         NEW b \in PushPC \ {"p_cas", "p_link", "p_swing"}, pc[t] \in PushPC \ {"p_link"},
         pc' = [pc EXCEPT ![t] = b], UNCHANGED <<idx, val, mine, entries, push_idx, pop_idx, deleted, status>>,
         slot' = slot \/ \E n : slot' = [slot EXCEPT ![t]["n"] = n],
         UNCHANGED history
  PROVE  VInv'
<1>1. Others(t) /\ pc'[t] = b
  BY OthersLocal
<1>2. VType'
  BY DEF VInv, VType, history
<1>3. IdxOK(t)'
  BY <1>1 DEF VInv, IdxOK, PushPC
<1>4. ~Closed
  BY Busy DEF PushPC
<1> QED
  BY <1>1, <1>2, <1>3, <1>4, PlainStep DEF PushPC, history, Reading

LEMMA PlainPopStep ==
  ASSUME LInv, VInv, NEW t \in Thread, Listed' = Listed,
         NEW b \in {"o_acq", "o_load", "o_check", "o_empty", "o_idx", "o_cas", "o_spoil"},
         pc[t] \in PopPC \ {"o_ret", "o_spoil"},
         pc[t] = "o_read" \/ b = "o_spoil" => pc[t] = "o_read" /\ b = "o_spoil" /\ UNCHANGED <<idx, slot>>,
         b = "o_cas" => pc[t] = "o_next" /\ UNCHANGED slot,
         pc' = [pc EXCEPT ![t] = b], UNCHANGED <<val, mine, entries, push_idx, pop_idx, deleted, status>>,
         idx' = idx \/ \E k \in Nat : idx' = [idx EXCEPT ![t] = k],
         slot' = slot \/ \E n : slot' = [slot EXCEPT ![t]["n"] = n],
         UNCHANGED history
  PROVE  VInv'
<1>1. Others(t) /\ pc'[t] = b /\ idx' \in [Thread -> Nat]
  BY OthersLocal
<1>2. VType'
  BY <1>1 DEF VInv, VType, history
<1>3. IdxOK(t)'
  BY <1>1 DEF VInv, IdxOK, PushPC, PopPC, g
<1>4. ~Closed
  BY Busy DEF PopPC
<1>5. /\ pc[t] \in Reading => g(t)' = g(t) /\ idx'[t] = idx[t]
      /\ pc[t] \in Reading <=> pc'[t] \in Reading
  BY <1>1 DEF g, Reading
<1> QED
  BY <1>1, <1>2, <1>3, <1>4, <1>5, PlainStep DEF PopPC, history

-----------------------------------------------------------------------------
(* push                                                                    *)

\* The node of a guard: it exists, and no push is still to link it.
LEMMA GuardNode ==
  ASSUME LInv, NEW t \in Thread, pc[t] \notin Outside
  PROVE  g(t) \in Node /\ status[g(t)] # "free" /\ ~Fresh(g(t))
<1>1. g(t) # Null
  BY DEF LInv, GuardOK
<1> QED
  BY <1>1, GuardType DEF LInv, Fresh, FreshOK

LEMMA PushIdxV ==
  ASSUME LInv, VInv, Coprime, NEW t \in Thread, PushIdx(t), Listed' = Listed
  PROVE  VInv'
<1> PICK a : a = g(t)
  OBVIOUS
<1> PICK k : k = push_idx[a]
  OBVIOUS
<1> PICK b : b = IF k >= max_idx THEN "p_tail" ELSE "p_cas"
  OBVIOUS
<1>1. /\ pc[t] = "p_idx" /\ pc' = [pc EXCEPT ![t] = b] /\ idx' = [idx EXCEPT ![t] = k]
      /\ push_idx' = [push_idx EXCEPT ![a] = k + step_size]
      /\ UNCHANGED <<entries, pop_idx, slot, status, val, mine, deleted, pushed, popped, before, late, due>>
  BY DEF PushIdx, Goto, Set, Quiet, guards, history
<1>2. a \in Node
  BY <1>1, GuardNode DEF Outside
<1>3. Multiple(k) /\ Multiple(k + step_size) /\ k < k + step_size /\ k \in Nat /\ k + step_size \in Nat
  BY <1>2 DEF VInv, NodeOK, Multiple, step_size
<1>4. Others(t) /\ pc'[t] = b /\ idx'[t] = k /\ g(t)' = a
  BY <1>1, <1>3, OthersLocal DEF VInv, VType, g
<1>5. push_idx'[a] = k + step_size /\ \A m \in Node \ {a} : push_idx'[m] = push_idx[m]
  BY <1>1, <1>2 DEF VInv, VType
<1>6. VType'
  BY <1>1, <1>3 DEF VInv, VType
<1>7. b \in {"p_tail", "p_cas"}
  OBVIOUS
<1>8. ASSUME NEW m \in Node, NEW i \in Place
      PROVE  (Held(m, i) <=> Held(m, i)') /\ (Ahead(m, i) <=> Ahead(m, i)')
  <2>1. ~TakenBy(t, m, i) /\ ~TakenBy(t, m, i)'
    BY <1>1, <1>4, <1>7 DEF TakenBy
  <2> QED
    BY <1>1, <1>4, <2>1, HeldKept, HeldBefore DEF Ahead, AtIndex
<1>9. \A m \in Node : Fresh(m)' <=> Fresh(m)
  BY <1>1, <1>4, <1>7, FreshKept
<1>10. ASSUME NEW m \in Node PROVE NodeOK(m)'
  <2>1. CASE m = a
    <3>1. NodeOK(a)
      BY <1>2 DEF VInv
    <3>2. \A i \in Place : /\ AtIndex(a, i)' = AtIndex(a, i)
                            /\ AtIndex(a, i) < k => AtIndex(a, i) < k + step_size
      <4>1. \A i \in Place : AtIndex(a, i) \in Nat
        BY IndexOfPlace DEF Index, Multiple
      <4>2. \A i \in Place : AtIndex(a, i)' = AtIndex(a, i)
        BY DEF AtIndex
      <4> QED
        BY <1>3, <4>1, <4>2 DEF step_size
    <3> QED
      BY <1>1, <1>2, <1>3, <1>5, <1>8, <1>9, <2>1, <3>1, <3>2 DEF NodeOK
  <2>2. CASE m # a
    BY <1>1, <1>5, <1>8, <1>9, <2>2, NodeKept
  <2> QED
    BY <2>1, <2>2
<1>11. IdxOK(t)'
  <2>1. b = "p_cas" => k \in Index
    BY <1>3, EntriesAssumption DEF Index, max_idx, step_size, Multiple
  <2> QED
    BY <1>1, <1>3, <1>4, <1>5, <1>7, <2>1 DEF VInv, IdxOK, PushPC
<1>12. \A u \in Thread : IdxOK(u)'
  <2>1. \A u \in Thread : g(u) # Null => push_idx'[g(u)] >= push_idx[g(u)] /\ pop_idx'[g(u)] >= pop_idx[g(u)]
    <3>1. \A u \in Thread : g(u) # Null =>
             g(u) \in Node /\ push_idx[g(u)] \in Nat /\ pop_idx[g(u)] \in Nat
      BY GuardType DEF VInv, VType
    <3> QED
      BY <1>1, <1>3, <1>5, <3>1
  <2>2. \A u \in Thread : pc[u] = "p_link" => mine[u] \in Node \ {a}
    BY <1>1, <1>2 DEF LInv, FreshOK
  <2> QED
    BY <1>1, <1>4, <1>5, <1>6, <1>11, <2>1, <2>2, OthersIdx
<1>13. \A v \in Value : Located(v) => Located(v)'
  <2> SUFFICES ASSUME NEW v \in Value, Located(v) PROVE Located(v)'
    OBVIOUS
  <2>1. \A m \in Node : \A i \in Place : InPlace(v, m, i) => Located(v)'
    BY <1>1, <1>8, PlaceKept
  <2>2. ~Closed
    BY <1>1, Busy
  <2> QED
    BY <1>1, <1>4, <2>1, <2>2, LocatedKept
<1>14. PutOK'
  BY <1>1, <1>4, <1>7, <1>13, PutKept
<1>15. TakenOnce'
  BY <1>4, <1>7, OnceKept DEF VInv, Reading
<1> QED
  BY <1>6, <1>10, <1>12, <1>14, <1>15 DEF VInv

LEMMA PushNewV ==
  ASSUME LInv, VInv, Coprime, NEW t \in Thread, NEW m \in Node, PushNew(t, m), Listed' = Listed
  PROVE  VInv'
<1> PICK w : w = val[t]
  OBVIOUS
<1>1. /\ pc[t] = "p_next" /\ pc' = [pc EXCEPT ![t] = "p_link"] /\ status[m] = "free"
      /\ status' = [status EXCEPT ![m] = "live"] /\ mine' = [mine EXCEPT ![t] = m]
      /\ entries' = [entries EXCEPT ![m] = [i \in Place |-> IF i = 0 THEN w ELSE NoValue]]
      /\ push_idx' = [push_idx EXCEPT ![m] = step_size] /\ pop_idx' = [pop_idx EXCEPT ![m] = 0]
      /\ UNCHANGED <<slot, idx, val, deleted, pushed, popped, before, late, due>>
  BY DEF PushNew, Goto, R!Allocate, history
<1>2. w \in Value
  BY <1>1 DEF VInv, IdxOK, PushPC, VType
<1>3. Others(t) /\ pc'[t] = "p_link" /\ mine'[t] = m
  <2>1. Others(t) /\ pc'[t] = "p_link"
    BY <1>1, OthersLocal
  <2> QED
    BY <1>1, <2>1 DEF LInv, LType
<1>4. VType'
  <2>1. [i \in Place |-> IF i = 0 THEN w ELSE NoValue] \in [Place -> Value \union {NoValue, Spoiled}]
    BY <1>2
  <2> QED
    BY <1>1, <2>1 DEF VInv, VType, step_size
<1>5. /\ push_idx'[m] = step_size /\ pop_idx'[m] = 0 /\ status'[m] = "live"
      /\ entries'[m] = [i \in Place |-> IF i = 0 THEN w ELSE NoValue]
      /\ \A n \in Node \ {m} : /\ push_idx'[n] = push_idx[n] /\ pop_idx'[n] = pop_idx[n]
                               /\ entries'[n] = entries[n] /\ status'[n] = status[n]
  BY <1>1 DEF VInv, VType, LInv, LType, R!RTypeOK
<1>6. \A u \in Thread : g(u)' = g(u) /\ g(u) # m
  <2>1. \A u \in Thread : g(u)' = g(u)
    BY <1>1 DEF g
  <2> QED
    BY <1>1, <2>1, GuardType, NodeAssumption
<1>7. ASSUME NEW n \in Node, NEW i \in Place PROVE Held(n, i) <=> Held(n, i)'
  <2>1. ~TakenBy(t, n, i) /\ ~TakenBy(t, n, i)'
    BY <1>1, <1>3 DEF TakenBy
  <2> QED
    BY <1>3, <2>1, HeldKept, HeldBefore
<1>8. /\ Fresh(m)' /\ \A n \in Node \ {m} : Fresh(n)' <=> Fresh(n)
  BY <1>1, <1>3 DEF Fresh, Others
<1>9. ASSUME NEW n \in Node PROVE NodeOK(n)'
  <2>1. CASE n = m
    <3>1. Multiple(step_size) /\ Multiple(0) /\ step_size = 11
      BY DEF Multiple, step_size
    <3>2. \A i \in Place : AtIndex(m, i)' = AtIndex(m, i) /\ AtIndex(m, i) >= 0
      BY IndexOfPlace DEF Index, Multiple, AtIndex
    <3>3. AtIndex(m, 0) = 0
      <4>1. 0 \in Index /\ place(0) = 0
        BY EntriesAssumption DEF Index, Multiple, step_size, max_idx, place
      <4> QED
        BY <4>1, IndexOfPlace
    <3> QED
      BY <1>2, <1>5, <1>8, <2>1, <3>1, <3>2, <3>3, ValueAssumption DEF NodeOK, Ahead
  <2>2. CASE n # m
    BY <1>1, <1>5, <1>7, <1>8, <2>2, NodeKept
  <2> QED
    BY <2>1, <2>2
<1>10. IdxOK(t)'
  <2>1. val'[t] = w /\ w # NoValue
    BY <1>1, <1>2, ValueAssumption
  <2> QED
    BY <1>3, <1>5, <2>1 DEF IdxOK, PushPC
<1>11. \A u \in Thread : IdxOK(u)'
  <2>1. \A u \in Thread : g(u) # Null => push_idx'[g(u)] >= push_idx[g(u)] /\ pop_idx'[g(u)] >= pop_idx[g(u)]
    <3>1. \A u \in Thread : g(u) # Null =>
             g(u) \in Node \ {m} /\ push_idx[g(u)] \in Nat /\ pop_idx[g(u)] \in Nat
      BY <1>6, GuardType DEF VInv, VType
    <3> QED
      BY <1>5, <3>1
  <2>2. \A u \in Thread : pc[u] = "p_link" => mine[u] \in Node \ {m}
    BY <1>1 DEF LInv, FreshOK
  <2> QED
    BY <1>3, <1>4, <1>5, <1>10, <2>1, <2>2, OthersIdx
<1>12. \A v \in Value : Located(v) => Located(v)'
  <2> SUFFICES ASSUME NEW v \in Value, Located(v) PROVE Located(v)'
    OBVIOUS
  <2>1. ASSUME NEW n \in Node, NEW i \in Place, InPlace(v, n, i) PROVE Located(v)'
    <3>1. n # m
      <4>1. \A j \in Place : entries[m][j] = NoValue
        BY <1>1 DEF VInv, NodeOK
      <4> QED
        BY <2>1, <4>1, ValueAssumption DEF InPlace
    <3> QED
      BY <1>5, <1>7, <2>1, <3>1, PlaceKept
  <2>2. ~Closed
    BY <1>1, Busy
  <2> QED
    BY <1>1, <1>3, <2>1, <2>2, LocatedKept
<1>13. PutOK'
  BY <1>1, <1>3, <1>12, PutKept
<1>14. TakenOnce'
  BY <1>3, OnceKept DEF VInv, Reading
<1> QED
  BY <1>4, <1>9, <1>11, <1>13, <1>14 DEF VInv

LEMMA PushLinkV ==
  ASSUME LInv, VInv, Coprime, NEW t \in Thread, PushLink(t), LInv'
  PROVE  VInv'
<1> PICK a : a = g(t)
  OBVIOUS
<1> PICK m : m = mine[t]
  OBVIOUS
<1> PICK w : w = val[t]
  OBVIOUS
<1>1. /\ pc[t] = "p_link" /\ pc' = [pc EXCEPT ![t] = "p_swing"]
      /\ UNCHANGED <<entries, push_idx, pop_idx, slot, status, idx, val, mine, deleted, pushed, popped,
                     before, late, due>>
  BY DEF PushLink, Goto, Quiet, guards, history
<1>2. Listed' = Listed \union {m}
  BY LinkStep
<1>3. m \in Node /\ \A u \in Thread : pc[u] = "p_link" /\ mine[u] = m => u = t
  BY <1>1 DEF LInv, FreshOK
<1>4. Others(t) /\ pc'[t] = "p_swing"
  BY <1>1, OthersLocal
<1>5. VType'
  BY <1>1 DEF VInv, VType
<1>6. ASSUME NEW n \in Node, NEW i \in Place PROVE Held(n, i) <=> Held(n, i)'
  <2>1. ~TakenBy(t, n, i) /\ ~TakenBy(t, n, i)'
    BY <1>1, <1>4 DEF TakenBy
  <2> QED
    BY <1>4, <2>1, HeldKept, HeldBefore
<1>7. \A n \in Node \ {m} : Fresh(n)' <=> Fresh(n)
  BY <1>1, <1>4 DEF Fresh, Others
<1>8. ASSUME NEW n \in Node PROVE NodeOK(n)'
  BY <1>1, <1>2, <1>6, <1>7, NodeKept
<1>9. \A u \in Thread : IdxOK(u)'
  <2>1. IdxOK(t)'
    BY <1>1, <1>4 DEF VInv, IdxOK, PushPC
  <2>2. \A u \in Thread : g(u) # Null => push_idx'[g(u)] >= push_idx[g(u)] /\ pop_idx'[g(u)] >= pop_idx[g(u)]
    <3>1. \A u \in Thread : g(u) # Null => push_idx[g(u)] \in Nat /\ pop_idx[g(u)] \in Nat
      BY GuardType DEF VInv, VType
    <3> QED
      BY <1>1, <3>1
  <2> QED
    BY <1>1, <1>4, <1>5, <2>1, <2>2, OthersIdx
<1>10. \A v \in Value : Located(v) => Located(v)'
  <2> SUFFICES ASSUME NEW v \in Value, Located(v) PROVE Located(v)'
    OBVIOUS
  <2>1. \A n \in Node : \A i \in Place : InPlace(v, n, i) => Located(v)'
    BY <1>1, <1>2, <1>6, PlaceKept
  <2>2. ~Closed
    BY <1>1, Busy
  <2> QED
    BY <1>1, <1>4, <2>1, <2>2, LocatedKept
<1>11. Located(w)'
  <2>1. 0 \in Index /\ place(0) = 0
    BY EntriesAssumption DEF Index, Multiple, step_size, max_idx, place
  <2>2. 0 \in Place /\ AtIndex(m, 0) = 0
    BY <2>1, IndexOfPlace
  <2>3. pop_idx[m] = 0 /\ entries[m] = [i \in Place |-> IF i = 0 THEN w ELSE NoValue]
    BY <1>1 DEF VInv, IdxOK
  <2>4. Ahead(m, 0)
    BY <2>2, <2>3 DEF Ahead
  <2>5. Ahead(m, 0)'
    BY <1>1, <2>4 DEF Ahead, AtIndex
  <2>6. entries'[m][0] = w
    BY <1>1, <2>2, <2>3
  <2> QED
    BY <1>2, <1>3, <2>2, <2>5, <2>6 DEF Located, InPlace
<1>12. PutOK'
  BY <1>1, <1>4, <1>10, <1>11, PutKept
<1>13. TakenOnce'
  BY <1>4, OnceKept DEF VInv, Reading
<1> QED
  BY <1>5, <1>8, <1>9, <1>12, <1>13 DEF VInv

LEMMA PushLinkFailsV ==
  ASSUME LInv, VInv, Coprime, NEW t \in Thread, PushLinkFails(t), Listed' = Listed
  PROVE  VInv'
<1> PICK m : m = mine[t]
  OBVIOUS
<1>1. /\ pc[t] = "p_link" /\ pc' = [pc EXCEPT ![t] = "p_acq"]
      /\ status' = [status EXCEPT ![m] = "free"] /\ mine' = [mine EXCEPT ![t] = Null]
      /\ entries' = [entries EXCEPT ![m] = [i \in Place |-> NoValue]]
      /\ push_idx' = [push_idx EXCEPT ![m] = 0]
      /\ UNCHANGED <<pop_idx, slot, idx, val, deleted, pushed, popped, before, late, due>>
  BY DEF PushLinkFails, Goto, history
<1>2. /\ m \in Node
      /\ \A u \in Thread : g(u) # m /\ (pc[u] = "p_link" /\ mine[u] = m => u = t)
  BY <1>1 DEF LInv, FreshOK
<1>3. Others(t) /\ pc'[t] = "p_acq"
  BY <1>1, OthersLocal
<1>4. VType'
  <2>1. [i \in Place |-> NoValue] \in [Place -> Value \union {NoValue, Spoiled}]
    OBVIOUS
  <2> QED
    BY <1>1, <2>1 DEF VInv, VType
<1>5. /\ push_idx'[m] = 0 /\ pop_idx'[m] = 0 /\ status'[m] = "free" /\ entries'[m] = [i \in Place |-> NoValue]
      /\ \A n \in Node \ {m} : /\ push_idx'[n] = push_idx[n] /\ pop_idx'[n] = pop_idx[n]
                               /\ entries'[n] = entries[n] /\ status'[n] = status[n]
  <2>1. pop_idx[m] = 0
    BY <1>1 DEF VInv, IdxOK
  <2> QED
    BY <1>1, <1>2, <2>1 DEF VInv, VType, LInv, LType, R!RTypeOK
<1>6. \A u \in Thread : g(u)' = g(u) /\ g(u) # m
  BY <1>1, <1>2 DEF g
<1>7. ASSUME NEW n \in Node, NEW i \in Place PROVE Held(n, i) <=> Held(n, i)'
  <2>1. ~TakenBy(t, n, i) /\ ~TakenBy(t, n, i)'
    BY <1>1, <1>3 DEF TakenBy
  <2> QED
    BY <1>3, <2>1, HeldKept, HeldBefore
<1>8. \A n \in Node \ {m} : Fresh(n)' <=> Fresh(n)
  BY <1>1, <1>3 DEF Fresh, Others
<1>9. ASSUME NEW n \in Node PROVE NodeOK(n)'
  <2>1. CASE n = m
    <3>1. Multiple(0)
      BY DEF Multiple, step_size
    <3>2. \A i \in Place : AtIndex(m, i)' >= 0
      BY IndexOfPlace DEF Index, Multiple, AtIndex
    <3> QED
      BY <1>5, <2>1, <3>1, <3>2, ValueAssumption DEF NodeOK, Ahead
  <2>2. CASE n # m
    BY <1>1, <1>5, <1>7, <1>8, <2>2, NodeKept
  <2> QED
    BY <2>1, <2>2
<1>10. \A u \in Thread : IdxOK(u)'
  <2>1. IdxOK(t)'
    BY <1>1, <1>3 DEF VInv, IdxOK, PushPC
  <2>2. \A u \in Thread : g(u) # Null => push_idx'[g(u)] >= push_idx[g(u)] /\ pop_idx'[g(u)] >= pop_idx[g(u)]
    <3>1. \A u \in Thread : g(u) # Null =>
             g(u) \in Node \ {m} /\ push_idx[g(u)] \in Nat /\ pop_idx[g(u)] \in Nat
      BY <1>6, GuardType DEF VInv, VType
    <3> QED
      BY <1>5, <3>1
  <2>3. \A u \in Thread \ {t} : pc[u] = "p_link" => mine[u] \in Node \ {m}
    BY <1>2 DEF LInv, FreshOK
  <2> QED
    BY <1>3, <1>4, <1>5, <2>1, <2>2, <2>3, OthersIdx
<1>11. \A v \in Value : Located(v) => Located(v)'
  <2> SUFFICES ASSUME NEW v \in Value, Located(v) PROVE Located(v)'
    OBVIOUS
  <2>1. ASSUME NEW n \in Node, NEW i \in Place, InPlace(v, n, i) PROVE Located(v)'
    <3>1. n # m
      <4>1. m \notin Listed
        BY <1>1 DEF Listed, Fresh
      <4>2. ~Held(m, i)
        BY <1>6 DEF Held, TakenBy
      <4> QED
        BY <2>1, <4>1, <4>2 DEF InPlace
    <3> QED
      BY <1>5, <1>7, <2>1, <3>1, PlaceKept
  <2>2. ~Closed
    BY <1>1, Busy
  <2> QED
    BY <1>1, <1>3, <2>1, <2>2, LocatedKept
<1>12. PutOK'
  BY <1>1, <1>3, <1>11, PutKept
<1>13. TakenOnce'
  BY <1>3, OnceKept DEF VInv, Reading
<1> QED
  BY <1>4, <1>9, <1>10, <1>12, <1>13 DEF VInv

LEMMA PushCasV ==
  ASSUME LInv, VInv, Coprime, NEW t \in Thread, PushCas(t), Listed' = Listed
  PROVE  VInv'
<1> PICK a : a = g(t)
  OBVIOUS
<1> PICK k : k = idx[t]
  OBVIOUS
<1> PICK p : p = place(k)
  OBVIOUS
<1> PICK w : w = val[t]
  OBVIOUS
<1>1. /\ Finish(t, "p_cas") /\ entries[a][p] = NoValue /\ entries' = [entries EXCEPT ![a][p] = w]
      /\ pushed' = pushed \union {w} /\ UNCHANGED <<push_idx, pop_idx, popped, before, late, due>>
  BY DEF PushCas, Entry, SetEntry, PushEnds, place
<1>2. /\ Others(t) /\ pc[t] = "p_cas" /\ pc'[t] = "idle" /\ val'[t] = NoValue
      /\ idx' \in [Thread -> Nat] /\ val' \in [Thread -> Value \union {NoValue}]
      /\ UNCHANGED <<status, deleted>>
  BY <1>1, FinishLocal
<1>3. a \in Node /\ status[a] # "free" /\ ~Fresh(a)
  BY <1>2, GuardNode DEF Outside
<1>4. w \in Value /\ k \in Index /\ k < push_idx[a]
  BY <1>2 DEF VInv, IdxOK, PushPC, VType
<1>5. p \in Place /\ AtIndex(a, p) = k
  BY <1>4, IndexOfPlace
<1>6. /\ entries'[a] = [entries[a] EXCEPT ![p] = w] /\ \A m \in Node \ {a} : entries'[m] = entries[m]
      /\ entries'[a][p] = w /\ \A i \in Place \ {p} : entries'[a][i] = entries[a][i]
  BY <1>1, <1>3, <1>5 DEF VInv, VType
<1>7. VType'
  BY <1>1, <1>2, <1>4, <1>5 DEF VInv, VType
<1>8. ASSUME NEW m \in Node, NEW i \in Place
      PROVE  (Held(m, i) <=> Held(m, i)') /\ (Ahead(m, i) <=> Ahead(m, i)')
  <2>1. ~TakenBy(t, m, i) /\ ~TakenBy(t, m, i)'
    BY <1>2 DEF TakenBy
  <2> QED
    BY <1>1, <1>2, <2>1, HeldKept, HeldBefore DEF Ahead, AtIndex
<1>9. \A m \in Node : Fresh(m)' <=> Fresh(m)
  BY <1>2, FreshKept
<1>10. ASSUME NEW m \in Node PROVE NodeOK(m)'
  <2>1. CASE m = a
    <3>1. NodeOK(a) /\ \A i \in Place : AtIndex(a, i)' = AtIndex(a, i)
      BY <1>3 DEF VInv, AtIndex
    <3> QED
      BY <1>1, <1>2, <1>3, <1>4, <1>5, <1>6, <1>8, <1>9, <2>1, <3>1, ValueAssumption DEF NodeOK
  <2>2. CASE m # a
    BY <1>1, <1>2, <1>6, <1>8, <1>9, <2>2, NodeKept
  <2> QED
    BY <2>1, <2>2
<1>11. \A u \in Thread : IdxOK(u)'
  <2>1. IdxOK(t)'
    BY <1>2 DEF IdxOK, PushPC
  <2>2. \A u \in Thread : g(u) # Null => push_idx'[g(u)] >= push_idx[g(u)] /\ pop_idx'[g(u)] >= pop_idx[g(u)]
    <3>1. \A u \in Thread : g(u) # Null => push_idx[g(u)] \in Nat /\ pop_idx[g(u)] \in Nat
      BY GuardType DEF VInv, VType
    <3> QED
      BY <1>1, <3>1
  <2>3. \A u \in Thread : pc[u] = "p_link" => mine[u] \in Node \ {a}
    BY <1>3 DEF LInv, FreshOK, Fresh
  <2> QED
    BY <1>1, <1>2, <1>6, <1>7, <2>1, <2>2, <2>3, OthersIdx
<1>12. ~Closed
  BY <1>2, Busy
<1>13. \A v \in Value : Located(v) => Located(v)'
  <2> SUFFICES ASSUME NEW v \in Value, Located(v) PROVE Located(v)'
    OBVIOUS
  <2>1. ASSUME NEW m \in Node, NEW i \in Place, InPlace(v, m, i) PROVE Located(v)'
    <3>1. entries'[m][i] = entries[m][i]
      <4>1. ~(m = a /\ i = p)
        BY <1>1, <2>1, ValueAssumption DEF InPlace
      <4> QED
        BY <1>6, <4>1
    <3> QED
      BY <1>1, <1>8, <2>1, <3>1, PlaceKept
  <2> QED
    BY <1>1, <1>2, <1>12, <2>1, LocatedKept
<1>14. Located(w)'
  <2>1. NodeOK(a)
    BY <1>3 DEF VInv
  <2>2. Held(a, p) \/ Ahead(a, p)
    BY <1>1, <1>5, <2>1 DEF NodeOK
  <2>3. Ahead(a, p) => a \in Listed
    <3>1. k < max_idx /\ max_idx \in Nat /\ k \in Nat
      BY <1>4, EntriesAssumption DEF Index, Multiple, max_idx, step_size
    <3>2. pop_idx[a] \in Nat
      BY <1>3 DEF VInv, VType
    <3> QED
      BY <1>3, <1>5, <2>1, <3>1, <3>2 DEF NodeOK, Ahead
  <2>4. InPlace(w, a, p)'
    BY <1>3, <1>5, <1>6, <1>8, <2>2, <2>3 DEF InPlace
  <2> QED
    BY <1>3, <1>5, <2>4 DEF Located
<1>15. PutOK'
  BY <1>1, <1>2, <1>4, <1>13, <1>14, PutKept
<1>16. TakenOnce'
  BY <1>2, OnceKept DEF VInv, Reading
<1> QED
  BY <1>7, <1>10, <1>11, <1>15, <1>16 DEF VInv

-----------------------------------------------------------------------------
(* try_pop                                                                 *)

LEMMA PopIdxV ==
  ASSUME LInv, VInv, Coprime, NEW t \in Thread, PopIdx(t), Listed' = Listed
  PROVE  VInv'
<1> PICK a : a = g(t)
  OBVIOUS
<1> PICK k : k = pop_idx[a]
  OBVIOUS
<1> PICK b : b = IF k >= max_idx THEN "o_next" ELSE "o_read"
  OBVIOUS
<1>1. /\ pc[t] = "o_idx" /\ pc' = [pc EXCEPT ![t] = b] /\ idx' = [idx EXCEPT ![t] = k]
      /\ pop_idx' = [pop_idx EXCEPT ![a] = k + step_size]
      /\ UNCHANGED <<entries, push_idx, slot, status, val, mine, deleted, pushed, popped, before, late, due>>
  BY DEF PopIdx, Goto, Set, Quiet, guards, history
<1>2. a \in Node
  BY <1>1, GuardNode DEF Outside
<1>3. Multiple(k) /\ Multiple(k + step_size) /\ k < k + step_size /\ k \in Nat /\ k + step_size \in Nat
  BY <1>2 DEF VInv, NodeOK, Multiple, step_size
<1>4. Others(t) /\ pc'[t] = b /\ idx'[t] = k /\ g(t)' = a
  BY <1>1, <1>3, OthersLocal DEF VInv, VType, g
<1>5. pop_idx'[a] = k + step_size /\ \A m \in Node \ {a} : pop_idx'[m] = pop_idx[m]
  BY <1>1, <1>2 DEF VInv, VType
<1>6. VType'
  BY <1>1, <1>3 DEF VInv, VType
<1>7. b \in {"o_next", "o_read"} /\ (b = "o_read" <=> k < max_idx)
  BY <1>3, EntriesAssumption DEF max_idx, step_size
<1>8. ASSUME NEW m \in Node, NEW i \in Place PROVE Held(m, i) => Held(m, i)'
  <2>1. ~TakenBy(t, m, i)
    BY <1>1 DEF TakenBy
  <2> QED
    BY <1>4, <2>1, HeldKept
<1>9. \A i \in Place : /\ AtIndex(a, i) \in Nat /\ Multiple(AtIndex(a, i)) /\ AtIndex(a, i) < max_idx
                       /\ place(AtIndex(a, i)) = i
  BY IndexOfPlace, EntriesAssumption DEF Index, Multiple, max_idx, step_size
<1>10. ASSUME NEW i \in Place, Ahead(a, i)
       PROVE  IF AtIndex(a, i) = k THEN TakenBy(t, a, i)' ELSE Ahead(a, i)'
  <2>1. CASE AtIndex(a, i) = k
    <3>1. k < max_idx /\ place(k) = i
      BY <1>9, <2>1
    <3> QED
      BY <1>4, <1>7, <2>1, <3>1 DEF TakenBy, place
  <2>2. CASE AtIndex(a, i) # k
    <3> PICK j : j = AtIndex(a, i)
      OBVIOUS
    <3>1. j >= k /\ j # k /\ j \in Nat /\ Multiple(j)
      BY <1>9, <1>10, <2>2 DEF Ahead
    <3>2. j >= k + step_size
      BY <1>3, <3>1, NextMultiple DEF Multiple, step_size
    <3>3. AtIndex(a, i)' = j
      BY DEF AtIndex
    <3> QED
      BY <1>5, <2>2, <3>2, <3>3 DEF Ahead
  <2> QED
    BY <2>1, <2>2
<1>11. ASSUME NEW i \in Place, TakenBy(t, a, i)' PROVE Ahead(a, i) /\ AtIndex(a, i) = k
  <2>1. b = "o_read" /\ place(k) = i
    BY <1>4, <1>7, <1>11 DEF TakenBy, place
  <2>2. k \in Index
    BY <1>3, <1>7, <2>1, EntriesAssumption DEF Index, Multiple, max_idx, step_size
  <2>3. AtIndex(a, i) = k
    BY <2>1, <2>2, IndexOfPlace
  <2> QED
    BY <1>3, <2>3 DEF Ahead
<1>12. \A m \in Node : Fresh(m)' <=> Fresh(m)
  BY <1>1, <1>4, <1>7, FreshKept
<1>13. ASSUME NEW m \in Node PROVE NodeOK(m)'
  <2>1. CASE m = a
    <3>1. NodeOK(a) /\ \A i \in Place : AtIndex(a, i)' = AtIndex(a, i)
      BY <1>2 DEF VInv, AtIndex
    <3>2. ASSUME NEW i \in Place, entries[a][i] = NoValue PROVE Ahead(a, i)' \/ Held(a, i)'
      <4>1. Ahead(a, i) \/ Held(a, i)
        BY <3>1, <3>2 DEF NodeOK
      <4>2. TakenBy(t, a, i)' => Held(a, i)'
        BY DEF Held
      <4> QED
        BY <1>2, <1>8, <1>10, <4>1, <4>2
    <3>3. ASSUME NEW i \in Place, entries[a][i] = Spoiled PROVE ~Ahead(a, i)' /\ ~Held(a, i)'
      <4>1. ~Ahead(a, i) /\ ~Held(a, i)
        BY <3>1, <3>3 DEF NodeOK
      <4>2. ~Ahead(a, i)'
        <5>1. AtIndex(a, i) < k
          BY <1>3, <1>9, <4>1 DEF Ahead
        <5>2. AtIndex(a, i) < k + step_size
          BY <1>3, <1>9, <5>1 DEF step_size
        <5>3. pop_idx'[a] = k + step_size /\ AtIndex(a, i)' = AtIndex(a, i)
          BY <1>5 DEF AtIndex
        <5> QED
          BY <1>3, <1>9, <5>2, <5>3 DEF Ahead
      <4>3. ~TakenBy(t, a, i)'
        BY <1>11, <4>1
      <4> QED
        BY <1>2, <1>4, <4>1, <4>2, <4>3, HeldBefore
    <3>4. pop_idx[a] >= max_idx => pop_idx'[a] >= max_idx
      BY <1>3, <1>5, EntriesAssumption DEF max_idx, step_size
    <3> QED
      BY <1>1, <1>3, <1>5, <1>12, <2>1, <3>1, <3>2, <3>3, <3>4 DEF NodeOK
  <2>2. CASE m # a
    <3>1. \A i \in Place : ~TakenBy(t, m, i)'
      BY <1>4, <2>2 DEF TakenBy
    <3>2. \A i \in Place : Held(m, i)' => Held(m, i)
      BY <1>4, <3>1, HeldBefore
    <3> QED
      BY <1>1, <1>5, <1>8, <1>12, <2>2, <3>2, NodeKept
  <2> QED
    BY <2>1, <2>2
<1>14. IdxOK(t)'
  <2>1. b = "o_read" => k \in Index
    BY <1>3, <1>7, EntriesAssumption DEF Index, max_idx, step_size, Multiple
  <2>2. b = "o_next" => k + step_size >= max_idx
    BY <1>3, <1>7, EntriesAssumption DEF max_idx, step_size
  <2> QED
    BY <1>1, <1>3, <1>4, <1>5, <1>7, <2>1, <2>2 DEF VInv, IdxOK, PushPC
<1>15. \A u \in Thread : IdxOK(u)'
  <2>1. \A u \in Thread : g(u) # Null => push_idx'[g(u)] >= push_idx[g(u)] /\ pop_idx'[g(u)] >= pop_idx[g(u)]
    <3>1. \A u \in Thread : g(u) # Null =>
             g(u) \in Node /\ push_idx[g(u)] \in Nat /\ pop_idx[g(u)] \in Nat
      BY GuardType DEF VInv, VType
    <3> QED
      BY <1>1, <1>3, <1>5, <3>1
  <2>2. \A u \in Thread : pc[u] = "p_link" => mine[u] \in Node \ {a}
    BY <1>1, <1>2 DEF LInv, FreshOK
  <2> QED
    BY <1>1, <1>4, <1>5, <1>6, <1>14, <2>1, <2>2, OthersIdx
<1>16. \A v \in Value : Located(v) => Located(v)'
  <2> SUFFICES ASSUME NEW v \in Value, Located(v) PROVE Located(v)'
    OBVIOUS
  <2>1. ASSUME NEW m \in Node, NEW i \in Place, InPlace(v, m, i) PROVE Located(v)'
    <3>1. CASE m # a
      BY <1>1, <1>5, <1>8, <2>1, <3>1, PlaceKept
    <3>2. CASE m = a
      <4>1. Held(m, i)' \/ (m \in Listed' /\ Ahead(m, i)')
        <5>1. TakenBy(t, a, i)' => Held(a, i)'
          BY DEF Held
        <5> QED
          BY <1>8, <1>10, <2>1, <3>2, <5>1 DEF InPlace
      <4>2. InPlace(v, m, i)'
        BY <1>1, <2>1, <4>1 DEF InPlace
      <4> QED
        BY <4>2 DEF Located
    <3> QED
      BY <3>1, <3>2
  <2>2. ~Closed
    BY <1>1, Busy
  <2> QED
    BY <1>1, <1>4, <2>1, <2>2, LocatedKept
<1>17. PutOK'
  BY <1>1, <1>4, <1>7, <1>16, PutKept
<1>18. TakenOnce'
  <2> SUFFICES ASSUME NEW u \in Thread, NEW w \in Thread, u # w, pc'[u] \in Reading, pc'[w] \in Reading,
                      g(u)' = g(w)', idx'[u] = idx'[w]
               PROVE  FALSE
    BY DEF TakenOnce, Reading
  <2>1. ASSUME NEW x \in Thread \ {t}, pc'[x] \in Reading, g(x)' = a PROVE idx'[x] # k
    <3>1. idx[x] < pop_idx[a]
      BY <1>4, <2>1 DEF Others, VInv, IdxOK, Reading
    <3>2. idx[x] \in Nat /\ idx'[x] = idx[x]
      BY <1>4 DEF VInv, VType, Others
    <3> QED
      BY <1>3, <3>1, <3>2
  <2>2. CASE u = t \/ w = t
    BY <1>4, <2>1, <2>2
  <2>3. CASE u # t /\ w # t
    BY <1>4, <2>3 DEF VInv, TakenOnce, Others
  <2> QED
    BY <2>2, <2>3
<1> QED
  BY <1>6, <1>13, <1>15, <1>17, <1>18 DEF VInv

\* _head leaves a node all of whose indexes are used up.
LEMMA PopCasV ==
  ASSUME LInv, VInv, Coprime, NEW t \in Thread, PopCas(t)
  PROVE  VInv'
<1> PICK a : a = g(t)
  OBVIOUS
<1>1. /\ pc[t] = "o_cas" /\ pc' = [pc EXCEPT ![t] = "o_retire"]
      /\ UNCHANGED <<entries, push_idx, pop_idx, slot, status, idx, val, mine, deleted, pushed, popped,
                     before, late, due>>
  BY DEF PopCas, Goto, Quiet, guards, history
<1>2. Listed' = Listed \ {a}
  BY PopCasStep
<1>3. a \in Node /\ pop_idx[a] >= max_idx
  BY <1>1, GuardNode DEF Outside, VInv, IdxOK
<1>4. Others(t) /\ pc'[t] = "o_retire"
  BY <1>1, OthersLocal
<1>5. VType'
  BY <1>1 DEF VInv, VType
<1>6. ASSUME NEW n \in Node, NEW i \in Place PROVE Held(n, i) <=> Held(n, i)'
  <2>1. ~TakenBy(t, n, i) /\ ~TakenBy(t, n, i)'
    BY <1>1, <1>4 DEF TakenBy
  <2> QED
    BY <1>4, <2>1, HeldKept, HeldBefore
<1>7. \A n \in Node : Fresh(n)' <=> Fresh(n)
  BY <1>1, <1>4, FreshKept
<1>8. ASSUME NEW n \in Node PROVE NodeOK(n)'
  BY <1>1, <1>2, <1>3, <1>6, <1>7, NodeKept
<1>9. \A u \in Thread : IdxOK(u)'
  <2>1. IdxOK(t)'
    BY <1>1, <1>4 DEF VInv, IdxOK, PushPC
  <2>2. \A u \in Thread : g(u) # Null => push_idx'[g(u)] >= push_idx[g(u)] /\ pop_idx'[g(u)] >= pop_idx[g(u)]
    <3>1. \A u \in Thread : g(u) # Null => push_idx[g(u)] \in Nat /\ pop_idx[g(u)] \in Nat
      BY GuardType DEF VInv, VType
    <3> QED
      BY <1>1, <3>1
  <2> QED
    BY <1>1, <1>4, <1>5, <2>1, <2>2, OthersIdx
<1>10. \A v \in Value : Located(v) => Located(v)'
  <2> SUFFICES ASSUME NEW v \in Value, Located(v) PROVE Located(v)'
    OBVIOUS
  <2>1. ASSUME NEW n \in Node, NEW i \in Place, InPlace(v, n, i) PROVE Located(v)'
    <3>1. CASE n # a
      BY <1>1, <1>2, <1>6, <2>1, <3>1, PlaceKept
    <3>2. CASE n = a
      <4>1. ~Ahead(a, i)
        <5>1. AtIndex(a, i) \in Nat /\ AtIndex(a, i) < max_idx /\ max_idx \in Nat
          BY IndexOfPlace, EntriesAssumption DEF Index, Multiple, max_idx, step_size
        <5>2. pop_idx[a] \in Nat
          BY <1>3 DEF VInv, VType
        <5> QED
          BY <1>3, <5>1, <5>2 DEF Ahead
      <4>2. Held(n, i)' /\ entries'[n][i] = v
        BY <1>1, <1>6, <2>1, <3>2, <4>1 DEF InPlace
      <4> QED
        BY <4>2 DEF Located, InPlace
    <3> QED
      BY <3>1, <3>2
  <2>2. ~Closed
    BY <1>1, Busy
  <2> QED
    BY <1>1, <1>4, <2>1, <2>2, LocatedKept
<1>11. PutOK'
  BY <1>1, <1>4, <1>10, PutKept
<1>12. TakenOnce'
  BY <1>4, OnceKept DEF VInv, Reading
<1> QED
  BY <1>5, <1>8, <1>9, <1>11, <1>12 DEF VInv

LEMMA PopRetireV ==
  ASSUME LInv, VInv, NEW t \in Thread, PopRetire(t), Listed' = Listed
  PROVE  VInv'
<1> PICK a : a = g(t)
  OBVIOUS
<1>1. /\ pc[t] = "o_retire" /\ pc' = [pc EXCEPT ![t] = "o_acq"]
      /\ status' = [status EXCEPT ![a] = "retired"] /\ slot' = [slot EXCEPT ![t]["n"] = Null]
      /\ UNCHANGED <<entries, push_idx, pop_idx, idx, val, mine, deleted, pushed, popped, before, late, due>>
  BY DEF PopRetire, Goto, Quiet, nodes, history
<1>2. a \in Node /\ status[a] # "free" /\ ~Fresh(a) /\ a \notin Listed
  BY <1>1, GuardNode DEF Outside, Listed, Taken
<1>3. status'[a] = "retired" /\ \A n \in Node \ {a} : status'[n] = status[n]
  BY <1>1, <1>2 DEF LInv, LType, R!RTypeOK
<1>4. Others(t) /\ pc'[t] = "o_acq"
  BY <1>1, OthersLocal
<1>5. VType'
  BY <1>1 DEF VInv, VType
<1>6. ASSUME NEW n \in Node, NEW i \in Place PROVE Held(n, i) <=> Held(n, i)'
  <2>1. ~TakenBy(t, n, i) /\ ~TakenBy(t, n, i)'
    BY <1>1, <1>4 DEF TakenBy
  <2> QED
    BY <1>4, <2>1, HeldKept, HeldBefore
<1>7. \A n \in Node : Fresh(n)' <=> Fresh(n)
  BY <1>1, <1>4, FreshKept
<1>8. ASSUME NEW n \in Node PROVE NodeOK(n)'
  BY <1>1, <1>2, <1>3, <1>6, <1>7, NodeKept
<1>9. \A u \in Thread : IdxOK(u)'
  <2>1. IdxOK(t)'
    BY <1>1, <1>4 DEF VInv, IdxOK, PushPC
  <2>2. \A u \in Thread : g(u) # Null => push_idx'[g(u)] >= push_idx[g(u)] /\ pop_idx'[g(u)] >= pop_idx[g(u)]
    <3>1. \A u \in Thread : g(u) # Null => push_idx[g(u)] \in Nat /\ pop_idx[g(u)] \in Nat
      BY GuardType DEF VInv, VType
    <3> QED
      BY <1>1, <3>1
  <2> QED
    BY <1>1, <1>4, <1>5, <2>1, <2>2, OthersIdx
<1>10. \A v \in Value : Located(v) => Located(v)'
  <2> SUFFICES ASSUME NEW v \in Value, Located(v) PROVE Located(v)'
    OBVIOUS
  <2>1. \A n \in Node : \A i \in Place : InPlace(v, n, i) => Located(v)'
    BY <1>1, <1>6, PlaceKept
  <2>2. ~Closed
    BY <1>1, Busy
  <2> QED
    BY <1>1, <1>4, <2>1, <2>2, LocatedKept
<1>11. PutOK'
  BY <1>1, <1>4, <1>10, PutKept
<1>12. TakenOnce'
  BY <1>4, OnceKept DEF VInv, Reading
<1> QED
  BY <1>5, <1>8, <1>9, <1>11, <1>12 DEF VInv

\* The entry whose index a try_pop has: nobody else has it or will be given it.
LEMMA ReadPlace ==
  ASSUME LInv, VInv, Coprime, NEW t \in Thread, pc[t] \in Reading,
         NEW a, a = g(t), NEW p, p = place(idx[t])
  PROVE  /\ a \in Node /\ p \in Place /\ status[a] # "free" /\ ~Fresh(a)
         /\ ~Ahead(a, p) /\ Held(a, p)
         /\ entries[a][p] \in Value \union {NoValue}
         /\ \A u \in Thread \ {t} : ~TakenBy(u, a, p)
<1>1. a \in Node /\ status[a] # "free" /\ ~Fresh(a)
  BY GuardNode DEF Outside, Reading
<1>2. \A u \in Thread : pc[u] \in Reading => idx[u] \in Index /\ idx[u] < pop_idx[g(u)]
  BY DEF VInv, IdxOK, Reading
<1>3. p \in Place /\ idx[t] = AtIndex(a, p)
  BY <1>2, IndexOfPlace
<1>4. ~Ahead(a, p)
  <2>1. idx[t] \in Nat /\ pop_idx[a] \in Nat /\ idx[t] < pop_idx[a]
    BY <1>1, <1>2 DEF VInv, VType
  <2>2. Ahead(a, p) <=> idx[t] >= pop_idx[a]
    BY <1>3 DEF Ahead
  <2> QED
    BY <2>1, <2>2
<1>5. Held(a, p)
  BY DEF Held, TakenBy, Reading
<1>6. entries[a][p] \in Value \union {NoValue}
  BY <1>1, <1>3, <1>5 DEF VInv, VType, NodeOK
<1>7. ASSUME NEW u \in Thread \ {t}, TakenBy(u, a, p) PROVE FALSE
  <2>1. pc[u] \in Reading /\ g(u) = a /\ place(idx[u]) = p
    BY <1>7 DEF TakenBy, Reading
  <2>2. idx[u] = AtIndex(a, p)
    BY <1>2, <2>1, IndexOfPlace
  <2> QED
    BY <1>3, <2>1, <2>2 DEF VInv, TakenOnce
<1> QED
  BY <1>1, <1>3, <1>4, <1>5, <1>6, <1>7

\* A try_pop is done with its index: it has the value, or has spoiled the entry.
LEMMA ReadEnds ==
  ASSUME LInv, VInv, Coprime, NEW t \in Thread, pc[t] \in Reading, Listed' = Listed,
         NEW a, a = g(t), NEW p, p = place(idx[t]), NEW w, w = entries[a][p],
         NEW b \in {"o_ret", "o_acq"}, pc' = [pc EXCEPT ![t] = b], w = NoValue <=> b = "o_acq",
         NEW x \in {w, Spoiled}, x # NoValue, entries' = [entries EXCEPT ![a][p] = x],
         NEW y, val' = [val EXCEPT ![t] = y], y = IF b = "o_ret" THEN w ELSE val[t],
         UNCHANGED <<push_idx, pop_idx, slot, status, idx, mine, deleted, history>>
  PROVE  VInv'
<1>1. /\ a \in Node /\ p \in Place /\ status[a] # "free" /\ ~Ahead(a, p)
      /\ w \in Value \union {NoValue} /\ \A u \in Thread \ {t} : ~TakenBy(u, a, p)
  BY ReadPlace
<1>2. UNCHANGED <<pushed, popped>> /\ ~Closed
  BY Busy DEF Reading, history
<1>3. val[t] = NoValue
  BY DEF VInv, IdxOK, Reading, PushPC
<1>4. y \in Value \union {NoValue} /\ val'[t] = y
  BY <1>1, <1>3 DEF VInv, VType
<1>5. Others(t) /\ pc'[t] = b /\ g(t)' = a /\ idx'[t] = idx[t]
  <2>1. Others(t) /\ pc'[t] = b
    BY <1>4, OthersLocal
  <2> QED
    BY <2>1 DEF g
<1>6. /\ entries'[a][p] = x /\ \A i \in Place \ {p} : entries'[a][i] = entries[a][i]
      /\ \A m \in Node \ {a} : entries'[m] = entries[m]
  BY <1>1 DEF VInv, VType
<1>7. VType'
  <2>1. x \in Value \union {NoValue, Spoiled}
    BY <1>1
  <2>2. entries' \in [Node -> [Place -> Value \union {NoValue, Spoiled}]]
    BY <1>1, <2>1 DEF VInv, VType
  <2>3. val' \in [Thread -> Value \union {NoValue}]
    BY <1>4 DEF VInv, VType
  <2> QED
    BY <1>2, <2>2, <2>3 DEF VInv, VType
<1>8. ~TakenBy(t, a, p)' /\ \A m \in Node : \A i \in Place : ~TakenBy(t, m, i)'
  BY <1>5 DEF TakenBy
<1>9. ASSUME NEW m \in Node, NEW i \in Place, m # a \/ i # p PROVE Held(m, i) <=> Held(m, i)'
  <2>1. ~TakenBy(t, m, i)
    BY <1>9 DEF TakenBy
  <2> QED
    BY <1>5, <1>8, <2>1, HeldKept, HeldBefore
<1>10. ~Held(a, p)'
  <2>1. ASSUME NEW u \in Thread, TakenBy(u, a, p)' PROVE FALSE
    <3>1. CASE u = t
      BY <1>1, <1>8, <2>1, <3>1
    <3>2. CASE u # t
      <4>1. pc'[u] = pc[u] /\ g(u)' = g(u) /\ idx'[u] = idx[u]
        BY <1>5, <3>2 DEF Others
      <4>2. TakenBy(u, a, p)
        BY <2>1, <4>1 DEF TakenBy, place
      <4> QED
        BY <1>1, <3>2, <4>2
    <3> QED
      BY <3>1, <3>2
  <2> QED
    BY <2>1 DEF Held
<1>11. \A m \in Node : Fresh(m)' <=> Fresh(m)
  BY <1>5, FreshKept DEF Reading
<1>12. ASSUME NEW m \in Node PROVE NodeOK(m)'
  <2>1. CASE m = a
    <3>1. NodeOK(a) /\ \A i \in Place : AtIndex(a, i)' = AtIndex(a, i)
      BY <1>1 DEF VInv, AtIndex
    <3>2. \A i \in Place : Ahead(a, i)' <=> Ahead(a, i)
      BY <3>1 DEF Ahead
    <3>3. ASSUME NEW i \in Place
          PROVE  /\ entries'[a][i] = NoValue => Ahead(a, i)' \/ Held(a, i)'
                 /\ entries'[a][i] \in Value => AtIndex(a, i)' < push_idx'[a]
                 /\ entries'[a][i] = Spoiled => ~Ahead(a, i)' /\ ~Held(a, i)'
      <4>1. CASE i = p
        BY <1>1, <1>6, <1>10, <3>1, <3>2, <4>1, ValueAssumption DEF NodeOK
      <4>2. CASE i # p
        BY <1>1, <1>6, <1>9, <3>1, <3>2, <4>2 DEF NodeOK
      <4> QED
        BY <4>1, <4>2
    <3>4. /\ (Multiple(push_idx[a]) /\ Multiple(pop_idx[a]))'
          /\ status'[a] # "free" /\ a \notin Listed' /\ ~Fresh(a)' => pop_idx'[a] >= max_idx
      BY <1>1, <1>11, <3>1 DEF NodeOK, Multiple
    <3> QED
      BY <1>1, <2>1, <3>3, <3>4 DEF NodeOK
  <2>2. CASE m # a
    BY <1>6, <1>9, <1>11, <2>2, NodeKept
  <2> QED
    BY <2>1, <2>2
<1>13. \A u \in Thread : IdxOK(u)'
  <2>1. IdxOK(t)'
    BY <1>3, <1>4, <1>5 DEF IdxOK, PushPC
  <2>2. \A u \in Thread : g(u) # Null => push_idx'[g(u)] >= push_idx[g(u)] /\ pop_idx'[g(u)] >= pop_idx[g(u)]
    <3>1. \A u \in Thread : g(u) # Null => push_idx[g(u)] \in Nat /\ pop_idx[g(u)] \in Nat
      BY GuardType DEF VInv, VType
    <3> QED
      BY <3>1
  <2>3. \A u \in Thread : pc[u] = "p_link" => mine[u] \in Node \ {a}
    BY DEF LInv, FreshOK
  <2> QED
    BY <1>5, <1>6, <1>7, <2>1, <2>2, <2>3, OthersIdx
<1>14. \A v \in Value : Located(v) => Located(v)'
  <2> SUFFICES ASSUME NEW v \in Value, Located(v) PROVE Located(v)'
    OBVIOUS
  <2>1. ASSUME NEW m \in Node, NEW i \in Place, InPlace(v, m, i) PROVE Located(v)'
    <3>1. CASE m = a /\ i = p
      <4>1. v = w /\ b = "o_ret" /\ y = v
        BY <2>1, <3>1, ValueAssumption DEF InPlace
      <4> QED
        BY <1>4, <1>5, <4>1 DEF Located
    <3>2. CASE m # a \/ i # p
      BY <1>6, <1>9, <2>1, <3>2, PlaceKept
    <3> QED
      BY <3>1, <3>2
  <2> QED
    BY <1>2, <1>5, <2>1, LocatedKept DEF Reading
<1>15. PutOK'
  BY <1>2, <1>5, <1>14, PutKept
<1>16. TakenOnce'
  BY <1>5, OnceKept DEF VInv, Reading
<1> QED
  BY <1>7, <1>12, <1>13, <1>15, <1>16 DEF VInv

LEMMA PopReadV ==
  ASSUME LInv, VInv, Coprime, NEW t \in Thread, Listed' = Listed,
         PopRead(t) \/ PopSpoilFinds(t) \/ PopSpoil(t)
  PROVE  VInv'
<1> PICK a : a = g(t)
  OBVIOUS
<1> PICK p : p = place(idx[t])
  OBVIOUS
<1> PICK w : w = entries[a][p]
  OBVIOUS
<1>0. Entry(t) = w /\ \A v : SetEntry(t, v) <=> entries' = [entries EXCEPT ![a][p] = v]
  BY DEF Entry, SetEntry
<1>1. pc[t] \in Reading /\ UNCHANGED <<push_idx, pop_idx, slot, status, idx, mine, deleted, history>>
  BY DEF PopRead, PopSpoilFinds, PopSpoil, PopFound, Goto, Quiet, nodes, guards, Reading
<1>2. a \in Node /\ p \in Place /\ w \in Value \union {NoValue}
  BY <1>1, ReadPlace
<1>3. CASE PopRead(t)
  <2>1. /\ w # NoValue /\ pc' = [pc EXCEPT ![t] = "o_ret"] /\ val' = [val EXCEPT ![t] = w]
        /\ entries' = entries
    BY <1>0, <1>3 DEF PopRead, PopFound, Goto, nodes
  <2> PICK x : x = w
    OBVIOUS
  <2>2. x \in {w, Spoiled} /\ x # NoValue /\ entries' = [entries EXCEPT ![a][p] = x]
    BY <1>2, <2>1 DEF VInv, VType
  <2>3. pc' = [pc EXCEPT ![t] = "o_ret"] /\ val' = [val EXCEPT ![t] = w] /\ w # NoValue
    BY <2>1
  <2> QED
    BY <1>1, <2>2, <2>3, ReadEnds
<1>4. CASE PopSpoilFinds(t)
  <2>1. /\ w # NoValue /\ pc' = [pc EXCEPT ![t] = "o_ret"] /\ val' = [val EXCEPT ![t] = w]
        /\ entries' = [entries EXCEPT ![a][p] = Spoiled]
    BY <1>0, <1>4 DEF PopSpoilFinds, PopFound, Goto
  <2> QED
    BY <1>1, <2>1, ValueAssumption, ReadEnds
<1>5. CASE PopSpoil(t)
  <2>1. /\ w = NoValue /\ pc' = [pc EXCEPT ![t] = "o_acq"] /\ val' = val
        /\ entries' = [entries EXCEPT ![a][p] = Spoiled]
    BY <1>0, <1>5 DEF PopSpoil, Goto, Quiet
  <2> PICK y : y = val[t]
    OBVIOUS
  <2>2. val' = [val EXCEPT ![t] = y]
    BY <2>1 DEF VInv, VType
  <2> QED
    BY <1>1, <2>1, <2>2, ValueAssumption, ReadEnds
<1> QED
  BY <1>3, <1>4, <1>5

\* A push or a try_pop that returns
LEMMA ReturnStep ==
  ASSUME LInv, VInv, NEW t \in Thread, Listed' = Listed,
         NEW a \in (PushPC \union PopPC) \ {"p_link"}, Finish(t, a), a \notin Reading,
         UNCHANGED <<entries, push_idx, pop_idx>>, a = "o_ret" => val[t] \in popped',
         popped \subseteq popped', pushed' \in SUBSET Value,
         \A v \in pushed' : v \in pushed \/ (v \in Value /\ Located(v))
  PROVE  VInv'
<1>1. /\ Others(t) /\ pc[t] = a /\ pc'[t] = "idle" /\ val'[t] = NoValue
      /\ idx' \in [Thread -> Nat] /\ val' \in [Thread -> Value \union {NoValue}]
      /\ UNCHANGED <<status, deleted>>
  BY FinishLocal
<1>2. VType'
  BY <1>1 DEF VInv, VType
<1>3. IdxOK(t)'
  BY <1>1 DEF IdxOK, PushPC
<1>4. ~Closed
  BY <1>1, Busy DEF PushPC, PopPC
<1> QED
  BY <1>1, <1>2, <1>3, <1>4, PlainStep DEF PushPC, PopPC, Reading

LEMMA PushV ==
  ASSUME LInv, LInv', VInv, Coprime, TailListed, NEW t \in Thread, PushStep(t)
  PROVE  VInv'
<1>0. ~PushLink(t) => Listed' = Listed
  BY PushLNext DEF ListGrows
<1>1. CASE PushLink(t)
  BY <1>1, PushLinkV
<1>2. ASSUME NEW v \in Value, Push(t, v), ~PushLink(t) PROVE VInv'
  <2>1. /\ pc[t] = "idle" /\ pc' = [pc EXCEPT ![t] = "p_acq"] /\ ~Closed
        /\ val' = [val EXCEPT ![t] = v]
        /\ UNCHANGED <<entries, push_idx, pop_idx, slot, status, idx, mine, deleted, pushed, popped>>
    BY <1>2 DEF Push, Goto, PushBegins, nodes, guards
  <2>2. /\ Others(t) /\ pc'[t] = "p_acq"
        /\ idx' \in [Thread -> Nat] /\ val' \in [Thread -> Value \union {NoValue}]
    BY <2>1, OthersLocal
  <2>3. VType'
    BY <2>1, <2>2 DEF VInv, VType
  <2>4. val'[t] = v /\ v # NoValue
    BY <2>1, ValueAssumption DEF VInv, VType
  <2>5. IdxOK(t)'
    BY <2>2, <2>4 DEF IdxOK, PushPC
  <2> QED
    BY <1>0, <1>2, <2>1, <2>2, <2>3, <2>5, PlainStep DEF Reading
<1>3. ASSUME PushAcquire(t), ~PushLink(t) PROVE VInv'
  <2>1. /\ pc[t] = "p_acq" /\ pc' = [pc EXCEPT ![t] = "p_idx"] /\ slot' = [slot EXCEPT ![t]["n"] = qtail]
        /\ UNCHANGED <<idx, val, mine, entries, push_idx, pop_idx, deleted, status>>
        /\ UNCHANGED history
    BY <1>3 DEF PushAcquire, Goto, Quiet, R!Publish, nodes
  <2> QED
    BY <1>0, <1>3, <2>1, PlainPushStep DEF PushPC
<1>4. ASSUME PushTail(t) \/ PushMustHelp(t) \/ PushHelp(t) \/ PushCasFails(t), ~PushLink(t) PROVE VInv'
  <2>1. /\ pc[t] \in PushPC \ {"p_link"}
        /\ UNCHANGED <<idx, val, mine, entries, push_idx, pop_idx, deleted, status>>
        /\ slot' = slot /\ UNCHANGED history
    BY <1>4 DEF PushTail, PushMustHelp, PushHelp, PushCasFails, Goto, Quiet, nodes, guards, PushPC
  <2>2. \E b \in {"p_next", "p_acq", "p_help"} : pc' = [pc EXCEPT ![t] = b]
    BY <1>4 DEF PushTail, PushMustHelp, PushHelp, PushCasFails, Goto
  <2> QED
    BY <1>0, <1>4, <2>1, <2>2, PlainPushStep DEF PushPC
<1>5. ASSUME PushIdx(t), ~PushLink(t) PROVE VInv'
  BY <1>0, <1>5, PushIdxV
<1>6. ASSUME NEW m \in Node, PushNew(t, m), ~PushLink(t) PROVE VInv'
  BY <1>0, <1>6, PushNewV
<1>7. ASSUME PushLinkFails(t), ~PushLink(t) PROVE VInv'
  BY <1>0, <1>7, PushLinkFailsV
<1>8. ASSUME PushSwing(t), ~PushLink(t) PROVE VInv'
  <2>1. /\ Finish(t, "p_swing") /\ pushed' = pushed \union {val[t]} /\ popped' = popped
        /\ UNCHANGED <<entries, push_idx, pop_idx>>
    BY <1>8 DEF PushSwing, PushEnds
  <2>2. pc[t] = "p_swing"
    BY <2>1, FinishLocal
  <2>3. val[t] \in Value
    BY <2>2 DEF VInv, VType, IdxOK, PushPC
  <2> PICK w : w = val[t]
    OBVIOUS
  <2>4. Located(w)
    BY <2>2, <2>3 DEF VInv, PutOK
  <2>5. pushed' \in SUBSET Value /\ \A v \in pushed' : v \in pushed \/ (v \in Value /\ Located(v))
    BY <2>1, <2>3, <2>4 DEF VInv, VType
  <2> QED
    BY <1>0, <1>8, <2>1, <2>5, ReturnStep DEF PushPC, Reading
<1>9. ASSUME PushCas(t), ~PushLink(t) PROVE VInv'
  BY <1>0, <1>9, PushCasV
<1> QED
  BY <1>1, <1>2, <1>3, <1>4, <1>5, <1>6, <1>7, <1>8, <1>9 DEF PushStep

LEMMA PopV ==
  ASSUME LInv, VInv, Coprime, NEW t \in Thread, PopStep(t)
  PROVE  VInv'
<1>0. ~PopCas(t) => Listed' = Listed
  BY PopLNext
<1>1. CASE PopCas(t)
  BY <1>1, PopCasV
<1>2. ASSUME TryPop(t), ~PopCas(t) PROVE VInv'
  <2>1. /\ pc[t] = "idle" /\ pc' = [pc EXCEPT ![t] = "o_acq"] /\ ~Closed
        /\ UNCHANGED <<entries, push_idx, pop_idx, slot, status, idx, val, mine, deleted, pushed, popped>>
    BY <1>2 DEF TryPop, Goto, PopBegins, nodes, guards
  <2>2. Others(t) /\ pc'[t] = "o_acq"
    BY <2>1, OthersLocal
  <2>3. VType'
    BY <2>1 DEF VInv, VType
  <2>4. IdxOK(t)'
    BY <2>1, <2>2 DEF VInv, IdxOK, PushPC
  <2> QED
    BY <1>0, <1>2, <2>1, <2>2, <2>3, <2>4, PlainStep DEF Reading
<1>3. ASSUME PopAcquire(t), ~PopCas(t) PROVE VInv'
  <2>1. /\ pc[t] = "o_acq" /\ pc' = [pc EXCEPT ![t] = "o_load"] /\ slot' = [slot EXCEPT ![t]["n"] = qhead]
        /\ UNCHANGED <<val, mine, entries, push_idx, pop_idx, deleted, status>> /\ idx' = idx
        /\ UNCHANGED history
    BY <1>3 DEF PopAcquire, Goto, Quiet, R!Publish, nodes
  <2> QED
    BY <1>0, <1>3, <2>1, PlainPopStep DEF PopPC
<1>4. ASSUME PopLoad(t), ~PopCas(t) PROVE VInv'
  <2> PICK k : k = pop_idx[g(t)]
    OBVIOUS
  <2>1. /\ pc[t] = "o_load" /\ pc' = [pc EXCEPT ![t] = "o_check"] /\ idx' = [idx EXCEPT ![t] = k]
        /\ UNCHANGED <<val, mine, entries, push_idx, pop_idx, deleted, status>> /\ slot' = slot
        /\ UNCHANGED history
    BY <1>4 DEF PopLoad, Goto, Quiet, Set, nodes, guards
  <2>2. k \in Nat
    BY <2>1, GuardNode DEF VInv, VType, Outside
  <2> QED
    BY <1>0, <1>4, <2>1, <2>2, PlainPopStep DEF PopPC
<1>5. ASSUME PopCheck(t) \/ PopNotEmpty(t) \/ PopNext(t) \/ PopCasFails(t) \/ PopGiveUp(t), ~PopCas(t)
      PROVE  VInv'
  <2>1. /\ UNCHANGED <<val, mine, entries, push_idx, pop_idx, deleted, status>> /\ idx' = idx
        /\ slot' = slot /\ UNCHANGED history
    BY <1>5 DEF PopCheck, PopNotEmpty, PopNext, PopCasFails, PopGiveUp, Quiet, nodes, guards
  <2>2. \/ pc[t] \in {"o_check", "o_empty", "o_cas"}
           /\ \E b \in {"o_empty", "o_idx", "o_acq"} : pc' = [pc EXCEPT ![t] = b]
        \/ pc[t] = "o_next" /\ pc' = [pc EXCEPT ![t] = "o_cas"]
        \/ pc[t] = "o_read" /\ pc' = [pc EXCEPT ![t] = "o_spoil"]
    BY <1>5 DEF PopCheck, PopNotEmpty, PopNext, PopCasFails, PopGiveUp, Goto
  <2> QED
    BY <1>0, <1>5, <2>1, <2>2, PlainPopStep DEF PopPC
<1>6. ASSUME PopEmpty(t, "o_empty") \/ PopEmpty(t, "o_next") \/ PopReturn(t), ~PopCas(t) PROVE VInv'
  <2>1. PICK a \in {"o_empty", "o_next", "o_ret"} :
           /\ Finish(t, a) /\ pushed' = pushed /\ UNCHANGED <<entries, push_idx, pop_idx>>
           /\ popped \subseteq popped' /\ (a = "o_ret" => val[t] \in popped')
    BY <1>6 DEF PopEmpty, PopReturn, PopEnds, nodes
  <2> QED
    BY <1>0, <1>6, <2>1, ReturnStep DEF PopPC, Reading, VInv, VType
<1>7. ASSUME PopIdx(t), ~PopCas(t) PROVE VInv'
  BY <1>0, <1>7, PopIdxV
<1>8. ASSUME PopRetire(t), ~PopCas(t) PROVE VInv'
  BY <1>0, <1>8, PopRetireV
<1>9. ASSUME PopRead(t) \/ PopSpoilFinds(t) \/ PopSpoil(t), ~PopCas(t) PROVE VInv'
  BY <1>0, <1>9, PopReadV
<1> QED
  BY <1>1, <1>2, <1>3, <1>4, <1>5, <1>6, <1>7, <1>8, <1>9 DEF PopStep

-----------------------------------------------------------------------------
(* The destructors                                                         *)

\* ~node meets every value whose index no try_pop has been given.
LEMMA DeletesRemaining ==
  ASSUME VInv, Coprime, NEW m \in Node, DeleteRemaining(m)
  PROVE  /\ deleted' \in [Value -> Nat]
         /\ \A v \in Value : deleted[v] > 0 => deleted'[v] > 0
         /\ \A v \in Value : \A i \in Place : entries[m][i] = v /\ Ahead(m, i) => deleted'[v] > 0
<1> DEFINE Met(v) == {i \in pop_idx[m]..(push_idx[m] - 1) :
                         (i - pop_idx[m]) % step_size = 0 /\ entries[m][place(i)] = v}
<1>0. pop_idx[m] \in Nat /\ push_idx[m] \in Nat /\ Multiple(pop_idx[m]) /\ deleted \in [Value -> Nat]
  BY DEF VInv, VType, NodeOK
<1>1. deleted' = [v \in Value |-> deleted[v] + Cardinality(Met(v))]
  BY DEF DeleteRemaining
<1>2. ASSUME NEW v \in Value
      PROVE  /\ Cardinality(Met(v)) \in Nat /\ (Met(v) # {} => Cardinality(Met(v)) > 0)
  <2> PICK a, b : a = pop_idx[m] /\ b = push_idx[m] - 1
    OBVIOUS
  <2>0. a \in Int /\ b \in Int
    BY <1>0
  <2>1. IsFiniteSet(a..b)
    BY <2>0, FS_Interval
  <2>2. IsFiniteSet(Met(v))
    BY <2>1, FS_Subset
  <2> HIDE DEF Met
  <2> QED
    BY <2>2, FS_CardinalityType, FS_EmptySet
<1>3. ASSUME NEW v \in Value, NEW i \in Place, entries[m][i] = v, Ahead(m, i) PROVE Met(v) # {}
  <2> PICK k : k = AtIndex(m, i)
    OBVIOUS
  <2>1. k \in Nat /\ k % 11 = 0 /\ place(k) = i
    BY IndexOfPlace DEF Index, Multiple, step_size
  <2>2. k >= pop_idx[m] /\ k < push_idx[m]
    BY <1>3 DEF Ahead, VInv, NodeOK
  <2>3. (k - pop_idx[m]) % 11 = 0
    BY <1>0, <2>1, <2>2, MultipleDifference DEF Multiple, step_size
  <2>4. k \in pop_idx[m]..(push_idx[m] - 1)
    BY <1>0, <2>1, <2>2
  <2>5. entries[m][place(k)] = v
    BY <1>3, <2>1
  <2> QED
    BY <2>3, <2>4, <2>5 DEF step_size
<1> HIDE DEF Met
<1>4. \A v \in Value : deleted'[v] = deleted[v] + Cardinality(Met(v)) /\ deleted[v] \in Nat
  BY <1>0, <1>1
<1>5. deleted' \in [Value -> Nat]
  <2>1. \A v \in Value : deleted[v] + Cardinality(Met(v)) \in Nat
    BY <1>2, <1>4
  <2> QED
    BY <1>1, <2>1
<1>6. ASSUME NEW v \in Value
      PROVE  /\ deleted[v] > 0 => deleted'[v] > 0
             /\ Met(v) # {} => deleted'[v] > 0
  BY <1>2, <1>4
<1> QED
  BY <1>3, <1>5, <1>6

\* A node is deleted that no thread has a guard on: one that has left the list,
\* or the first one of a queue that is destroyed.
LEMMA DeleteStep ==
  ASSUME LInv, VInv, Coprime, NEW m \in Node, DeleteNode(m), pc' = pc, Listed' = Listed \ {m},
         \A u \in Thread : g(u) # m, ~Fresh(m), m \in Listed => Closed
  PROVE  VInv'
<1>1. /\ entries' = [entries EXCEPT ![m] = [i \in Place |-> NoValue]]
      /\ push_idx' = [push_idx EXCEPT ![m] = 0] /\ pop_idx' = [pop_idx EXCEPT ![m] = 0]
      /\ status' = [status EXCEPT ![m] = "free"] /\ DeleteRemaining(m)
      /\ UNCHANGED <<slot, idx, val, mine, pushed, popped>>
  BY DEF DeleteNode, history
<1>2. /\ deleted' \in [Value -> Nat]
      /\ \A v \in Value : deleted[v] > 0 => deleted'[v] > 0
      /\ \A v \in Value : \A i \in Place : entries[m][i] = v /\ Ahead(m, i) => deleted'[v] > 0
  BY <1>1, DeletesRemaining
<1>3. VType'
  <2>1. [i \in Place |-> NoValue] \in [Place -> Value \union {NoValue, Spoiled}]
    OBVIOUS
  <2> QED
    BY <1>1, <1>2, <2>1 DEF VInv, VType
<1>4. /\ push_idx'[m] = 0 /\ pop_idx'[m] = 0 /\ status'[m] = "free"
      /\ entries'[m] = [i \in Place |-> NoValue]
      /\ \A n \in Node \ {m} : /\ push_idx'[n] = push_idx[n] /\ pop_idx'[n] = pop_idx[n]
                               /\ entries'[n] = entries[n] /\ status'[n] = status[n]
  BY <1>1 DEF VInv, VType, LInv, LType, R!RTypeOK
<1>5. (\A u \in Thread : g(u)' = g(u)) /\ (Closed => Closed')
  BY <1>1 DEF g, Closed
<1>6. \A n \in Node : \A i \in Place : Held(n, i) <=> Held(n, i)'
  BY <1>1, <1>5 DEF Held, TakenBy, place
<1>7. \A n \in Node : Fresh(n)' <=> Fresh(n)
  BY <1>1 DEF Fresh
<1>8. ASSUME NEW n \in Node PROVE NodeOK(n)'
  <2>1. CASE n = m
    <3>1. Multiple(0)
      BY DEF Multiple, step_size
    <3>2. \A i \in Place : AtIndex(m, i) >= 0
      BY IndexOfPlace DEF Index, Multiple
    <3>3. \A i \in Place : AtIndex(m, i)' = AtIndex(m, i)
      BY DEF AtIndex
    <3> QED
      BY <1>4, <2>1, <3>1, <3>2, <3>3, ValueAssumption DEF NodeOK, Ahead
  <2>2. CASE n # m
    BY <1>4, <1>6, <1>7, <2>2, NodeKept
  <2> QED
    BY <2>1, <2>2
<1>9. ASSUME NEW u \in Thread PROVE IdxOK(u)'
  <2> PICK a : a = g(u)
    OBVIOUS
  <2>1. IdxOK(u) /\ g(u)' = a /\ pc'[u] = pc[u] /\ idx'[u] = idx[u] /\ val'[u] = val[u]
    BY <1>1, <1>5 DEF VInv
  <2>2. pc[u] \notin Outside => a \in Node /\ push_idx'[a] = push_idx[a] /\ pop_idx'[a] = pop_idx[a]
    BY <1>4, GuardNode
  <2>3. pc[u] = "p_link" => /\ mine'[u] = mine[u] /\ entries'[mine[u]] = entries[mine[u]]
                            /\ push_idx'[mine[u]] = push_idx[mine[u]] /\ pop_idx'[mine[u]] = pop_idx[mine[u]]
    BY <1>1, <1>4 DEF Fresh, LInv, FreshOK
  <2> QED
    BY <2>1, <2>2, <2>3 DEF IdxOK, Outside
<1>10. ASSUME NEW v \in Value, Located(v) PROVE Located(v)'
  <2>1. ASSUME NEW n \in Node, NEW i \in Place, InPlace(v, n, i) PROVE Located(v)'
    <3>1. CASE n = m
      <4>1. ~Held(m, i)
        BY DEF Held, TakenBy
      <4>2. Closed' /\ deleted'[v] > 0
        BY <1>2, <1>5, <2>1, <3>1, <4>1 DEF InPlace
      <4> QED
        BY <4>2 DEF Located
    <3>2. CASE n # m
      BY <1>4, <1>6, <2>1, <3>2, PlaceKept
    <3> QED
      BY <3>1, <3>2
  <2>2. v \in popped => v \in popped'
    BY <1>1
  <2>3. Closed /\ deleted[v] > 0 => Closed' /\ deleted'[v] > 0
    BY <1>2, <1>5
  <2>4. (\E t \in Thread : pc[t] = "o_ret" /\ val[t] = v) => \E t \in Thread : pc'[t] = "o_ret" /\ val'[t] = v
    BY <1>1
  <2> QED
    BY <1>10, <2>1, <2>2, <2>3, <2>4 DEF Located
<1>11. PutOK'
  BY <1>1, <1>10 DEF VInv, VType, PutOK
<1>12. TakenOnce'
  BY <1>1, <1>5 DEF VInv, TakenOnce
<1> QED
  BY <1>3, <1>8, <1>9, <1>11, <1>12 DEF VInv

LEMMA ReclaimV ==
  ASSUME LInv, VInv, Coprime, NEW m \in Node, ReclaimNode(m)
  PROVE  VInv'
<1>1. status[m] = "retired" /\ DeleteNode(m) /\ pc' = pc
  BY DEF ReclaimNode, R!Reclaim
<1>2. Listed' = Listed /\ \A u \in Thread : g(u) # m
  BY ReclaimStep
<1>3. ~Fresh(m) /\ m \notin Listed
  BY <1>1 DEF LInv, FreshOK, Fresh, Listed
<1> QED
  BY <1>1, <1>2, <1>3, DeleteStep

LEMMA DestroyNodeV ==
  ASSUME LInv, VInv, ChainOK, Coprime, NEW t \in Thread, DestroyNode(t)
  PROVE  VInv'
<1> PICK m : m = qhead
  OBVIOUS
<1>1. pc[t] = "destroy" /\ m # Null /\ DeleteNode(m) /\ pc' = pc
  BY DEF DestroyNode
<1>2. Listed' = Listed \ {m} /\ m \in Listed
  BY <1>1, DestroyNodeStep DEF ChainOK
<1>3. Closed /\ \A u \in Thread : pc[u] \in {"idle", "destroy"}
  BY <1>1 DEF LInv, Closed
<1>4. ~Fresh(m) /\ m \in Node /\ \A u \in Thread : g(u) # m
  BY <1>1, <1>2, <1>3 DEF Fresh, Listed, LInv, GuardOK
<1> QED
  BY <1>1, <1>2, <1>3, <1>4, DeleteStep

LEMMA DestroyV ==
  ASSUME LInv, VInv, NEW t \in Thread, Destroy(t)
  PROVE  VInv'
<1>1. /\ pc[t] = "idle" /\ pc' = [pc EXCEPT ![t] = "destroy"]
      /\ UNCHANGED <<entries, push_idx, pop_idx, slot, status, idx, val, mine, deleted, pushed, popped>>
  BY DEF Destroy, Goto, Quiet, nodes, guards, history
<1>2. Others(t) /\ pc'[t] = "destroy" /\ (Closed => Closed')
  <2>1. Others(t) /\ pc'[t] = "destroy"
    BY <1>1, OthersLocal
  <2> QED
    BY <2>1 DEF Closed
<1>3. VType'
  BY <1>1 DEF VInv, VType
<1>4. IdxOK(t)'
  BY <1>1, <1>2 DEF VInv, IdxOK, PushPC
<1> QED
  BY <1>1, <1>2, <1>3, <1>4, DestroyStep, PlainStep DEF Reading

LEMMA NextV ==
  ASSUME Coprime
  PROVE  LInv /\ TailListed /\ ChainOK /\ VInv /\ [Next]_vars => VInv'
<1> SUFFICES ASSUME LInv, TailListed, ChainOK, VInv, [Next]_vars PROVE VInv'
  OBVIOUS
<1>0. LInv'
  BY NextL
<1>1. ASSUME NEW t \in Thread, PushStep(t) PROVE VInv'
  BY <1>0, <1>1, PushV
<1>2. ASSUME NEW t \in Thread, PopStep(t) PROVE VInv'
  BY <1>2, PopV
<1>3. ASSUME NEW t \in Thread, Destroy(t) PROVE VInv'
  BY <1>3, DestroyV
<1>4. ASSUME NEW t \in Thread, DestroyNode(t) PROVE VInv'
  BY <1>4, DestroyNodeV
<1>5. ASSUME NEW m \in Node, ReclaimNode(m) PROVE VInv'
  BY <1>5, ReclaimV
<1>6. CASE UNCHANGED vars
  <2>1. /\ UNCHANGED <<entries, push_idx, pop_idx, status, slot, pc, idx, val, mine, deleted, pushed, popped>>
    BY <1>6 DEF vars, nodes, guards, history
  <2>2. \A u \in Thread : g(u)' = g(u)
    BY <2>1 DEF g
  <2>3. /\ \A m \in Node : \A i \in Place : (Ahead(m, i)' <=> Ahead(m, i)) /\ AtIndex(m, i)' = AtIndex(m, i)
        /\ \A m \in Node : \A i \in Place : Held(m, i)' <=> Held(m, i)
    BY <2>1, <2>2 DEF Ahead, AtIndex, Held, TakenBy, place
  <2>4. Listed' = Listed /\ (Closed' <=> Closed) /\ \A m \in Node : Fresh(m)' <=> Fresh(m)
    BY <2>1, <2>2 DEF Listed, Fresh, Taken, Closed
  <2>5. VType' /\ TakenOnce'
    BY <2>1, <2>2 DEF VInv, VType, TakenOnce
  <2>6. \A m \in Node : NodeOK(m)'
    BY <2>1, <2>3, <2>4 DEF VInv, NodeOK, Multiple
  <2>7. \A u \in Thread : IdxOK(u)'
    BY <2>1, <2>2 DEF VInv, IdxOK
  <2>8. \A v : Located(v)' <=> Located(v)
    BY <2>1, <2>3, <2>4 DEF Located, InPlace
  <2>9. PutOK'
    BY <2>1, <2>8 DEF VInv, PutOK
  <2> QED
    BY <2>5, <2>6, <2>7, <2>9 DEF VInv
<1> QED
  BY <1>1, <1>2, <1>3, <1>4, <1>5, <1>6 DEF Next

-----------------------------------------------------------------------------
(* The theorems                                                            *)

LEMMA VInvLost == ChainOK /\ VInv => NothingLost
<1> SUFFICES ASSUME ChainOK, VInv, NEW v \in pushed \ popped
             PROVE  \/ Closed /\ deleted[v] > 0
                    \/ \E t \in Thread : val[t] = v
                    \/ \E m \in Node, i \in Place :
                          /\ entries[m][i] = v
                          /\ \/ \E t \in Thread : TakenBy(t, m, i)
                             \/ m \in Chain /\ AtIndex(m, i) >= pop_idx[m]
  BY DEF NothingLost
<1>1. Located(v) /\ Chain = Listed
  BY ChainIsListed DEF VInv, PutOK
<1> QED
  BY <1>1 DEF Located, InPlace, Held, Ahead

\* Nothing is lost, as long as a push acquires _tail while its node is in the
\* list and step_size does not divide entries_per_node.
THEOREM NothingLostInList ==
  ASSUME Coprime
  PROVE  Spec /\ []TailListed => []NothingLost
<1>1. Init => LInv /\ ChainOK /\ VInv
  BY InitLInv, InitC, InitV
<1>2. LInv /\ ChainOK /\ VInv /\ TailListed /\ [Next]_vars => (LInv /\ ChainOK /\ VInv)'
  BY NextL, NextC, NextV
<1>3. ChainOK /\ VInv => NothingLost
  BY VInvLost
<1> QED
  BY <1>1, <1>2, <1>3, PTL DEF Spec

\* With one thread that pushes beside try_pop, nothing is lost: what a push has
\* put into the queue a try_pop finds there, or ~ramalhete_queue deletes.
THEOREM NothingIsLost ==
  ASSUME NEW p, LateIs(p), Coprime
  PROVE  Spec => []NothingLost
<1>1. Init => LInv /\ TInv(p) /\ ChainOK /\ VInv
  BY InitLInv, InitTInv, InitC, InitV
<1>2. LInv /\ TInv(p) /\ ChainOK /\ VInv /\ [Next]_vars => (LInv /\ TInv(p) /\ ChainOK /\ VInv)'
  BY TailListedHolds, NextL, NextT, NextC, NextV
<1>3. ChainOK /\ VInv => NothingLost
  BY VInvLost
<1> QED
  BY <1>1, <1>2, <1>3, PTL DEF Spec

-----------------------------------------------------------------------------
(* The answer that the queue is empty: the invariant                       *)

\* v is in an entry whose index no try_pop has been given yet.
Waiting(v, m, i) == entries[m][i] = v /\ m \in Listed /\ Ahead(m, i)

\* No value comes into the queue twice.
CallsOK ==
    /\ due \in [Thread -> SUBSET pushed]
    /\ \A t \in Thread : pc[t] \in PushPC => val[t] \notin pushed
    /\ \A t, u \in Thread : pc[t] \in PushPC /\ pc[u] \in PushPC /\ val[t] = val[u] => t = u

\* The node of a try_pop is the first one, or not in the list.  When it has found
\* as many indexes given to try_pop as to push, nothing that it must not miss is
\* in that node.
PopOK(t) ==
    /\ pc[t] \in PopPC \ {"o_acq"} => g(t) \notin Listed \ {qhead}
    /\ pc[t] = "o_check" => idx[t] <= pop_idx[g(t)]
    /\ pc[t] = "o_empty" => \A v \in due[t] : \A i \in Place : ~Waiting(v, g(t), i)

EInv == ~Closed => CallsOK /\ \A t \in Thread : PopOK(t)

\* What a step may never do: let a value wait again
WaitsBack == \A v \in pushed : \A m \in Node : \A i \in Place : Waiting(v, m, i)' => Waiting(v, m, i)

-----------------------------------------------------------------------------
(* The answer that the queue is empty: the steps                           *)

LEMMA InitE == Init => EInv
<1> SUFFICES ASSUME Init PROVE EInv
  OBVIOUS
<1>1. /\ pc = [t \in Thread |-> "idle"] /\ due = [t \in Thread |-> {}] /\ pushed = {}
  BY DEF Init, HistoryInit
<1> QED
  BY <1>1 DEF EInv, CallsOK, PopOK, PushPC, PopPC

LEMMA WaitsKept ==
  ASSUME VInv, VType', Coprime,
         \A m \in Node : \A i \in Place : entries'[m][i] \in pushed =>
            /\ entries'[m][i] = entries[m][i] /\ pop_idx'[m] >= pop_idx[m]
            /\ m \in Listed' => m \in Listed
  PROVE  WaitsBack
<1> SUFFICES ASSUME NEW v \in pushed, NEW m \in Node, NEW i \in Place, Waiting(v, m, i)'
             PROVE  Waiting(v, m, i)
  BY DEF WaitsBack
<1>1. entries'[m][i] = v /\ m \in Listed' /\ AtIndex(m, i)' >= pop_idx'[m]
  BY DEF Waiting, Ahead
<1>2. entries[m][i] = v /\ m \in Listed /\ pop_idx'[m] >= pop_idx[m]
  BY <1>1
<1>3. AtIndex(m, i)' = AtIndex(m, i)
  BY DEF AtIndex
<1>4. AtIndex(m, i) \in Nat /\ pop_idx[m] \in Nat /\ pop_idx'[m] \in Nat
  BY IndexOfPlace DEF Index, Multiple, VInv, VType
<1>5. AtIndex(m, i) >= pop_idx[m]
  BY <1>1, <1>2, <1>3, <1>4
<1> QED
  BY <1>2, <1>5 DEF Waiting, Ahead

\* A step of a push or a try_pop is one of its thread alone.
LEMMA StepOthers ==
  ASSUME LInv, VInv, NEW t \in Thread, PushStep(t) \/ PopStep(t)
  PROVE  Others(t)
<1> SUFFICES ASSUME NEW u \in Thread \ {t}
             PROVE  /\ pc'[u] = pc[u] /\ g(u)' = g(u) /\ idx'[u] = idx[u]
                    /\ val'[u] = val[u] /\ mine'[u] = mine[u]
  BY DEF Others
<1>0. /\ pc \in [Thread -> PC] /\ idx \in [Thread -> Nat] /\ val \in [Thread -> Value \union {NoValue}]
      /\ mine \in [Thread -> Node \union {Null}] /\ slot \in [Thread -> [{"n"} -> Node \union {Null}]]
  BY DEF LInv, LType, R!RTypeOK, VInv, VType
<1>1. CASE \E a, b : /\ Goto(t, a, b) /\ UNCHANGED <<slot, mine>>
                     /\ idx' = idx \/ \E k : idx' = [idx EXCEPT ![t] = k]
                     /\ val' = val \/ \E v : val' = [val EXCEPT ![t] = v]
  BY <1>0, <1>1 DEF Goto, g
<1>2. CASE \E a, b : /\ Goto(t, a, b) /\ UNCHANGED <<idx, val>>
                     /\ mine' = mine \/ \E m : mine' = [mine EXCEPT ![t] = m]
                     /\ slot' = slot \/ \E n : slot' = [slot EXCEPT ![t]["n"] = n]
  BY <1>0, <1>2 DEF Goto, g
<1>3. CASE \E a : Finish(t, a)
  BY <1>3, FinishLocal DEF Others
<1>4. CASE \/ (\E v \in Value : Push(t, v)) \/ PushIdx(t) \/ PushTail(t) \/ PushMustHelp(t) \/ PushHelp(t)
           \/ PushLink(t) \/ PushCasFails(t)
  <2>1. \E a, b : Goto(t, a, b) /\ UNCHANGED <<slot, mine>>
    BY <1>4 DEF Push, PushIdx, PushTail, PushMustHelp, PushHelp, PushLink, PushCasFails, Quiet, guards
  <2>2. idx' = idx \/ \E k : idx' = [idx EXCEPT ![t] = k]
    BY <1>4 DEF Push, PushIdx, PushTail, PushMustHelp, PushHelp, PushLink, PushCasFails, Set
  <2>3. val' = val \/ \E v : val' = [val EXCEPT ![t] = v]
    BY <1>4 DEF Push, PushIdx, PushTail, PushMustHelp, PushHelp, PushLink, PushCasFails, Quiet
  <2> QED
    BY <1>1, <2>1, <2>2, <2>3
<1>5. CASE PushAcquire(t) \/ (\E m \in Node : PushNew(t, m)) \/ PushLinkFails(t)
  <2>1. (\E a, b : Goto(t, a, b)) /\ UNCHANGED <<idx, val>>
    BY <1>5 DEF PushAcquire, PushNew, PushLinkFails, Quiet
  <2>2. mine' = mine \/ \E m : mine' = [mine EXCEPT ![t] = m]
    BY <1>5 DEF PushAcquire, PushNew, PushLinkFails, Quiet
  <2>3. slot' = slot \/ \E n : slot' = [slot EXCEPT ![t]["n"] = n]
    BY <1>5 DEF PushAcquire, PushNew, PushLinkFails, R!Publish
  <2> QED
    BY <1>2, <2>1, <2>2, <2>3
<1>6. CASE \/ PushSwing(t) \/ PushCas(t)
           \/ PopEmpty(t, "o_empty") \/ PopEmpty(t, "o_next") \/ PopReturn(t)
  BY <1>3, <1>6 DEF PushSwing, PushCas, PopEmpty, PopReturn
<1>7. CASE \/ TryPop(t) \/ PopLoad(t) \/ PopCheck(t) \/ PopNotEmpty(t) \/ PopIdx(t) \/ PopNext(t)
           \/ PopCas(t) \/ PopCasFails(t) \/ PopRead(t) \/ PopGiveUp(t) \/ PopSpoilFinds(t) \/ PopSpoil(t)
  <2>1. \E a, b : Goto(t, a, b) /\ UNCHANGED <<slot, mine>>
    BY <1>7 DEF TryPop, PopLoad, PopCheck, PopNotEmpty, PopIdx, PopNext, PopCas, PopCasFails, PopRead,
                PopGiveUp, PopSpoilFinds, PopSpoil, PopFound, Quiet, guards
  <2>2. idx' = idx \/ \E k : idx' = [idx EXCEPT ![t] = k]
    BY <1>7 DEF TryPop, PopLoad, PopCheck, PopNotEmpty, PopIdx, PopNext, PopCas, PopCasFails, PopRead,
                PopGiveUp, PopSpoilFinds, PopSpoil, PopFound, Set
  <2>3. val' = val \/ \E v : val' = [val EXCEPT ![t] = v]
    BY <1>7 DEF TryPop, PopLoad, PopCheck, PopNotEmpty, PopIdx, PopNext, PopCas, PopCasFails, PopRead,
                PopGiveUp, PopSpoilFinds, PopSpoil, PopFound, Quiet
  <2> QED
    BY <1>1, <2>1, <2>2, <2>3
<1>8. CASE PopAcquire(t) \/ PopRetire(t)
  <2>1. (\E a, b : Goto(t, a, b)) /\ UNCHANGED <<idx, val, mine>>
    BY <1>8 DEF PopAcquire, PopRetire, Quiet
  <2>2. \E n : slot' = [slot EXCEPT ![t]["n"] = n]
    BY <1>8 DEF PopAcquire, PopRetire, R!Publish
  <2> QED
    BY <1>2, <2>1, <2>2
<1> QED
  BY <1>4, <1>5, <1>6, <1>7, <1>8 DEF PushStep, PopStep

\* The entries that a push changes get its value, which is not in the queue yet;
\* those that a try_pop changes lose theirs.
LEMMA PushWaits ==
  ASSUME LInv, VInv, VType', EInv, ~Closed, Coprime, TailListed, NEW t \in Thread, PushStep(t)
  PROVE  /\ WaitsBack /\ UNCHANGED qhead
         /\ \A u \in Thread \ {t} : g(u) # Null => pop_idx'[g(u)] = pop_idx[g(u)]
<1>0. /\ ListGrows(t) /\ NoValue \notin pushed /\ (pc[t] \in PushPC => val[t] \notin pushed)
      /\ \A m \in Node : pop_idx[m] \in Nat /\ pop_idx[m] >= pop_idx[m]
  BY PushLNext, ValueAssumption DEF EInv, CallsOK, VInv, VType
<1>1. CASE \/ (\E v \in Value : Push(t, v)) \/ PushAcquire(t) \/ PushIdx(t) \/ PushTail(t) \/ PushMustHelp(t)
           \/ PushHelp(t) \/ PushCasFails(t) \/ PushSwing(t)
  <2>1. UNCHANGED <<entries, pop_idx, qhead>>
    BY <1>1 DEF Push, PushAcquire, PushIdx, PushTail, PushMustHelp, PushHelp, PushCasFails, PushSwing, nodes
  <2>2. ~PushLink(t)
    BY <1>1 DEF Push, PushAcquire, PushIdx, PushTail, PushMustHelp, PushHelp, PushCasFails, PushSwing, PushLink,
                Finish, Goto
  <2>3. Listed' = Listed
    BY <1>0, <2>2 DEF ListGrows
  <2> QED
    BY <1>0, <2>1, <2>3, WaitsKept
<1>2. CASE \E m \in Node : PushNew(t, m)
  <2> PICK m \in Node : PushNew(t, m)
    BY <1>2
  <2> PICK w : w = val[t]
    OBVIOUS
  <2>1. /\ pc[t] = "p_next" /\ status[m] = "free"
        /\ entries' = [entries EXCEPT ![m] = [i \in Place |-> IF i = 0 THEN w ELSE NoValue]]
        /\ pop_idx' = [pop_idx EXCEPT ![m] = 0] /\ UNCHANGED qhead
    BY DEF PushNew, Goto, R!Allocate
  <2>2. Listed' = Listed
    BY <1>0, <2>1 DEF ListGrows, PushLink, Goto
  <2>3. w \notin pushed
    BY <1>0, <2>1 DEF PushPC
  <2>4. \A i \in Place : entries'[m][i] \notin pushed
    BY <1>0, <2>1, <2>3 DEF VInv, VType
  <2>5. \A n \in Node \ {m} : entries'[n] = entries[n] /\ pop_idx'[n] = pop_idx[n]
    BY <2>1 DEF VInv, VType
  <2>6. \A u \in Thread : g(u) # Null => g(u) \in Node \ {m}
    BY <2>1, GuardType
  <2> QED
    BY <1>0, <2>1, <2>2, <2>4, <2>5, <2>6, WaitsKept
<1>3. CASE PushLink(t)
  <2> PICK m : m = mine[t]
    OBVIOUS
  <2>1. pc[t] = "p_link" /\ UNCHANGED <<entries, pop_idx, qhead>>
    BY <1>3 DEF PushLink, Goto
  <2>2. /\ m \in Node /\ entries[m] = [i \in Place |-> IF i = 0 THEN val[t] ELSE NoValue]
    BY <2>1 DEF LInv, FreshOK, VInv, IdxOK
  <2>3. \A i \in Place : entries[m][i] \notin pushed
    BY <1>0, <2>1, <2>2 DEF PushPC
  <2>4. \A n \in Node \ {m} : n \in Listed' => n \in Listed
    BY <1>0 DEF ListGrows
  <2> QED
    BY <1>0, <2>1, <2>3, <2>4, WaitsKept
<1>4. CASE PushLinkFails(t)
  <2> PICK m : m = mine[t]
    OBVIOUS
  <2>1. /\ pc[t] = "p_link" /\ UNCHANGED <<pop_idx, qhead>> /\ next[g(t)] # Null
        /\ entries' = [entries EXCEPT ![m] = [i \in Place |-> NoValue]]
    BY <1>4 DEF PushLinkFails, Goto
  <2>2. Listed' = Listed
    BY <1>0, <2>1 DEF ListGrows, PushLink
  <2>3. \A n \in Node \ {m} : entries'[n] = entries[n]
    BY <2>1 DEF VInv, VType
  <2>4. \A i \in Place : m \in Node => entries'[m][i] \notin pushed
    BY <1>0, <2>1 DEF VInv, VType
  <2> QED
    BY <1>0, <2>1, <2>2, <2>3, <2>4, WaitsKept
<1>5. CASE PushCas(t)
  <2> PICK a : a = g(t)
    OBVIOUS
  <2> PICK k : k = place(idx[t])
    OBVIOUS
  <2> PICK w : w = val[t]
    OBVIOUS
  <2>1. /\ pc[t] = "p_cas" /\ UNCHANGED <<pop_idx, qhead>>
        /\ entries' = [entries EXCEPT ![a][k] = w]
    BY <1>5 DEF PushCas, Finish, Goto, SetEntry
  <2>2. Listed' = Listed
    BY <1>0, <2>1 DEF ListGrows, PushLink, Goto
  <2>3. w \notin pushed
    BY <1>0, <2>1 DEF PushPC
  <2>4. \A n \in Node : \A i \in Place : entries'[n][i] = entries[n][i] \/ entries'[n][i] = w
    BY <2>1 DEF VInv, VType
  <2> QED
    BY <1>0, <2>1, <2>2, <2>3, <2>4, WaitsKept
<1> QED
  BY <1>1, <1>2, <1>3, <1>4, <1>5 DEF PushStep

LEMMA PopWaits ==
  ASSUME LInv, VInv, VType', Coprime, NEW t \in Thread, PopStep(t)
  PROVE  /\ WaitsBack /\ \A m \in Node : pop_idx'[m] >= pop_idx[m]
         /\ Listed' \subseteq Listed
<1>0. /\ Spoiled \notin pushed /\ Listed' \subseteq Listed
      /\ \A m \in Node : pop_idx[m] \in Nat /\ pop_idx[m] >= pop_idx[m]
  <2>1. Listed' \subseteq Listed
    BY PopLNext, PopCasStep
  <2> QED
    BY <2>1, ValueAssumption DEF VInv, VType
<1>1. CASE PopIdx(t)
  <2> PICK a, k : a = g(t) /\ k = pop_idx[a]
    OBVIOUS
  <2>1. pc[t] = "o_idx" /\ UNCHANGED entries /\ pop_idx' = [pop_idx EXCEPT ![a] = k + step_size]
    BY <1>1 DEF PopIdx, Goto
  <2>2. a \in Node
    BY <2>1, GuardNode DEF Outside
  <2>3. \A m \in Node : pop_idx'[m] >= pop_idx[m]
    BY <1>0, <2>1, <2>2 DEF VInv, VType, step_size
  <2> QED
    BY <1>0, <2>1, <2>3, WaitsKept
<1>2. CASE PopSpoilFinds(t) \/ PopSpoil(t)
  <2> PICK a, k : a = g(t) /\ k = place(idx[t])
    OBVIOUS
  <2>1. UNCHANGED pop_idx /\ entries' = [entries EXCEPT ![a][k] = Spoiled]
    BY <1>2 DEF PopSpoilFinds, PopSpoil, SetEntry
  <2>2. \A n \in Node : \A i \in Place : entries'[n][i] = entries[n][i] \/ entries'[n][i] = Spoiled
    BY <2>1 DEF VInv, VType
  <2> QED
    BY <1>0, <2>1, <2>2, WaitsKept
<1>3. CASE ~(PopIdx(t) \/ PopSpoilFinds(t) \/ PopSpoil(t))
  <2>1. UNCHANGED <<entries, pop_idx>>
    BY <1>3 DEF PopStep, TryPop, PopAcquire, PopLoad, PopCheck, PopNotEmpty, PopEmpty, PopNext, PopCas,
                PopCasFails, PopRetire, PopRead, PopGiveUp, PopReturn, nodes
  <2> QED
    BY <1>0, <2>1, WaitsKept
<1> QED
  BY <1>1, <1>2, <1>3

LEMMA OthersPop ==
  ASSUME VInv, VType', CallsOK, \A u \in Thread : PopOK(u), LInv, NEW t \in Thread, Others(t), WaitsBack,
         \A u \in Thread \ {t} : /\ due'[u] = due[u]
                                 /\ g(u) \in Listed' \ {qhead'} => g(u) \in Listed \ {qhead}
                                 /\ g(u) # Null => pop_idx'[g(u)] >= pop_idx[g(u)]
  PROVE  \A u \in Thread \ {t} : PopOK(u)'
<1> SUFFICES ASSUME NEW u \in Thread \ {t} PROVE PopOK(u)'
  OBVIOUS
<1> PICK a : a = g(u)
  OBVIOUS
<1>1. /\ PopOK(u) /\ pc'[u] = pc[u] /\ g(u)' = a /\ idx'[u] = idx[u] /\ due'[u] = due[u]
  BY DEF Others
<1>2. pc[u] \in {"o_check", "o_empty"} => /\ a \in Node /\ pop_idx[a] \in Nat /\ pop_idx'[a] \in Nat
                                          /\ idx[u] \in Nat /\ pop_idx'[a] >= pop_idx[a]
  <2>1. pc[u] \in {"o_check", "o_empty"} => a \in Node /\ a # Null
    BY GuardNode, NodeAssumption DEF Outside
  <2> QED
    BY <2>1 DEF VInv, VType
<1>3. pc'[u] \in PopPC \ {"o_acq"} => a \notin Listed' \ {qhead'}
  BY <1>1 DEF PopOK
<1>4. pc'[u] = "o_check" => idx'[u] <= pop_idx'[a]
  BY <1>1, <1>2 DEF PopOK
<1>5. ASSUME pc'[u] = "o_empty", NEW v \in due'[u], NEW i \in Place, Waiting(v, a, i)' PROVE FALSE
  <2>1. v \in due[u] /\ v \in pushed /\ pc[u] = "o_empty"
    BY <1>1, <1>5 DEF CallsOK
  <2>2. Waiting(v, a, i)
    BY <1>2, <1>5, <2>1 DEF WaitsBack
  <2> QED
    BY <1>1, <2>1, <2>2 DEF PopOK
<1>6. pc'[u] = "o_empty" => \A v \in due'[u] : \A i \in Place : ~Waiting(v, g(u), i)'
  BY <1>1, <1>5 DEF Waiting, Ahead, AtIndex
<1> QED
  BY <1>1, <1>3, <1>4, <1>6 DEF PopOK

LEMMA CallsKept ==
  ASSUME CallsOK, NEW t \in Thread, Others(t), pushed' = pushed,
         due' = due \/ \E S \in SUBSET pushed : due' = [due EXCEPT ![t] = S],
         pc'[t] \in PushPC => pc[t] \in PushPC /\ val'[t] = val[t]
  PROVE  CallsOK'
<1>1. due' \in [Thread -> SUBSET pushed']
  BY DEF CallsOK
<1>2. \A u \in Thread : pc'[u] \in PushPC => pc[u] \in PushPC /\ val'[u] = val[u]
  BY DEF Others
<1> QED
  BY <1>1, <1>2 DEF CallsOK

\* A value is in the queue when its push returns.
LEMMA CallsReturn ==
  ASSUME CallsOK, NEW t \in Thread, Others(t), pushed' = pushed \union {val[t]}, pc[t] \in PushPC,
         pc'[t] = "idle", due' = due
  PROVE  CallsOK'
<1>1. due' \in [Thread -> SUBSET pushed']
  BY DEF CallsOK
<1>2. \A u \in Thread : pc'[u] \in PushPC => u # t /\ pc[u] \in PushPC /\ val'[u] = val[u]
  BY DEF Others, PushPC
<1> QED
  BY <1>1, <1>2 DEF CallsOK

LEMMA PushE ==
  ASSUME LInv, LInv', VInv, VInv', EInv, ~Closed, Coprime, TailListed, NEW t \in Thread, PushStep(t)
  PROVE  CallsOK' /\ \A u \in Thread : PopOK(u)'
<1>0. /\ CallsOK /\ \A u \in Thread : PopOK(u)
      /\ Others(t) /\ WaitsBack /\ UNCHANGED qhead /\ VType'
      /\ \A u \in Thread \ {t} : g(u) # Null => pop_idx'[g(u)] = pop_idx[g(u)]
  BY StepOthers, PushWaits DEF EInv, VInv
<1>1. ASSUME NEW v \in Value, Push(t, v) PROVE CallsOK' /\ due' = due /\ pc'[t] \notin PopPC
  <2>1. /\ pc' = [pc EXCEPT ![t] = "p_acq"] /\ v \notin pushed /\ \A u \in Thread : val[u] # v
        /\ val' = [val EXCEPT ![t] = v] /\ UNCHANGED <<pushed, due>>
    BY <1>1 DEF Push, Goto, PushBegins
  <2>2. pc'[t] = "p_acq" /\ val'[t] = v
    BY <2>1 DEF LInv, LType, VInv, VType
  <2>3. \A u \in Thread \ {t} : pc'[u] \in PushPC => pc[u] \in PushPC /\ val'[u] = val[u] /\ val'[u] # v
    BY <1>0, <2>1 DEF Others
  <2> QED
    BY <1>0, <2>1, <2>2, <2>3 DEF CallsOK, PopPC
<1>2. ASSUME \/ PushAcquire(t) \/ PushIdx(t) \/ PushTail(t) \/ PushMustHelp(t) \/ PushHelp(t)
             \/ (\E m \in Node : PushNew(t, m)) \/ PushLink(t) \/ PushLinkFails(t) \/ PushCasFails(t)
      PROVE  CallsOK' /\ due' = due /\ pc'[t] \notin PopPC
  <2>1. /\ pc[t] \in PushPC /\ \E b \in PushPC : pc' = [pc EXCEPT ![t] = b]
    BY <1>2 DEF PushAcquire, PushIdx, PushTail, PushMustHelp, PushHelp, PushNew, PushLink, PushLinkFails,
                PushCasFails, Goto, PushPC
  <2>2. UNCHANGED <<pushed, due, val>>
    BY <1>2 DEF PushAcquire, PushIdx, PushTail, PushMustHelp, PushHelp, PushNew, PushLink, PushLinkFails,
                PushCasFails, Quiet, history
  <2>3. pc'[t] \in PushPC
    BY <2>1 DEF LInv, LType
  <2>4. CallsOK'
    BY <1>0, <2>1, <2>2, CallsKept
  <2> QED
    BY <2>2, <2>3, <2>4 DEF PushPC, PopPC
<1>3. ASSUME PushSwing(t) \/ PushCas(t) PROVE CallsOK' /\ due' = due /\ pc'[t] \notin PopPC
  <2>1. PICK a \in {"p_swing", "p_cas"} : Finish(t, a) /\ PushEnds(val[t])
    BY <1>3 DEF PushSwing, PushCas
  <2>2. pc[t] = a /\ pc'[t] = "idle"
    BY <2>1, FinishLocal
  <2> QED
    BY <1>0, <2>1, <2>2, CallsReturn DEF PushEnds, PushPC, PopPC
<1>4. CallsOK' /\ due' = due /\ pc'[t] \notin PopPC
  BY <1>1, <1>2, <1>3 DEF PushStep
<1>5. \A u \in Thread \ {t} : g(u) \in Listed' \ {qhead'} => g(u) \in Listed \ {qhead}
  <2>1. CASE PushLink(t)
    <3>1. pc[t] = "p_link"
      BY <2>1 DEF PushLink, Goto
    <3>2. \A u \in Thread : g(u) # mine[t]
      BY <3>1 DEF LInv, FreshOK
    <3>3. Listed' \subseteq Listed \union {mine[t]}
      BY PushLNext DEF ListGrows
    <3> QED
      BY <1>0, <3>2, <3>3
  <2>2. CASE ~PushLink(t)
    BY <1>0, <2>2, PushLNext DEF ListGrows
  <2> QED
    BY <2>1, <2>2
<1>6. \A u \in Thread \ {t} : g(u) # Null => pop_idx'[g(u)] >= pop_idx[g(u)]
  BY <1>0, GuardType DEF VInv, VType
<1>7. \A u \in Thread \ {t} : PopOK(u)'
  BY <1>0, <1>4, <1>5, <1>6, OthersPop
<1>8. PopOK(t)'
  BY <1>4 DEF PopOK, PopPC
<1> QED
  BY <1>4, <1>7, <1>8

LEMMA PopE ==
  ASSUME LInv, LInv', VInv, VInv', EInv, ~Closed, Coprime, NEW t \in Thread, PopStep(t)
  PROVE  CallsOK' /\ \A u \in Thread : PopOK(u)'
<1>0. /\ CallsOK /\ \A u \in Thread : PopOK(u)
      /\ Others(t) /\ WaitsBack /\ VType' /\ \A m \in Node : pop_idx'[m] >= pop_idx[m]
      /\ qhead \in Listed /\ Listed' \subseteq Listed
  BY StepOthers, PopWaits DEF EInv, VInv, LInv, ListOK
<1> DEFINE Own == PopOK(t)' /\ (due' = due \/ \E S \in SUBSET pushed : due' = [due EXCEPT ![t] = S])
                  /\ pushed' = pushed /\ pc'[t] \notin PushPC
<1>1. ASSUME TryPop(t) PROVE Own
  <2>1. pc' = [pc EXCEPT ![t] = "o_acq"] /\ due' = [due EXCEPT ![t] = pushed \ popped] /\ pushed' = pushed
    BY <1>1 DEF TryPop, Goto, PopBegins
  <2>2. pc'[t] = "o_acq"
    BY <2>1 DEF LInv, LType
  <2>3. PopOK(t)'
    BY <2>2 DEF PopOK
  <2> QED
    BY <2>1, <2>2, <2>3 DEF PushPC
<1>2. ASSUME PopEmpty(t, "o_empty") \/ PopEmpty(t, "o_next") \/ PopReturn(t) PROVE Own
  <2>1. PICK a \in {"o_empty", "o_next", "o_ret"} : Finish(t, a)
    BY <1>2 DEF PopEmpty, PopReturn
  <2>2. due' = [due EXCEPT ![t] = {}] /\ pushed' = pushed
    BY <1>2 DEF PopEmpty, PopReturn, PopEnds
  <2>3. pc'[t] = "idle"
    BY <2>1, FinishLocal
  <2>4. PopOK(t)'
    BY <2>3 DEF PopOK, PopPC
  <2> QED
    BY <2>2, <2>3, <2>4 DEF PushPC
<1>3. ASSUME PopAcquire(t) PROVE Own
  <2>1. /\ pc' = [pc EXCEPT ![t] = "o_load"] /\ slot' = [slot EXCEPT ![t]["n"] = qhead]
        /\ UNCHANGED <<due, pushed, qhead>>
    BY <1>3 DEF PopAcquire, Goto, Quiet, R!Publish, history, nodes
  <2>2. pc'[t] = "o_load" /\ g(t)' = qhead'
    BY <2>1 DEF LInv, LType, R!RTypeOK, g
  <2>3. PopOK(t)'
    BY <2>2 DEF PopOK
  <2> QED
    BY <2>1, <2>2, <2>3 DEF PushPC
<1>4. ASSUME PopCasFails(t) \/ PopRetire(t) \/ PopSpoil(t) PROVE Own
  <2>1. pc' = [pc EXCEPT ![t] = "o_acq"] /\ UNCHANGED <<due, pushed>>
    BY <1>4 DEF PopCasFails, PopRetire, PopSpoil, Goto, Quiet, history
  <2>2. pc'[t] = "o_acq"
    BY <2>1 DEF LInv, LType
  <2>3. PopOK(t)'
    BY <2>2 DEF PopOK
  <2> QED
    BY <2>1, <2>2, <2>3 DEF PushPC
<1>5. ASSUME PopLoad(t) PROVE Own
  <2> PICK a : a = g(t)
    OBVIOUS
  <2>1. /\ pc[t] = "o_load" /\ pc' = [pc EXCEPT ![t] = "o_check"] /\ idx' = [idx EXCEPT ![t] = pop_idx[a]]
        /\ UNCHANGED <<due, pushed, slot, pop_idx, qhead>>
    BY <1>5 DEF PopLoad, Goto, Set, Quiet, history, nodes, guards
  <2>2. pc'[t] = "o_check" /\ g(t)' = a /\ a \in Node /\ a \notin Listed \ {qhead}
    BY <1>0, <2>1, GuardNode DEF LInv, LType, g, Outside, PopOK, PopPC
  <2>3. idx'[t] = pop_idx'[a] /\ pop_idx'[a] \in Nat
    BY <2>1, <2>2 DEF VInv, VType
  <2>4. PopOK(t)'
    BY <1>0, <2>1, <2>2, <2>3 DEF PopOK
  <2> QED
    BY <2>1, <2>2, <2>4 DEF PushPC
<1>6. ASSUME PopCheck(t) PROVE Own
  <2> PICK a : a = g(t)
    OBVIOUS
  <2> PICK b : b = IF idx[t] >= push_idx[a] THEN "o_empty" ELSE "o_idx"
    OBVIOUS
  <2>1. /\ pc[t] = "o_check" /\ pc' = [pc EXCEPT ![t] = b]
        /\ UNCHANGED <<due, pushed, slot, entries, pop_idx, qhead>>
    BY <1>6 DEF PopCheck, Goto, Quiet, history, nodes, guards
  <2>2. pc'[t] = b /\ g(t)' = a /\ a \in Node /\ a \notin Listed \ {qhead} /\ idx[t] <= pop_idx[a]
    BY <1>0, <2>1, GuardNode DEF LInv, LType, g, Outside, PopOK, PopPC
  <2>3. ASSUME b = "o_empty", NEW v \in due'[t], NEW i \in Place, Waiting(v, a, i)' PROVE FALSE
    <3>1. v \in pushed
      BY <1>0, <2>1, <2>3 DEF CallsOK
    <3>2. Waiting(v, a, i)
      BY <1>0, <2>2, <2>3, <3>1 DEF WaitsBack
    <3>3. entries[a][i] \in Value
      BY <3>1, <3>2 DEF Waiting, VInv, VType
    <3>4. AtIndex(a, i) < push_idx[a] /\ AtIndex(a, i) >= pop_idx[a]
      BY <2>2, <3>2, <3>3 DEF VInv, NodeOK, Waiting, Ahead
    <3>5. AtIndex(a, i) \in Nat /\ push_idx[a] \in Nat /\ pop_idx[a] \in Nat /\ idx[t] \in Nat
      BY <2>2, IndexOfPlace DEF VInv, VType, Index, Multiple
    <3> QED
      BY <2>2, <2>3, <3>4, <3>5
  <2>4. b = "o_empty" => \A v \in due'[t] : \A i \in Place : ~Waiting(v, g(t), i)'
    BY <2>2, <2>3 DEF Waiting, Ahead, AtIndex
  <2>5. PopOK(t)'
    BY <1>0, <2>1, <2>2, <2>4 DEF PopOK
  <2> QED
    BY <2>1, <2>2, <2>5 DEF PushPC
<1>7. ASSUME PopCas(t) PROVE Own
  <2> PICK a : a = g(t)
    OBVIOUS
  <2>1. /\ pc[t] = "o_cas" /\ pc' = [pc EXCEPT ![t] = "o_retire"] /\ UNCHANGED <<due, pushed, slot>>
    BY <1>7 DEF PopCas, Goto, Quiet, history, guards
  <2>2. pc'[t] = "o_retire" /\ g(t)' = a /\ Listed' = Listed \ {a}
    BY <1>7, <2>1, PopCasStep DEF LInv, LType, g
  <2>3. PopOK(t)'
    BY <2>2 DEF PopOK
  <2> QED
    BY <2>1, <2>2, <2>3 DEF PushPC
<1>8. ASSUME PopNotEmpty(t) \/ PopIdx(t) \/ PopNext(t) \/ PopRead(t) \/ PopGiveUp(t) \/ PopSpoilFinds(t)
      PROVE  Own
  <2>1. /\ pc[t] \in PopPC \ {"o_acq"} /\ UNCHANGED <<due, pushed, slot, qhead>>
    BY <1>8 DEF PopNotEmpty, PopIdx, PopNext, PopRead, PopGiveUp, PopSpoilFinds, PopFound, Goto, Quiet, history,
                nodes, guards, PopPC
  <2>2. \E b \in {"o_idx", "o_next", "o_read", "o_cas", "o_ret", "o_spoil"} : pc' = [pc EXCEPT ![t] = b]
    BY <1>8 DEF PopNotEmpty, PopIdx, PopNext, PopRead, PopGiveUp, PopSpoilFinds, PopFound, Goto
  <2>3. pc'[t] \in {"o_idx", "o_next", "o_read", "o_cas", "o_ret", "o_spoil"}
    BY <2>2 DEF LInv, LType
  <2>4. g(t)' = g(t)
    BY <2>1 DEF g
  <2>5. PopOK(t)'
    BY <1>0, <2>1, <2>3, <2>4 DEF PopOK
  <2> QED
    BY <2>1, <2>3, <2>5 DEF PushPC
<1>9. Own
  BY <1>1, <1>2, <1>3, <1>4, <1>5, <1>6, <1>7, <1>8 DEF PopStep
<1>10. \A u \in Thread \ {t} : g(u) \in Listed' \ {qhead'} => g(u) \in Listed \ {qhead}
  <2>1. CASE PopCas(t)
    <3>1. qhead = g(t) /\ Listed' = Listed \ {qhead}
      BY <2>1, PopCasStep DEF PopCas
    <3> QED
      BY <3>1
  <2>2. CASE ~PopCas(t)
    <3>1. Listed' = Listed /\ UNCHANGED qhead
      BY <2>2, PopLNext DEF PopStep, TryPop, PopAcquire, PopLoad, PopCheck, PopNotEmpty, PopEmpty, PopIdx,
                PopNext, PopCasFails, PopRetire, PopRead, PopGiveUp, PopSpoilFinds, PopSpoil, PopReturn, nodes
    <3> QED
      BY <3>1
  <2> QED
    BY <2>1, <2>2
<1>11. \A u \in Thread \ {t} : due'[u] = due[u] /\ (g(u) # Null => pop_idx'[g(u)] >= pop_idx[g(u)])
  BY <1>0, <1>9, GuardType DEF CallsOK
<1>12. \A u \in Thread \ {t} : PopOK(u)'
  BY <1>0, <1>10, <1>11, OthersPop
<1>13. CallsOK'
  BY <1>0, <1>9, CallsKept
<1> QED
  BY <1>9, <1>12, <1>13

LEMMA ReclaimE ==
  ASSUME LInv, VInv, VInv', EInv, Coprime, NEW m \in Node, ReclaimNode(m)
  PROVE  EInv'
<1>1. /\ entries' = [entries EXCEPT ![m] = [i \in Place |-> NoValue]]
      /\ pop_idx' = [pop_idx EXCEPT ![m] = 0]
      /\ UNCHANGED <<pc, slot, idx, val, pushed, due, qhead>>
  BY DEF ReclaimNode, DeleteNode, history
<1>2. Listed' = Listed /\ \A u \in Thread : g(u)' = g(u) /\ g(u) # m
  BY <1>1, ReclaimStep DEF g
<1>3. CASE Closed
  BY <1>1, <1>3 DEF EInv, Closed
<1>4. CASE ~Closed
  <2>1. CallsOK /\ \A u \in Thread : PopOK(u)
    BY <1>4 DEF EInv
  <2>2. \A n \in Node \ {m} : entries'[n] = entries[n] /\ pop_idx'[n] = pop_idx[n]
    BY <1>1 DEF VInv, VType
  <2>3. \A i \in Place : entries'[m][i] \notin pushed
    BY <1>1, ValueAssumption DEF VInv, VType
  <2>4. \A n \in Node : pop_idx[n] \in Nat /\ pop_idx[n] >= pop_idx[n]
    BY DEF VInv, VType
  <2>5. WaitsBack
    BY <1>2, <2>2, <2>3, <2>4, WaitsKept DEF VInv
  <2>6. CallsOK'
    BY <1>1, <2>1 DEF CallsOK
  <2>7. ASSUME NEW u \in Thread PROVE PopOK(u)'
    <3> PICK a : a = g(u)
      OBVIOUS
    <3>1. PopOK(u) /\ g(u)' = a /\ a # m
      BY <1>2, <2>1
    <3>2. pc[u] \in {"o_check", "o_empty"} => a \in Node /\ pop_idx'[a] = pop_idx[a]
      BY <2>2, <3>1, GuardNode DEF Outside
    <3>3. ASSUME pc[u] = "o_empty", NEW v \in due[u], NEW i \in Place, Waiting(v, a, i)' PROVE FALSE
      <4>1. v \in pushed /\ a \in Node
        BY <2>1, <3>2, <3>3 DEF CallsOK
      <4>2. Waiting(v, a, i)
        BY <2>5, <3>3, <4>1 DEF WaitsBack
      <4> QED
        BY <3>1, <3>3, <4>2 DEF PopOK
    <3>4. pc'[u] = "o_empty" => \A v \in due'[u] : \A i \in Place : ~Waiting(v, g(u), i)'
      BY <1>1, <3>1, <3>3 DEF Waiting, Ahead, AtIndex
    <3> QED
      BY <1>1, <1>2, <3>1, <3>2, <3>4 DEF PopOK
  <2> QED
    BY <2>6, <2>7 DEF EInv
<1> QED
  BY <1>3, <1>4

LEMMA NextE ==
  ASSUME Coprime
  PROVE  LInv /\ TailListed /\ ChainOK /\ VInv /\ EInv /\ [Next]_vars => EInv'
<1> SUFFICES ASSUME LInv, TailListed, ChainOK, VInv, EInv, [Next]_vars PROVE EInv'
  OBVIOUS
<1>0. LInv' /\ VInv'
  BY NextL, NextV
<1>1. ASSUME NEW t \in Thread, PushStep(t) PROVE EInv'
  BY <1>0, <1>1, PushE, OpenStep DEF EInv
<1>2. ASSUME NEW t \in Thread, PopStep(t) PROVE EInv'
  BY <1>0, <1>2, PopE, OpenStep DEF EInv
<1>3. ASSUME NEW t \in Thread, Destroy(t) \/ DestroyNode(t) PROVE EInv'
  <2>1. pc'[t] = "destroy"
    BY <1>3 DEF Destroy, DestroyNode, Goto, LInv, LType
  <2> QED
    BY <2>1 DEF EInv, Closed
<1>4. ASSUME NEW m \in Node, ReclaimNode(m) PROVE EInv'
  BY <1>0, <1>4, ReclaimE
<1>5. CASE UNCHANGED vars
  <2>1. UNCHANGED <<entries, pop_idx, status, slot, pc, idx, val, mine, pushed, due, qhead>>
    BY <1>5 DEF vars, nodes, guards, history
  <2>2. \A u \in Thread : g(u)' = g(u)
    BY <2>1 DEF g
  <2>3. Listed' = Listed /\ (Closed' <=> Closed)
    BY <2>1, <2>2 DEF Listed, Fresh, Taken, Closed
  <2>4. CallsOK => CallsOK'
    BY <2>1 DEF CallsOK
  <2>5. ASSUME NEW u \in Thread, PopOK(u) PROVE PopOK(u)'
    <3> PICK a : a = g(u)
      OBVIOUS
    <3>1. \A v : \A i \in Place : Waiting(v, a, i)' <=> Waiting(v, a, i)
      BY <2>1, <2>3 DEF Waiting, Ahead, AtIndex
    <3>2. \A v : \A i \in Place : Waiting(v, g(u), i)' <=> Waiting(v, g(u), i)
      BY <2>2, <3>1 DEF Waiting, Ahead, AtIndex
    <3> QED
      BY <2>1, <2>2, <2>3, <2>5, <3>2 DEF PopOK
  <2> QED
    BY <2>3, <2>4, <2>5 DEF EInv
<1> QED
  BY <1>1, <1>2, <1>3, <1>4, <1>5 DEF Next

\* A node without a successor is the last one of the list; if a try_pop has it, it
\* is also the first one, and the queue has no other.
LEMMA EInvEmpty == LInv /\ ChainOK /\ VInv /\ EInv /\ Coprime => EmptyIsTrue
<1> SUFFICES ASSUME LInv, ChainOK, VInv, EInv, Coprime,
                    NEW t \in Thread, pc[t] \in {"o_empty", "o_next"}, next[g(t)] = Null,
                    NEW v \in due[t] \ popped
             PROVE  \E u \in Thread \ {t} :
                       \/ val[u] = v
                       \/ \E m \in Node, i \in Place : entries[m][i] = v /\ TakenBy(u, m, i)
  BY DEF EmptyIsTrue
<1> PICK a : a = g(t)
  OBVIOUS
<1>1. ~Closed /\ a \in Node /\ status[a] # "free" /\ ~Fresh(a) /\ next[a] = Null
  BY Busy, GuardNode DEF Outside
<1>2. CallsOK /\ PopOK(t)
  BY <1>1 DEF EInv
<1>3. a \in Listed
  <2>1. status[a] # "retired" /\ ~Taken(a)
    BY <1>1 DEF LInv, UnlinkedOK
  <2> QED
    BY <1>1, <2>1 DEF Listed, LInv, LType, R!RTypeOK
<1>4. a = qhead
  BY <1>2, <1>3 DEF PopOK, PopPC
<1>5. Listed \subseteq {a}
  <2>1. {a} \in SUBSET Node /\ qhead \in {a} \union {Null} /\ \A m \in {a} : next[m] \in {a} \union {Null}
    BY <1>1, <1>4
  <2> QED
    BY <2>1 DEF ChainOK, Reaches
<1>6. ASSUME NEW m \in Node, NEW i \in Place, Waiting(v, m, i) PROVE FALSE
  <2>1. m = a
    BY <1>5, <1>6 DEF Waiting
  <2>2. CASE pc[t] = "o_empty"
    BY <1>2, <1>6, <2>1, <2>2 DEF PopOK
  <2>3. CASE pc[t] = "o_next"
    <3>1. pop_idx[a] >= max_idx /\ AtIndex(a, i) >= pop_idx[a]
      BY <1>6, <2>1, <2>3 DEF VInv, IdxOK, Waiting, Ahead
    <3>2. AtIndex(a, i) \in Nat /\ AtIndex(a, i) < max_idx /\ max_idx \in Nat
      <4>1. AtIndex(a, i) \in Index
        BY IndexOfPlace
      <4>2. max_idx \in Nat
        BY EntriesAssumption DEF max_idx, step_size
      <4> QED
        BY <4>1, <4>2 DEF Index, Multiple
    <3>3. pop_idx[a] \in Nat
      BY <1>1 DEF VInv, VType
    <3> QED
      BY <3>1, <3>2, <3>3
  <2> QED
    BY <2>2, <2>3
<1>7. Located(v)
  BY <1>2 DEF CallsOK, VInv, PutOK
<1>8. CASE \E u \in Thread : pc[u] = "o_ret" /\ val[u] = v
  BY <1>8
<1>9. CASE \E m \in Node : \E i \in Place : InPlace(v, m, i)
  <2> PICK m \in Node, i \in Place : InPlace(v, m, i)
    BY <1>9
  <2>1. entries[m][i] = v /\ Held(m, i)
    BY <1>6 DEF InPlace, Waiting
  <2>2. PICK u \in Thread : TakenBy(u, m, i)
    BY <2>1 DEF Held
  <2>3. u # t
    BY <2>2 DEF TakenBy
  <2> QED
    BY <2>1, <2>2, <2>3
<1> QED
  BY <1>1, <1>7, <1>8, <1>9 DEF Located

\* try_pop returns false only if no value is left that it must not miss, as long
\* as a push acquires _tail while its node is in the list.
THEOREM EmptyIsTrueInList ==
  ASSUME Coprime
  PROVE  Spec /\ []TailListed => []EmptyIsTrue
<1>1. Init => LInv /\ ChainOK /\ VInv /\ EInv
  BY InitLInv, InitC, InitV, InitE
<1>2. LInv /\ ChainOK /\ VInv /\ EInv /\ TailListed /\ [Next]_vars => (LInv /\ ChainOK /\ VInv /\ EInv)'
  BY NextL, NextC, NextV, NextE
<1>3. LInv /\ ChainOK /\ VInv /\ EInv => EmptyIsTrue
  BY EInvEmpty
<1> QED
  BY <1>1, <1>2, <1>3, PTL DEF Spec

\* With one thread that pushes beside try_pop that is always so.
THEOREM EmptyIsSo ==
  ASSUME NEW p, LateIs(p), Coprime
  PROVE  Spec => []EmptyIsTrue
<1>1. Init => LInv /\ TInv(p) /\ ChainOK /\ VInv /\ EInv
  BY InitLInv, InitTInv, InitC, InitV, InitE
<1>2. LInv /\ TInv(p) /\ ChainOK /\ VInv /\ EInv /\ [Next]_vars
         => (LInv /\ TInv(p) /\ ChainOK /\ VInv /\ EInv)'
  BY TailListedHolds, NextL, NextT, NextC, NextV, NextE
<1>3. LInv /\ ChainOK /\ VInv /\ EInv => EmptyIsTrue
  BY EInvEmpty
<1> QED
  BY <1>1, <1>2, <1>3, PTL DEF Spec

-----------------------------------------------------------------------------
(* First in, first out: the invariant                                      *)

\* The try_pop of thread u has value v.
Has(u, v) == \/ pc[u] = "o_ret" /\ val[u] = v
             \/ \E m \in Node : \E i \in Place : entries[m][i] = v /\ TakenBy(u, m, i)
Left(v) == v \in popped \/ \E u \in Thread : Has(u, v)

\* The push of v has put it into the queue; a try_pop has read it.
In(v) == v \in pushed \/ \E u \in Thread : pc[u] = "p_swing" /\ val[u] = v
Spent(v) == v \in popped \/ \E u \in Thread : pc[u] = "o_ret" /\ val[u] = v

HistoryOK == /\ popped \in SUBSET Value
             /\ before \in SUBSET (pushed \X Value)
             /\ late \in [Thread -> SUBSET popped]
             /\ pops = 0 => \A m \in Node : status[m] # "retired"

\* A value is in one entry, which belongs to its push until it is linked. No
\* try_pop has, or will be given, the entry of a value that has been read.
StoredOK(m, i) == entries[m][i] \in Value =>
    /\ \A n \in Node : \A j \in Place : entries[n][j] = entries[m][i] => n = m /\ j = i
    /\ \/ In(entries[m][i])
       \/ \E u \in Thread : pc[u] = "p_link" /\ val[u] = entries[m][i] /\ mine[u] = m
    /\ \A t \in Thread : pc[t] = "p_swing" /\ val[t] = entries[m][i] => mine[t] = m
    /\ Spent(entries[m][i]) => ~Ahead(m, i) /\ ~Held(m, i)

\* What has been read was in the queue, and one try_pop has it.
SpentOK == /\ \A v \in Value : Spent(v) => In(v)
           /\ \A t \in Thread : pc[t] = "o_ret" =>
                 /\ val[t] \notin popped
                 /\ \A u \in Thread : pc[u] = "o_ret" /\ val[u] = val[t] => u = t

SInv == HistoryOK /\ (\A m \in Node : \A i \in Place : StoredOK(m, i)) /\ SpentOK

\* Behind the node of _tail nothing is pushed yet.
Placing == {"p_idx", "p_cas"}
BehindOK == /\ \A m \in Node : \A i \in Place : entries[m][i] \in pushed => next[qtail] # m
            /\ \A u \in Thread : pc[u] \in Placing => next[qtail] # g(u)

\* r numbers the nodes of the list.
RankOK(r) == /\ r \in [Node -> Nat]
             /\ \A m \in Listed : next[m] # Null => r[next[m]] = r[m] + 1
             /\ \A m, n \in Listed : r[m] = r[n] => m = n
             /\ \A m \in Listed : r[qhead] <= r[m]
             /\ \A m, n \in Listed : next[m] = Null => r[n] <= r[m]

\* Entry i of m comes before entry j of n.
Less(r, m, i, n, j) == IF m = n THEN AtIndex(m, i) < AtIndex(n, j) ELSE r[m] < r[n]

\* When the push of b began after that of v had returned, v leaves the queue first:
\* it stands before b, and before the entry where b is going to be.
LeavesFirst(v, b) == Left(b) => Left(v)
StandsFirst(r, v, b) ==
    \A m, n \in Node : \A i, j \in Place :
        Waiting(v, m, i) /\ n \in Listed /\ entries[n][j] = b => Less(r, m, i, n, j)
PlacedFirst(r, v, b) ==
    \A t \in Thread : \A m \in Node : \A i \in Place :
        pc[t] \in Placing /\ val[t] = b /\ Waiting(v, m, i) =>
            /\ g(t) \in Listed /\ r[m] <= r[g(t)]
            /\ pc[t] = "p_cas" /\ m = g(t) => AtIndex(m, i) < idx[t]
OrderOK(r) == \A v, b \in Value : <<v, b>> \in before =>
                  LeavesFirst(v, b) /\ StandsFirst(r, v, b) /\ PlacedFirst(r, v, b)
RanksOK == \E r \in [Node -> Nat] : RankOK(r) /\ OrderOK(r)

\* What left the queue before a try_pop began had been pushed after nothing
\* that this try_pop may return.
Gone(v, t) == v \in popped \/ \E u \in Thread \ {t} : Has(u, v)
LateOK == \A t \in Thread : pc[t] \in PopPC =>
              \A v, b \in Value : b \in late[t] /\ <<v, b>> \in before => Gone(v, t)

OInv == ~Closed => SInv /\ BehindOK /\ RanksOK /\ LateOK

-----------------------------------------------------------------------------
(* First in, first out: what the steps of a thread have in common          *)

Begins(t) == /\ pc[t] = "idle" /\ pc'[t] = "p_acq" /\ val'[t] \in Value \ pushed
             /\ \A u \in Thread : val[u] # val'[t]
             /\ before' = before \union (pushed \X {val'[t]})

\* What a step of thread t does to the histories
Histories(t) ==
    /\ popped' = IF pc[t] = "o_ret" THEN popped \union {val[t]} ELSE popped
    /\ pushed' = IF pc[t] \in PushPC /\ pc'[t] = "idle" THEN pushed \union {val[t]} ELSE pushed
    /\ before' = before \/ Begins(t)
    /\ \/ late' = late
       \/ pc'[t] = "idle" /\ late' = [late EXCEPT ![t] = {}]
       \/ pc[t] = "idle" /\ late' = [late EXCEPT ![t] = popped]

\* Where a step of thread t comes from and leads to
Moves(t) ==
    /\ pc'[t] = "o_ret" => pc[t] \in Reading /\ val'[t] = Entry(t) /\ val'[t] # NoValue
    /\ pc'[t] \in Reading => (pc[t] = "o_read" /\ g(t)' = g(t) /\ idx'[t] = idx[t]) \/ PopIdx(t)
    /\ pc[t] \in Reading => pc'[t] \in Reading \union {"o_ret"} \/ Entry(t) = NoValue
    /\ pc'[t] = "p_swing" => PushLink(t)
    /\ pc[t] = "p_swing" => pc'[t] = "idle"
    /\ pc[t] \in PushPC /\ pc'[t] = "idle" => pc[t] \in {"p_swing", "p_cas"}
    /\ pc'[t] = "p_link" => pc[t] = "p_next"
    /\ pc[t] = "p_link" => pc'[t] \in {"p_acq", "p_swing"}
    /\ pc'[t] = "p_idx" => PushAcquire(t)
    /\ pc'[t] = "p_cas" => PushIdx(t)
    /\ pc'[t] \in PushPC => val'[t] = val[t] \/ Begins(t)
    /\ pc'[t] \in PopPC => pc[t] \in PopPC \/ (pc[t] = "idle" /\ late' = [late EXCEPT ![t] = popped])

LEMMA Goes ==
  ASSUME LInv, VInv, NEW t \in Thread, NEW a, NEW b, Goto(t, a, b)
  PROVE  pc[t] = a /\ pc'[t] = b
BY DEF Goto, LInv, LType

LEMMA PushMoves ==
  ASSUME LInv, VInv, NEW t \in Thread, PushStep(t)
  PROVE  Histories(t) /\ Moves(t)
<1>1. ASSUME NEW v \in Value, Push(t, v) PROVE Histories(t) /\ Moves(t)
  <2>1. /\ pc[t] = "idle" /\ pc'[t] = "p_acq" /\ v \notin pushed /\ \A u \in Thread : val[u] # v
    BY <1>1, Goes DEF Push
  <2>2. val' = [val EXCEPT ![t] = v] /\ PushBegins(v)
    BY <1>1 DEF Push
  <2>3. val'[t] = v
    BY <2>2 DEF VInv, VType
  <2>4. Begins(t)
    BY <2>1, <2>2, <2>3 DEF Begins, PushBegins
  <2>5. Histories(t)
    BY <2>1, <2>2, <2>4 DEF Histories, PushBegins, PushPC
  <2> QED
    BY <2>1, <2>4, <2>5 DEF Moves, PushPC, PopPC, Reading
<1>2. ASSUME \/ PushAcquire(t) \/ PushIdx(t) \/ PushTail(t) \/ PushMustHelp(t) \/ PushHelp(t)
             \/ (\E m \in Node : PushNew(t, m)) \/ PushLink(t) \/ PushLinkFails(t) \/ PushCasFails(t)
      PROVE  Histories(t) /\ Moves(t)
  <2>1. PICK a, b \in PushPC :
             /\ Goto(t, a, b)
             /\ b = "p_swing" <=> PushLink(t)
             /\ b = "p_idx" <=> PushAcquire(t)
             /\ b = "p_cas" => PushIdx(t)
             /\ b = "p_link" => a = "p_next"
             /\ a = "p_link" => b \in {"p_acq", "p_swing"}
             /\ a # "p_swing"
    BY <1>2 DEF PushAcquire, PushIdx, PushTail, PushMustHelp, PushHelp, PushNew, PushLink, PushLinkFails,
                PushCasFails, Goto, PushPC
  <2>2. UNCHANGED <<val, pushed, popped, before, late>>
    BY <1>2 DEF PushAcquire, PushIdx, PushTail, PushMustHelp, PushHelp, PushNew, PushLink, PushLinkFails,
                PushCasFails, Quiet, history
  <2>3. pc[t] = a /\ pc'[t] = b
    BY <2>1, Goes
  <2>4. Histories(t)
    BY <2>2, <2>3 DEF Histories, PushPC
  <2> QED
    BY <2>1, <2>2, <2>3, <2>4 DEF Moves, PushPC, PopPC, Reading
<1>3. ASSUME PushSwing(t) \/ PushCas(t) PROVE Histories(t) /\ Moves(t)
  <2>1. PICK a \in {"p_swing", "p_cas"} : Finish(t, a) /\ PushEnds(val[t])
    BY <1>3 DEF PushSwing, PushCas
  <2>2. pc[t] = a /\ pc'[t] = "idle"
    BY <2>1, FinishLocal
  <2>3. Histories(t)
    BY <2>1, <2>2 DEF Histories, PushPC, PushEnds
  <2> QED
    BY <2>2, <2>3 DEF Moves, PushPC, PopPC, Reading
<1> QED
  BY <1>1, <1>2, <1>3 DEF PushStep

LEMMA PopMoves ==
  ASSUME LInv, VInv, NEW t \in Thread, PopStep(t)
  PROVE  Histories(t) /\ Moves(t)
<1>1. ASSUME TryPop(t) PROVE Histories(t) /\ Moves(t)
  <2>1. pc[t] = "idle" /\ pc'[t] = "o_acq" /\ PopBegins(t)
    BY <1>1, Goes DEF TryPop
  <2>2. Histories(t)
    BY <2>1 DEF Histories, PopBegins, PushPC
  <2> QED
    BY <2>1, <2>2 DEF Moves, PushPC, PopPC, Reading, PopBegins
<1>2. ASSUME \/ PopAcquire(t) \/ PopLoad(t) \/ PopCheck(t) \/ PopNotEmpty(t) \/ PopIdx(t) \/ PopNext(t)
             \/ PopCas(t) \/ PopCasFails(t) \/ PopRetire(t) \/ PopGiveUp(t) \/ PopSpoil(t)
      PROVE  Histories(t) /\ Moves(t)
  <2>1. PICK a, b \in PopPC \ {"o_ret"} :
             /\ Goto(t, a, b)
             /\ b = "o_read" => PopIdx(t)
             /\ b = "o_spoil" => PopGiveUp(t)
             /\ a \in Reading => PopGiveUp(t) \/ PopSpoil(t)
    BY <1>2 DEF PopAcquire, PopLoad, PopCheck, PopNotEmpty, PopIdx, PopNext, PopCas, PopCasFails, PopRetire,
                PopGiveUp, PopSpoil, Goto, PopPC, Reading
  <2>2. UNCHANGED <<val, pushed, popped, before, late>>
    BY <1>2 DEF PopAcquire, PopLoad, PopCheck, PopNotEmpty, PopIdx, PopNext, PopCas, PopCasFails, PopRetire,
                PopGiveUp, PopSpoil, Quiet, history
  <2>3. pc[t] = a /\ pc'[t] = b
    BY <2>1, Goes
  <2>4. Histories(t)
    BY <2>2, <2>3 DEF Histories, PushPC, PopPC
  <2>5. PopGiveUp(t) => pc[t] = "o_read" /\ pc'[t] = "o_spoil" /\ g(t)' = g(t) /\ idx'[t] = idx[t]
    BY Goes DEF PopGiveUp, guards, g
  <2>6. PopSpoil(t) => Entry(t) = NoValue
    BY DEF PopSpoil
  <2> QED
    BY <2>1, <2>2, <2>3, <2>4, <2>5, <2>6 DEF Moves, PushPC, PopPC, Reading
<1>3. ASSUME PopRead(t) \/ PopSpoilFinds(t) PROVE Histories(t) /\ Moves(t)
  <2>1. PICK a \in Reading : PopFound(t, a)
    BY <1>3 DEF PopRead, PopSpoilFinds, Reading
  <2> PICK w : w = Entry(t)
    OBVIOUS
  <2>2. /\ pc[t] = a /\ pc'[t] = "o_ret" /\ val' = [val EXCEPT ![t] = w] /\ w # NoValue
        /\ UNCHANGED <<pushed, popped, before, late>>
    BY <2>1, Goes DEF PopFound, history
  <2>3. val'[t] = w
    BY <2>2 DEF VInv, VType
  <2>4. Histories(t)
    BY <2>2 DEF Histories, PushPC, Reading
  <2> QED
    BY <2>2, <2>3, <2>4 DEF Moves, PushPC, PopPC, Reading
<1>4. ASSUME PopEmpty(t, "o_empty") \/ PopEmpty(t, "o_next") PROVE Histories(t) /\ Moves(t)
  <2>1. PICK a \in {"o_empty", "o_next"} : Finish(t, a) /\ PopEnds(t, {})
    BY <1>4 DEF PopEmpty
  <2>2. pc[t] = a /\ pc'[t] = "idle"
    BY <2>1, FinishLocal
  <2>3. Histories(t)
    BY <2>1, <2>2 DEF Histories, PushPC, PopEnds
  <2> QED
    BY <2>2, <2>3 DEF Moves, PushPC, PopPC, Reading
<1>5. ASSUME PopReturn(t) PROVE Histories(t) /\ Moves(t)
  <2>1. pc[t] = "o_ret" /\ pc'[t] = "idle" /\ PopEnds(t, {val[t]})
    BY <1>5, FinishLocal DEF PopReturn
  <2>2. Histories(t)
    BY <2>1 DEF Histories, PushPC, PopEnds
  <2> QED
    BY <2>1, <2>2 DEF Moves, PushPC, PopPC, Reading
<1> QED
  BY <1>1, <1>2, <1>3, <1>4, <1>5 DEF PopStep

\* The entries in which a step of thread t stores val[t], and those it empties
Stores(t, m, i) ==
    \/ pc[t] = "p_cas" /\ pc'[t] = "idle" /\ m = g(t) /\ i = place(idx[t])
    \/ pc[t] = "p_next" /\ pc'[t] = "p_link" /\ m = mine'[t] /\ i = 0 /\ status[m] = "free"
Empties(t, m, i) ==
    \/ pc[t] = "p_link" /\ pc'[t] = "p_acq" /\ m = mine[t]
    \/ pc[t] = "o_spoil" /\ m = g(t) /\ i = place(idx[t])

EntryKept(t, m, i) ==
    /\ entries'[m][i] \in Value => \/ entries'[m][i] = entries[m][i]
                                   \/ entries'[m][i] = val[t] /\ Stores(t, m, i)
    /\ entries[m][i] \in Value => \/ entries'[m][i] = entries[m][i]
                                  \/ Empties(t, m, i)
    /\ pc[t] = "p_link" /\ pc'[t] = "p_acq" /\ m = mine[t] => entries'[m][i] \notin Value
    /\ Ahead(m, i)' => \/ Ahead(m, i)
                       \/ pc[t] = "p_next" /\ pc'[t] = "p_link" /\ m = mine'[t] /\ status[m] = "free"

LEMMA AheadBack ==
  ASSUME VInv, VType', Coprime, NEW m \in Node, NEW i \in Place, pop_idx'[m] >= pop_idx[m]
  PROVE  Ahead(m, i)' => Ahead(m, i)
<1>1. AtIndex(m, i)' = AtIndex(m, i)
  BY DEF AtIndex
<1>2. AtIndex(m, i) \in Index
  BY IndexOfPlace
<1>3. AtIndex(m, i) \in Nat
  BY <1>2 DEF Index, Multiple
<1>4. pop_idx[m] \in Nat /\ pop_idx'[m] \in Nat
  BY DEF VInv, VType
<1> QED
  BY <1>1, <1>3, <1>4 DEF Ahead

LEMMA SameEntry ==
  ASSUME VInv, VType', Coprime, NEW t \in Thread, NEW m \in Node, NEW i \in Place,
         entries'[m][i] = entries[m][i], pop_idx'[m] >= pop_idx[m],
         pc[t] = "p_link" /\ pc'[t] = "p_acq" => m # mine[t]
  PROVE  EntryKept(t, m, i)
BY AheadBack DEF EntryKept

LEMMA PushEntries ==
  ASSUME LInv, VInv, VType', Coprime, NEW t \in Thread, PushStep(t), NEW m \in Node, NEW i \in Place
  PROVE  EntryKept(t, m, i)
<1>0. pop_idx[m] \in Nat /\ pop_idx[m] >= pop_idx[m]
  BY DEF VInv, VType
<1>1. CASE \/ (\E v \in Value : Push(t, v)) \/ PushAcquire(t) \/ PushIdx(t) \/ PushTail(t) \/ PushMustHelp(t)
           \/ PushHelp(t) \/ PushCasFails(t) \/ PushSwing(t) \/ PushLink(t)
  <2>1. UNCHANGED <<entries, pop_idx>>
    BY <1>1 DEF Push, PushAcquire, PushIdx, PushTail, PushMustHelp, PushHelp, PushCasFails, PushSwing, PushLink,
                nodes
  <2>2. ~(pc[t] = "p_link" /\ pc'[t] = "p_acq")
    BY <1>1, Goes DEF Push, PushAcquire, PushIdx, PushTail, PushMustHelp, PushHelp, PushCasFails, PushSwing,
                      PushLink,
                      Finish
  <2> QED
    BY <1>0, <2>1, <2>2, SameEntry
<1>2. CASE \E n \in Node : PushNew(t, n)
  <2> PICK n \in Node : PushNew(t, n)
    BY <1>2
  <2> PICK w : w = val[t]
    OBVIOUS
  <2>1. /\ pc[t] = "p_next" /\ pc'[t] = "p_link" /\ status[n] = "free"
        /\ entries' = [entries EXCEPT ![n] = [j \in Place |-> IF j = 0 THEN w ELSE NoValue]]
        /\ pop_idx' = [pop_idx EXCEPT ![n] = 0] /\ mine' = [mine EXCEPT ![t] = n]
    BY Goes DEF PushNew, R!Allocate
  <2>2. mine'[t] = n
    BY <2>1 DEF LInv, LType
  <2>3. CASE m # n
    <3>1. entries'[m] = entries[m] /\ pop_idx'[m] = pop_idx[m]
      BY <2>1, <2>3 DEF VInv, VType
    <3> QED
      BY <1>0, <2>1, <3>1, SameEntry
  <2>4. CASE m = n
    <3>1. entries'[m] = [j \in Place |-> IF j = 0 THEN w ELSE NoValue]
      BY <2>1, <2>4 DEF VInv, VType
    <3>2. entries[m][i] = NoValue
      BY <2>1, <2>4 DEF VInv, NodeOK
    <3> QED
      BY <2>1, <2>2, <2>4, <3>1, <3>2, ValueAssumption DEF EntryKept, Stores
  <2> QED
    BY <2>3, <2>4
<1>3. CASE PushLinkFails(t)
  <2> PICK n : n = mine[t]
    OBVIOUS
  <2>1. /\ pc[t] = "p_link" /\ pc'[t] = "p_acq" /\ UNCHANGED pop_idx
        /\ entries' = [entries EXCEPT ![n] = [j \in Place |-> NoValue]]
    BY <1>3, Goes DEF PushLinkFails
  <2>2. CASE m # n
    <3>1. entries'[m] = entries[m]
      BY <2>1, <2>2 DEF VInv, VType
    <3> QED
      BY <1>0, <2>1, <2>2, <3>1, SameEntry
  <2>3. CASE m = n
    <3>1. entries'[m][i] = NoValue
      BY <2>1, <2>3 DEF VInv, VType
    <3>2. Ahead(m, i)' => Ahead(m, i)
      BY <1>0, <2>1, AheadBack
    <3> QED
      BY <2>1, <2>3, <3>1, <3>2, ValueAssumption DEF EntryKept, Empties
  <2> QED
    BY <2>2, <2>3
<1>4. CASE PushCas(t)
  <2> PICK a : a = g(t)
    OBVIOUS
  <2> PICK k : k = place(idx[t])
    OBVIOUS
  <2> PICK w : w = val[t]
    OBVIOUS
  <2>1. /\ pc[t] = "p_cas" /\ pc'[t] = "idle" /\ UNCHANGED pop_idx /\ entries[a][k] = NoValue
        /\ entries' = [entries EXCEPT ![a][k] = w]
    BY <1>4, FinishLocal DEF PushCas, SetEntry, Entry
  <2>2. CASE m # a \/ i # k
    <3>1. entries'[m][i] = entries[m][i]
      BY <2>1, <2>2 DEF VInv, VType
    <3> QED
      BY <1>0, <2>1, <3>1, SameEntry
  <2>3. CASE m = a /\ i = k
    <3>1. entries'[m][i] = w
      BY <2>1, <2>3 DEF VInv, VType
    <3>2. Ahead(m, i)' => Ahead(m, i)
      BY <1>0, <2>1, AheadBack
    <3> QED
      BY <2>1, <2>3, <3>1, <3>2, ValueAssumption DEF EntryKept, Stores
  <2> QED
    BY <2>2, <2>3
<1> QED
  BY <1>1, <1>2, <1>3, <1>4 DEF PushStep

LEMMA PopEntries ==
  ASSUME LInv, VInv, VType', Coprime, NEW t \in Thread, PopStep(t), NEW m \in Node, NEW i \in Place
  PROVE  EntryKept(t, m, i)
<1>0. pop_idx'[m] >= pop_idx[m] /\ pc[t] # "p_link"
  <2>1. pc[t] # "p_link"
    BY DEF PopStep, TryPop, PopAcquire, PopLoad, PopCheck, PopNotEmpty, PopEmpty, PopIdx, PopNext, PopCas,
           PopCasFails, PopRetire, PopRead, PopGiveUp, PopSpoilFinds, PopSpoil, PopReturn, PopFound, Finish,
           Goto
  <2> QED
    BY <2>1, PopWaits
<1>1. CASE PopSpoilFinds(t) \/ PopSpoil(t)
  <2> PICK a, k : a = g(t) /\ k = place(idx[t])
    OBVIOUS
  <2>1. pc[t] = "o_spoil" /\ entries' = [entries EXCEPT ![a][k] = Spoiled]
    BY <1>1 DEF PopSpoilFinds, PopSpoil, PopFound, SetEntry, Goto
  <2>2. CASE m # a \/ i # k
    <3>1. entries'[m][i] = entries[m][i]
      BY <2>1, <2>2 DEF VInv, VType
    <3> QED
      BY <1>0, <3>1, SameEntry
  <2>3. CASE m = a /\ i = k
    <3>1. entries'[m][i] = Spoiled
      BY <2>1, <2>3 DEF VInv, VType
    <3>2. Ahead(m, i)' => Ahead(m, i)
      BY <1>0, AheadBack
    <3> QED
      BY <2>1, <2>3, <3>1, <3>2, ValueAssumption DEF EntryKept, Empties
  <2> QED
    BY <2>2, <2>3
<1>2. CASE ~(PopSpoilFinds(t) \/ PopSpoil(t))
  <2>1. UNCHANGED entries
    BY <1>2 DEF PopStep, TryPop, PopAcquire, PopLoad, PopCheck, PopNotEmpty, PopEmpty, PopIdx, PopNext, PopCas,
                PopCasFails, PopRetire, PopRead, PopGiveUp, PopReturn, nodes
  <2> QED
    BY <1>0, <2>1, SameEntry
<1> QED
  BY <1>1, <1>2

\* The four facts about a step of a thread that the rest follows from
LEMMA StepFacts ==
  ASSUME LInv, VInv, VType', Coprime, NEW t \in Thread, PushStep(t) \/ PopStep(t)
  PROVE  /\ Others(t) /\ Histories(t) /\ Moves(t)
         /\ \A m \in Node : \A i \in Place : EntryKept(t, m, i)
BY StepOthers, PushMoves, PopMoves, PushEntries, PopEntries

-----------------------------------------------------------------------------
(* First in, first out: who has a value                                    *)

\* A try_pop is given the entry of the first index that none was given yet.
LEMMA GivenIndex ==
  ASSUME LInv, VInv, Coprime, NEW t \in Thread, PopIdx(t), NEW m \in Node, NEW i \in Place, TakenBy(t, m, i)'
  PROVE  m = g(t) /\ AtIndex(m, i) = pop_idx[m] /\ Ahead(m, i) /\ pop_idx[m] < max_idx
<1> PICK a, k : a = g(t) /\ k = pop_idx[a]
  OBVIOUS
<1>1. /\ pc' = [pc EXCEPT ![t] = IF k >= max_idx THEN "o_next" ELSE "o_read"]
      /\ idx' = [idx EXCEPT ![t] = k] /\ slot' = slot /\ pc[t] = "o_idx"
  BY DEF PopIdx, Goto, Set, guards
<1>2. pc'[t] = (IF k >= max_idx THEN "o_next" ELSE "o_read") /\ idx'[t] = k /\ g(t)' = a
  BY <1>1 DEF VInv, VType, LInv, LType, g
<1>3. a \in Node /\ k \in Nat /\ Multiple(k)
  <2>1. a \in Node
    BY <1>1, GuardNode DEF Outside
  <2> QED
    BY <2>1 DEF VInv, VType, NodeOK
<1>4. m = a /\ place(k) = i /\ ~(k >= max_idx)
  BY <1>2 DEF TakenBy, place
<1>5. max_idx \in Nat
  BY EntriesAssumption DEF max_idx, step_size
<1>6. k \in Index
  BY <1>3, <1>4, <1>5 DEF Index, Multiple
<1>7. AtIndex(m, i) = k
  BY <1>4, <1>6, IndexOfPlace
<1>8. k < max_idx /\ k >= k
  BY <1>3, <1>4, <1>5
<1> QED
  BY <1>4, <1>7, <1>8 DEF Ahead

LEMMA HasKept ==
  ASSUME LInv, VInv, Coprime, NEW t \in Thread, Others(t), Histories(t), Moves(t),
         \A m \in Node : \A i \in Place : EntryKept(t, m, i),
         NEW u \in Thread, NEW v \in Value, Has(u, v)
  PROVE  Has(u, v)' \/ v \in popped'
<1>1. CASE pc[u] = "o_ret" /\ val[u] = v
  BY <1>1 DEF Others, Histories, Has
<1>2. ASSUME NEW m \in Node, NEW i \in Place, entries[m][i] = v, TakenBy(u, m, i) PROVE Has(u, v)'
  <2>0. EntryKept(t, m, i) /\ pc[u] \in Reading /\ g(u) = m /\ place(idx[u]) = i
    BY <1>2 DEF TakenBy, Reading
  <2>1. CASE u # t
    <3>1. TakenBy(u, m, i)'
      BY <1>2, <2>1 DEF Others, TakenBy, place
    <3>2. ~Empties(t, m, i)
      <4>1. pc[t] = "p_link" => g(u) # mine[t]
        BY DEF LInv, FreshOK
      <4>2. pc[t] = "o_spoil" => ~(m = g(t) /\ i = place(idx[t]))
        <5> PICK a, p : a = g(t) /\ p = place(idx[t])
          OBVIOUS
        <5>1. pc[t] = "o_spoil" => ~TakenBy(u, a, p)
          BY <2>1, ReadPlace DEF Reading
        <5> QED
          BY <1>2, <5>1
      <4> QED
        BY <2>0, <4>1, <4>2 DEF Empties
    <3>3. entries'[m][i] = v
      BY <1>2, <2>0, <3>2 DEF EntryKept
    <3> QED
      BY <3>1, <3>3 DEF Has
  <2>2. CASE u = t
    <3>1. Entry(t) = v /\ v # NoValue
      BY <1>2, <2>0, <2>2, ValueAssumption DEF Entry
    <3>2. CASE pc'[t] = "o_ret"
      BY <2>2, <3>1, <3>2 DEF Moves, Has
    <3>3. CASE pc'[t] \in Reading
      <4>1. pc[t] = "o_read" /\ g(t)' = g(t) /\ idx'[t] = idx[t]
        BY <2>0, <2>2, <3>3 DEF Moves, PopIdx, Goto, Reading
      <4>2. TakenBy(t, m, i)'
        BY <2>0, <2>2, <3>3, <4>1 DEF TakenBy, place, Reading
      <4>3. entries'[m][i] = v
        BY <1>2, <2>0, <4>1 DEF EntryKept, Empties
      <4> QED
        BY <2>2, <4>2, <4>3 DEF Has
    <3> QED
      BY <2>0, <2>2, <3>1, <3>2, <3>3 DEF Moves
  <2> QED
    BY <2>1, <2>2
<1> QED
  BY <1>1, <1>2 DEF Has

\* A value comes to a try_pop with its index, or with the push that stores it.
LEMMA HasBack ==
  ASSUME LInv, VInv, Coprime, NEW t \in Thread, Others(t), Histories(t), Moves(t),
         \A m \in Node : \A i \in Place : EntryKept(t, m, i),
         NEW u \in Thread, NEW v \in Value, Has(u, v)'
  PROVE  \/ Has(u, v)
         \/ \E m \in Node : \E i \in Place :
               /\ PopIdx(t) /\ m = g(t) /\ entries[m][i] = v
               /\ AtIndex(m, i) = pop_idx[m] /\ Ahead(m, i) /\ pop_idx[m] < max_idx
         \/ \E m \in Node : \E i \in Place :
               /\ pc[t] = "p_cas" /\ v = val[t] /\ m = g(t) /\ i = place(idx[t]) /\ TakenBy(u, m, i)
<1>1. CASE pc'[u] = "o_ret" /\ val'[u] = v
  <2>1. CASE u # t
    BY <1>1, <2>1 DEF Others, Has
  <2>2. CASE u = t
    <3> PICK a, p : a = g(t) /\ p = place(idx[t])
      OBVIOUS
    <3>1. pc[t] \in Reading /\ v = entries[a][p]
      BY <1>1, <2>2 DEF Moves, Entry
    <3>2. a \in Node /\ p \in Place /\ TakenBy(t, a, p)
      BY <3>1, ReadPlace DEF TakenBy, Reading
    <3> QED
      BY <2>2, <3>1, <3>2 DEF Has
  <2> QED
    BY <2>1, <2>2
<1>2. CASE \E m \in Node : \E i \in Place : entries'[m][i] = v /\ TakenBy(u, m, i)'
  <2> PICK m \in Node, i \in Place : entries'[m][i] = v /\ TakenBy(u, m, i)'
    BY <1>2
  <2>0. EntryKept(t, m, i)
    OBVIOUS
  <2>1. CASE u # t
    <3>1. TakenBy(u, m, i)
      BY <2>1 DEF Others, TakenBy, place
    <3>2. CASE entries[m][i] = v
      BY <3>1, <3>2 DEF Has
    <3>3. CASE entries[m][i] # v
      <4>1. v = val[t] /\ Stores(t, m, i)
        BY <2>0, <3>3 DEF EntryKept
      <4>2. status[m] # "free"
        BY <3>1, GuardNode DEF TakenBy, Outside
      <4> QED
        BY <3>1, <4>1, <4>2 DEF Stores
    <3> QED
      BY <3>2, <3>3
  <2>2. CASE u = t
    <3>1. pc'[t] \in Reading
      BY <2>2 DEF TakenBy, Reading
    <3>2. pc[t] \notin {"p_cas", "p_next"}
      BY <3>1 DEF Moves, PopIdx, Goto, Reading
    <3>3. entries[m][i] = v
      BY <2>0, <3>2 DEF EntryKept, Stores
    <3>4. CASE PopIdx(t)
      BY <2>2, <3>3, <3>4, GivenIndex
    <3>5. CASE ~PopIdx(t)
      <4>1. pc[t] = "o_read" /\ g(t)' = g(t) /\ idx'[t] = idx[t]
        BY <3>1, <3>5 DEF Moves
      <4>2. TakenBy(t, m, i)
        BY <2>2, <4>1 DEF TakenBy, place
      <4> QED
        BY <2>2, <3>3, <4>2 DEF Has
    <3> QED
      BY <3>4, <3>5
  <2> QED
    BY <2>1, <2>2
<1> QED
  BY <1>1, <1>2 DEF Has

LEMMA HeldOrAhead ==
  ASSUME LInv, VInv, Coprime, NEW t \in Thread, Others(t), Moves(t), NEW m \in Node, NEW i \in Place, Held(m,
         i)'
  PROVE  Held(m, i) \/ Ahead(m, i)
<1> PICK u \in Thread : TakenBy(u, m, i)'
  BY DEF Held
<1>1. CASE u # t
  BY <1>1 DEF Others, TakenBy, place, Held
<1>2. CASE u = t
  <2>1. CASE PopIdx(t)
    BY <1>2, <2>1, GivenIndex
  <2>2. CASE ~PopIdx(t)
    BY <1>2, <2>2 DEF Moves, TakenBy, place, Held, Reading
  <2> QED
    BY <2>1, <2>2
<1> QED
  BY <1>1, <1>2

LEMMA InKept ==
  ASSUME NEW t \in Thread, Others(t), Histories(t), Moves(t), NEW v, In(v)
  PROVE  In(v)'
<1>1. pushed \subseteq pushed'
  BY DEF Histories
<1>2. pc[t] = "p_swing" => val[t] \in pushed'
  BY DEF Histories, Moves, PushPC
<1> QED
  BY <1>1, <1>2 DEF In, Others

LEMMA SpentBack ==
  ASSUME LInv, VInv, Coprime, NEW t \in Thread, Others(t), Histories(t), Moves(t), NEW v \in Value, Spent(v)'
  PROVE  \/ Spent(v)
         \/ \E m \in Node : \E i \in Place :
               /\ pc[t] \in Reading /\ pc'[t] = "o_ret" /\ val'[t] = v
               /\ entries[m][i] = v /\ TakenBy(t, m, i)
<1>1. CASE v \in popped'
  BY <1>1 DEF Histories, Spent
<1>2. CASE \E u \in Thread \ {t} : pc'[u] = "o_ret" /\ val'[u] = v
  BY <1>2 DEF Others, Spent
<1>3. CASE pc'[t] = "o_ret" /\ val'[t] = v
  <2> PICK a, p : a = g(t) /\ p = place(idx[t])
    OBVIOUS
  <2>1. pc[t] \in Reading /\ v = entries[a][p]
    BY <1>3 DEF Moves, Entry
  <2>2. a \in Node /\ p \in Place /\ TakenBy(t, a, p)
    BY <2>1, ReadPlace DEF TakenBy, Reading
  <2> QED
    BY <1>3, <2>1, <2>2
<1> QED
  BY <1>1, <1>2, <1>3 DEF Spent

-----------------------------------------------------------------------------
(* First in, first out: a value is in one entry                            *)

\* The value of a push that has not stored it is nowhere else.
LEMMA Unstored ==
  ASSUME VInv, CallsOK, SInv, NEW t \in Thread, pc[t] \in PushPC \ {"p_link", "p_swing"}
  PROVE  /\ val[t] \in Value /\ ~In(val[t]) /\ ~Spent(val[t])
         /\ \A m \in Node : \A i \in Place : entries[m][i] # val[t]
<1> PICK w : w = val[t]
  OBVIOUS
<1>1. w \in Value
  BY DEF VInv, VType, IdxOK
<1>2. w \notin pushed /\ \A u \in Thread : pc[u] \in PushPC /\ val[u] = w => u = t
  BY DEF CallsOK
<1>3. ~In(w)
  BY <1>2 DEF In, PushPC
<1>4. ~Spent(w)
  BY <1>1, <1>3 DEF SInv, SpentOK
<1>5. ASSUME NEW m \in Node, NEW i \in Place, entries[m][i] = w PROVE FALSE
  <2>1. \E u \in Thread : pc[u] = "p_link" /\ val[u] = w
    BY <1>1, <1>3, <1>5 DEF SInv, StoredOK
  <2> QED
    BY <1>2, <2>1 DEF PushPC
<1> QED
  BY <1>1, <1>3, <1>4, <1>5

\* So is that of a push whose new node is not linked.
LEMMA Unlinked ==
  ASSUME VInv, CallsOK, SInv, NEW t \in Thread, pc[t] = "p_link"
  PROVE  /\ val[t] \in Value /\ ~In(val[t]) /\ ~Spent(val[t])
         /\ \A m \in Node : \A i \in Place : entries[m][i] = val[t] => m = mine[t]
<1> PICK w : w = val[t]
  OBVIOUS
<1>1. w \in Value
  BY DEF VInv, VType, IdxOK, PushPC
<1>2. w \notin pushed /\ \A u \in Thread : pc[u] \in PushPC /\ val[u] = w => u = t
  BY DEF CallsOK, PushPC
<1>3. ~In(w)
  BY <1>2 DEF In, PushPC
<1>4. ~Spent(w)
  BY <1>1, <1>3 DEF SInv, SpentOK
<1>5. ASSUME NEW m \in Node, NEW i \in Place, entries[m][i] = w PROVE m = mine[t]
  <2>1. \E u \in Thread : pc[u] = "p_link" /\ val[u] = w /\ mine[u] = m
    BY <1>1, <1>3, <1>5 DEF SInv, StoredOK
  <2> QED
    BY <1>2, <2>1 DEF PushPC
<1> QED
  BY <1>1, <1>3, <1>4, <1>5

LEMMA StoredStep ==
  ASSUME LInv, VInv, Coprime, CallsOK, SInv, NEW t \in Thread, Others(t), Histories(t), Moves(t),
         \A m \in Node : \A i \in Place : EntryKept(t, m, i), NEW m \in Node, NEW i \in Place
  PROVE  StoredOK(m, i)'
<1> SUFFICES ASSUME entries'[m][i] \in Value PROVE StoredOK(m, i)'
  BY DEF StoredOK
<1> PICK x \in Value : x = entries'[m][i]
  OBVIOUS
<1>0. ASSUME NEW n \in Node, NEW j \in Place, entries'[n][j] = x
      PROVE  entries[n][j] = x \/ (x = val[t] /\ Stores(t, n, j))
  BY <1>0 DEF EntryKept
<1>1. ASSUME NEW n \in Node, NEW j \in Place, x = val[t], Stores(t, n, j)
      PROVE  /\ ~In(x) /\ ~Spent(x) /\ pc[t] \in {"p_cas", "p_next"}
             /\ \A k \in Node : \A l \in Place : entries[k][l] # x
             /\ \A u \in Thread : pc[u] \in PushPC /\ val[u] = x => u = t
  <2>1. pc[t] \in {"p_cas", "p_next"}
    BY <1>1 DEF Stores
  <2> QED
    BY <1>1, <2>1, Unstored DEF CallsOK, PushPC
<1>2. entries[m][i] = x => StoredOK(m, i)
  BY DEF SInv
<1>3. ASSUME NEW n \in Node, NEW j \in Place, entries'[n][j] = x PROVE n = m /\ j = i
  <2>1. CASE entries[m][i] = x /\ entries[n][j] = x
    BY <1>2, <2>1 DEF StoredOK
  <2>2. CASE x = val[t] /\ Stores(t, m, i)
    BY <1>0, <1>1, <1>3, <2>2 DEF Stores
  <2>3. CASE x = val[t] /\ Stores(t, n, j)
    BY <1>0, <1>1, <2>3 DEF Stores
  <2> QED
    BY <1>0, <1>3, <2>1, <2>2, <2>3
<1>4. In(x)' \/ \E u \in Thread : pc'[u] = "p_link" /\ val'[u] = x /\ mine'[u] = m
  <2>1. CASE entries[m][i] = x /\ In(x)
    BY <2>1, InKept
  <2>2. CASE entries[m][i] = x /\ \E u \in Thread : pc[u] = "p_link" /\ val[u] = x /\ mine[u] = m
    <3> PICK u \in Thread : pc[u] = "p_link" /\ val[u] = x /\ mine[u] = m
      BY <2>2
    <3>1. CASE u # t
      BY <3>1 DEF Others
    <3>2. CASE u = t
      <4>1. pc'[t] # "p_acq"
        BY <3>2 DEF EntryKept
      <4>2. pc'[t] = "p_swing" /\ val'[t] = x
        BY <3>2, <4>1 DEF Moves, PushPC, Begins
      <4> QED
        BY <4>2 DEF In
    <3> QED
      BY <3>1, <3>2
  <2>3. CASE x = val[t] /\ Stores(t, m, i)
    <3>1. CASE pc[t] = "p_cas"
      BY <2>3, <3>1 DEF Stores, Histories, PushPC, In
    <3>2. CASE pc[t] = "p_next"
      <4>1. pc'[t] = "p_link" /\ m = mine'[t] /\ val'[t] = x
        BY <2>3, <3>2 DEF Stores, Moves, PushPC, Begins
      <4> QED
        BY <4>1
    <3> QED
      BY <2>3, <3>1, <3>2 DEF Stores
  <2> QED
    BY <1>0, <1>2, <2>1, <2>2, <2>3 DEF StoredOK
<1>5. ASSUME NEW u \in Thread, pc'[u] = "p_swing", val'[u] = x PROVE mine'[u] = m
  <2>1. CASE u # t
    <3>1. pc[u] = "p_swing" /\ val[u] = x /\ mine'[u] = mine[u]
      BY <1>5, <2>1 DEF Others
    <3>2. entries[m][i] = x
      BY <1>0, <1>1, <2>1, <3>1 DEF PushPC
    <3> QED
      BY <1>2, <3>1, <3>2 DEF StoredOK
  <2>2. CASE u = t
    <3>1. pc[t] = "p_link" /\ val'[t] = val[t] /\ mine' = mine
      BY <1>5, <2>2 DEF Moves, PushLink, Goto, Quiet
    <3>2. entries[m][i] = x
      BY <1>0, <3>1 DEF Stores
    <3> QED
      BY <1>5, <2>2, <3>1, <3>2, Unlinked
  <2> QED
    BY <2>1, <2>2
<1>6. ASSUME Spent(x)' PROVE ~Ahead(m, i)' /\ ~Held(m, i)'
  <2>1. entries[m][i] = x
    BY <1>0, <1>1, <1>6, SpentBack DEF Reading
  <2>2. ~(pc[t] = "p_next" /\ status[m] = "free")
    BY <2>1, ValueAssumption DEF VInv, NodeOK
  <2>3. CASE Spent(x)
    <3>1. ~Ahead(m, i) /\ ~Held(m, i)
      BY <1>2, <2>1, <2>3 DEF StoredOK
    <3> QED
      BY <2>2, <3>1, HeldOrAhead DEF EntryKept
  <2>4. CASE /\ pc[t] \in Reading /\ pc'[t] = "o_ret"
             /\ \E n \in Node : \E j \in Place : entries[n][j] = x /\ TakenBy(t, n, j)
    <3>1. TakenBy(t, m, i)
      BY <1>2, <2>1, <2>4 DEF StoredOK
    <3> PICK a, p : a = g(t) /\ p = place(idx[t])
      OBVIOUS
    <3>2. m = a /\ i = p
      BY <3>1 DEF TakenBy
    <3>3. ~Ahead(m, i) /\ \A u \in Thread \ {t} : ~TakenBy(u, m, i)
      BY <2>4, <3>2, ReadPlace
    <3>4. ~Ahead(m, i)'
      BY <2>2, <3>3 DEF EntryKept
    <3>5. \A u \in Thread : ~TakenBy(u, m, i)'
      BY <2>4, <3>3 DEF Others, TakenBy, place, Reading
    <3> QED
      BY <3>4, <3>5 DEF Held
  <2> QED
    BY <1>6, <2>3, <2>4, SpentBack
<1> QED
  BY <1>3, <1>4, <1>5, <1>6 DEF StoredOK

LEMMA SpentStep ==
  ASSUME LInv, VInv, Coprime, CallsOK, SInv, NEW t \in Thread, Others(t), Histories(t), Moves(t)
  PROVE  SpentOK'
<1>1. ASSUME NEW v \in Value, NEW m \in Node, NEW i \in Place, entries[m][i] = v, TakenBy(t, m, i)
      PROVE  In(v) /\ ~Spent(v)
  <2>1. StoredOK(m, i) /\ Held(m, i)
    BY <1>1 DEF SInv, Held
  <2>2. \A u \in Thread : pc[u] = "p_link" => mine[u] # m
    BY <1>1 DEF LInv, FreshOK, TakenBy
  <2> QED
    BY <1>1, <2>1, <2>2 DEF StoredOK
<1>2. ASSUME NEW v \in Value, Spent(v)' PROVE In(v)'
  <2>1. In(v)
    BY <1>1, <1>2, SpentBack DEF SInv, SpentOK
  <2> QED
    BY <2>1, InKept
<1>3. ASSUME pc'[t] = "o_ret" PROVE val'[t] \in Value /\ ~Spent(val'[t]) /\ popped' = popped
  <2> PICK a, p : a = g(t) /\ p = place(idx[t])
    OBVIOUS
  <2> PICK w : w = val'[t]
    OBVIOUS
  <2>1. pc[t] \in Reading /\ w = entries[a][p]
    BY <1>3 DEF Moves, Entry
  <2>2. a \in Node /\ p \in Place /\ TakenBy(t, a, p) /\ w \in Value \union {NoValue}
    BY <2>1, ReadPlace DEF TakenBy, Reading
  <2>3. w # NoValue
    BY <1>3 DEF Moves
  <2> QED
    BY <1>1, <2>1, <2>2, <2>3 DEF Histories, Reading
<1>4. ASSUME NEW u \in Thread, pc'[u] = "o_ret"
      PROVE  /\ val'[u] \notin popped'
             /\ \A w \in Thread : pc'[w] = "o_ret" /\ val'[w] = val'[u] => w = u
  <2>1. CASE u = t
    BY <1>3, <1>4, <2>1 DEF Others, Spent
  <2>2. CASE u # t
    <3>1. pc[u] = "o_ret" /\ val'[u] = val[u] /\ val[u] \notin popped
          /\ \A w \in Thread : pc[w] = "o_ret" /\ val[w] = val[u] => w = u
      BY <1>4, <2>2 DEF Others, SInv, SpentOK
    <3>2. val[u] \notin popped'
      BY <2>2, <3>1 DEF Histories
    <3>3. pc'[t] = "o_ret" => val'[t] # val[u]
      BY <1>3, <3>1 DEF Spent
    <3> QED
      BY <3>1, <3>2, <3>3 DEF Others
  <2> QED
    BY <2>1, <2>2
<1> QED
  BY <1>2, <1>4 DEF SpentOK

-----------------------------------------------------------------------------
(* First in, first out: the histories and the list                         *)

LEMMA RetiredStep ==
  ASSUME LInv, NEW t \in Thread, PushStep(t) \/ PopStep(t), NEW m \in Node, status'[m] = "retired"
  PROVE  status[m] = "retired" \/ pc[t] = "o_retire"
<1>1. CASE PushStep(t)
  <2>1. CASE \E n \in Node : PushNew(t, n)
    BY <2>1 DEF PushNew, R!Allocate, LInv, LType, R!RTypeOK
  <2>2. CASE PushLinkFails(t)
    BY <2>2 DEF PushLinkFails, LInv, LType, R!RTypeOK
  <2>3. CASE ~((\E n \in Node : PushNew(t, n)) \/ PushLinkFails(t))
    <3>1. status' = status
      BY <1>1, <2>3 DEF PushStep, Push, PushAcquire, PushIdx, PushTail, PushMustHelp, PushHelp, PushLink,
                        PushSwing,
                        PushCas, PushCasFails, guards, Finish
    <3> QED
      BY <3>1
  <2> QED
    BY <2>1, <2>2, <2>3
<1>2. CASE PopStep(t)
  <2>1. status' = status \/ pc[t] = "o_retire"
    BY <1>2 DEF PopStep, TryPop, PopAcquire, PopLoad, PopCheck, PopNotEmpty, PopEmpty, PopIdx, PopNext, PopCas,
           PopCasFails, PopRetire, PopRead, PopGiveUp, PopSpoilFinds, PopSpoil, PopReturn, PopFound, Finish,
           Goto,
           guards
  <2> QED
    BY <2>1
<1> QED
  BY <1>1, <1>2

LEMMA PopsStep ==
  ASSUME NEW t \in Thread, PushStep(t) \/ PopStep(t)
  PROVE  pops' = pops \/ pops' = pops + 1
<1>1. CASE PushStep(t)
  BY <1>1 DEF PushStep, Push, PushAcquire, PushIdx, PushTail, PushMustHelp, PushHelp, PushNew, PushLink,
              PushLinkFails, PushSwing, PushCas, PushCasFails, Quiet, Finish
<1>2. CASE PopStep(t)
  BY <1>2 DEF PopStep, TryPop, PopAcquire, PopLoad, PopCheck, PopNotEmpty, PopEmpty, PopIdx, PopNext, PopCas,
              PopCasFails, PopRetire, PopRead, PopGiveUp, PopSpoilFinds, PopSpoil, PopReturn, PopFound, Finish,
              Quiet
<1> QED
  BY <1>1, <1>2

LEMMA HistoryStep ==
  ASSUME NEW p, LInv, VInv, RolesOK(p), SInv, NEW t \in Thread, PushStep(t) \/ PopStep(t), Histories(t)
  PROVE  HistoryOK'
<1>1. pc[t] = "o_ret" => val[t] \in Value
  BY DEF VInv, VType, IdxOK
<1>2. popped' \in SUBSET Value /\ popped \subseteq popped' /\ pushed \subseteq pushed'
  BY <1>1 DEF Histories, SInv, HistoryOK
<1>3. before' \in SUBSET (pushed' \X Value)
  BY <1>2 DEF Histories, Begins, SInv, HistoryOK
<1>4. late' \in [Thread -> SUBSET popped']
  <2>1. late \in [Thread -> SUBSET popped']
    BY <1>2 DEF SInv, HistoryOK
  <2> QED
    BY <1>2, <2>1 DEF Histories
<1>5. ASSUME pops' = 0, NEW m \in Node PROVE status'[m] # "retired"
  <2>1. pops \in Nat /\ (pc[t] = "o_retire" => pops # 0)
    BY DEF RolesOK, PopPC
  <2>2. pops = 0
    BY <1>5, <2>1, PopsStep
  <2> QED
    BY <2>1, <2>2, RetiredStep DEF SInv, HistoryOK
<1> QED
  BY <1>2, <1>3, <1>4, <1>5 DEF HistoryOK

\* Only the CAS of push changes a link of the list.
LEMMA LinkKept ==
  ASSUME LInv, NEW t \in Thread, PushStep(t) \/ PopStep(t), ~PushLink(t), NEW m \in Node, status[m] # "free"
  PROVE  next'[m] = next[m]
<1>1. ASSUME NEW n \in Node, PushNew(t, n) PROVE next'[m] = next[m]
  BY <1>1 DEF PushNew, R!Allocate, LInv, LType
<1>2. ASSUME PushStep(t), \A n \in Node : ~PushNew(t, n) PROVE next'[m] = next[m]
  BY <1>2 DEF PushStep, Push, PushAcquire, PushIdx, PushTail, PushMustHelp, PushHelp,
              PushLinkFails, PushSwing, PushCas, PushCasFails, nodes
<1>3. ASSUME PopStep(t) PROVE next'[m] = next[m]
  BY <1>3 DEF PopStep, TryPop, PopAcquire, PopLoad, PopCheck, PopNotEmpty, PopEmpty, PopIdx, PopNext, PopCas,
              PopCasFails, PopRetire, PopRead, PopGiveUp, PopSpoilFinds, PopSpoil, PopReturn, nodes
<1> QED
  BY <1>1, <1>2, <1>3

\* _tail moves to the next node, or it stays.
TailSwings(t) == /\ qtail = g(t) /\ qtail' = next[qtail] /\ pc[t] \in {"p_help", "p_swing"}
                /\ next' = next /\ pc'[t] \in {"p_acq", "idle"}
TailStays(t) == qtail' = qtail /\ (pc[t] = "p_swing" => qtail # g(t))

LEMMA TailSteps ==
  ASSUME LInv, VInv, NEW t \in Thread, PusherOK(t), PushStep(t) \/ PopStep(t)
  PROVE  TailSwings(t) \/ TailStays(t)
<1>1. CASE PushHelp(t)
  <2>1. /\ pc[t] = "p_help" /\ pc'[t] = "p_acq" /\ next' = next
        /\ qtail' = IF qtail = g(t) THEN next[g(t)] ELSE qtail
    BY <1>1, Goes DEF PushHelp, SwingTail
  <2> QED
    BY <2>1 DEF TailSwings, TailStays
<1>2. CASE PushSwing(t)
  <2>1. /\ pc[t] = "p_swing" /\ pc'[t] = "idle" /\ next' = next
        /\ qtail' = IF qtail = g(t) THEN mine[t] ELSE qtail
    BY <1>2, FinishLocal DEF PushSwing, SwingTail
  <2> QED
    BY <2>1 DEF TailSwings, TailStays, PusherOK
<1>3. CASE ~(PushHelp(t) \/ PushSwing(t))
  <2>1. CASE PushStep(t)
    BY <1>3, <2>1 DEF PushStep, Push, PushAcquire, PushIdx, PushTail, PushMustHelp, PushNew, PushLink,
              PushLinkFails, PushCas, PushCasFails, Finish, Goto, nodes, TailStays
  <2>2. CASE PopStep(t)
    BY <2>2 DEF PopStep, TryPop, PopAcquire, PopLoad, PopCheck, PopNotEmpty, PopEmpty, PopIdx, PopNext, PopCas,
              PopCasFails, PopRetire, PopRead, PopGiveUp, PopSpoilFinds, PopSpoil, PopReturn, PopFound, Finish,
              Goto,
              nodes, TailStays
  <2> QED
    BY <2>1, <2>2
<1> QED
  BY <1>1, <1>2, <1>3

-----------------------------------------------------------------------------
(* First in, first out: the order of the nodes                             *)

LEMMA RankSame ==
  ASSUME NEW r, RankOK(r), Listed' = Listed, qhead' = qhead, \A m \in Listed : next'[m] = next[m]
  PROVE  RankOK(r)'
BY DEF RankOK

\* The node of a push that has seen no successor is the last one of the list.
LEMMA LastListed ==
  ASSUME LInv, NEW t \in Thread, pc[t] \notin Outside, next[g(t)] = Null
  PROVE  g(t) \in Listed
<1> PICK a : a = g(t)
  OBVIOUS
<1>1. a \in Node /\ status[a] # "free" /\ ~Fresh(a) /\ next[a] = Null
  BY GuardNode
<1>2. status[a] # "retired" /\ ~Taken(a)
  BY <1>1 DEF LInv, UnlinkedOK
<1> QED
  BY <1>1, <1>2 DEF Listed, LInv, LType, R!RTypeOK

LEMMA RankLink ==
  ASSUME LInv, ListOK, NEW t \in Thread, PushLink(t), NEW r \in [Node -> Nat], RankOK(r)
  PROVE  \E s \in [Node -> Nat] :
            /\ RankOK(s)'
            /\ \A m \in Listed : s[m] = r[m] /\ \A n \in Listed' \ Listed : s[m] < s[n]
<1> PICK a : a = g(t)
  OBVIOUS
<1> PICK m : m = mine[t]
  OBVIOUS
<1>1. /\ pc[t] = "p_link" /\ next[a] = Null /\ next' = [next EXCEPT ![a] = m] /\ qhead' = qhead
  BY DEF PushLink, Goto
<1>2. /\ m \in Node /\ m \notin Listed /\ next[m] = Null /\ m # Null
  BY <1>1, NodeAssumption DEF LInv, FreshOK, Listed, Fresh
<1>3. a \in Listed
  BY <1>1, LastListed DEF Outside
<1>4. Listed' = Listed \union {m} /\ Listed \subseteq Node
  BY LinkStep DEF Listed
<1>5. next'[a] = m /\ next'[m] = Null /\ \A n \in Listed \ {a} : next'[n] = next[n]
  BY <1>1, <1>2, <1>3, <1>4 DEF LInv, LType
<1> DEFINE s == [r EXCEPT ![m] = r[a] + 1]
<1>6. s \in [Node -> Nat] /\ s[m] = r[a] + 1 /\ \A n \in Listed : s[n] = r[n]
  BY <1>2, <1>3, <1>4
<1> HIDE DEF s
<1>7. \A n \in Listed : r[n] \in Nat /\ r[n] <= r[a] /\ s[n] < s[m]
  BY <1>1, <1>3, <1>4, <1>6 DEF RankOK
<1>8. ASSUME NEW n \in Listed', next'[n] # Null PROVE s[next'[n]] = s[n] + 1
  <2>1. CASE n = a
    BY <1>3, <1>5, <1>6, <2>1
  <2>2. CASE n # a
    <3>1. n \in Listed /\ next'[n] = next[n]
      BY <1>4, <1>5, <1>8, <2>2
    <3>2. next[n] \in Listed
      BY <1>8, <3>1 DEF ListOK
    <3> QED
      BY <1>6, <1>8, <3>1, <3>2 DEF RankOK
  <2> QED
    BY <2>1, <2>2
<1>9. ASSUME NEW n \in Listed', NEW k \in Listed', s[n] = s[k] PROVE n = k
  BY <1>4, <1>6, <1>7, <1>9 DEF RankOK
<1>10. ASSUME NEW n \in Listed' PROVE s[qhead'] <= s[n]
  <2>1. qhead \in Listed /\ r[qhead] <= r[a] /\ (n \in Listed => r[qhead] <= r[n])
    BY <1>3 DEF ListOK, RankOK
  <2> QED
    BY <1>1, <1>3, <1>4, <1>6, <1>7, <2>1
<1>11. ASSUME NEW n \in Listed', NEW k \in Listed', next'[n] = Null PROVE s[k] <= s[n]
  <2>1. n = m
    <3>1. ASSUME n \in Listed PROVE FALSE
      <4>1. n # a /\ next[n] = Null
        BY <1>2, <1>5, <1>11, <3>1
      <4>2. r[a] <= r[n] /\ r[n] <= r[a]
        BY <1>3, <1>7, <3>1, <4>1 DEF RankOK
      <4>3. r[n] = r[a]
        BY <1>3, <1>7, <3>1, <4>2
      <4> QED
        BY <1>3, <3>1, <4>1, <4>3 DEF RankOK
    <3> QED
      BY <1>4, <3>1
  <2> QED
    BY <1>3, <1>4, <1>6, <1>7, <2>1
<1>12. RankOK(s)'
  BY <1>6, <1>8, <1>9, <1>10, <1>11 DEF RankOK
<1> QED
  BY <1>4, <1>6, <1>7, <1>12

LEMMA RankCas ==
  ASSUME LInv, ListOK, NEW t \in Thread, PopCas(t), NEW r \in [Node -> Nat], RankOK(r)
  PROVE  RankOK(r)'
<1> PICK a : a = g(t)
  OBVIOUS
<1> PICK b : b = next[a]
  OBVIOUS
<1>1. pc[t] = "o_cas" /\ qhead = a /\ qhead' = b /\ next' = next
  BY DEF PopCas, Goto
<1>2. Listed' = Listed \ {a} /\ a \in Listed /\ Listed \subseteq Node
  BY <1>1, PopCasStep DEF ListOK, Listed
<1>3. b # Null /\ r[b] = r[a] + 1
  BY <1>1, <1>2 DEF LInv, GuardOK, RankOK
<1>4. ASSUME NEW n \in Listed' PROVE r[qhead'] <= r[n]
  <2>1. r[a] <= r[n] /\ r[a] # r[n] /\ r[a] \in Nat /\ r[n] \in Nat
    BY <1>1, <1>2, <1>4 DEF RankOK
  <2> QED
    BY <1>1, <1>3, <2>1
<1> QED
  BY <1>1, <1>2, <1>4 DEF RankOK

\* What a step of a thread does to the order of the list
Extends(r, s) == \A m \in Listed : s[m] = r[m] /\ \A n \in Listed' \ Listed : s[m] < s[n]

LEMMA RankStep ==
  ASSUME LInv, ListOK, TailListed, NEW t \in Thread, PushStep(t) \/ PopStep(t), NEW r \in [Node -> Nat],
         RankOK(r)
  PROVE  \E s \in [Node -> Nat] : RankOK(s)' /\ Extends(r, s)
<1>1. CASE PushLink(t)
  BY <1>1, RankLink DEF Extends
<1>2. CASE PopCas(t)
  <2>1. Listed' \subseteq Listed
    BY <1>2, PopCasStep
  <2> QED
    BY <1>2, <2>1, RankCas DEF Extends
<1>3. CASE ~PushLink(t) /\ ~PopCas(t)
  <2>1. Listed' = Listed
    BY <1>3, PushLNext, PopLNext DEF ListGrows
  <2>2. qhead' = qhead
    <3>1. CASE PushStep(t)
      BY <3>1 DEF PushStep, Push, PushAcquire, PushIdx, PushTail, PushMustHelp, PushHelp, PushNew, PushLink,
                  PushLinkFails, PushSwing, PushCas, PushCasFails, nodes
    <3>2. CASE PopStep(t)
      BY <1>3, <3>2 DEF PopStep, TryPop, PopAcquire, PopLoad, PopCheck, PopNotEmpty, PopEmpty, PopIdx, PopNext,
                  PopCasFails, PopRetire, PopRead, PopGiveUp, PopSpoilFinds, PopSpoil, PopReturn, nodes
    <3> QED
      BY <3>1, <3>2
  <2>3. \A m \in Listed : next'[m] = next[m]
    BY <1>3, LinkKept DEF Listed
  <2> QED
    BY <2>1, <2>2, <2>3, RankSame DEF Extends
<1> QED
  BY <1>1, <1>2, <1>3

-----------------------------------------------------------------------------
(* First in, first out: the order of the values                            *)

LEMMA FirstWaits ==
  ASSUME VInv, ~Closed, NEW v \in pushed, ~Left(v)
  PROVE  \E n \in Node : \E j \in Place : Waiting(v, n, j)
<1>1. Located(v)
  BY DEF VInv, PutOK
<1>2. PICK n \in Node, j \in Place : InPlace(v, n, j)
  BY <1>1 DEF Located, Left, Has
<1>3. ~Held(n, j)
  BY <1>2 DEF InPlace, Held, Left, Has
<1> QED
  BY <1>2, <1>3 DEF InPlace, Waiting

LEMMA LeftKept ==
  ASSUME LInv, VInv, Coprime, NEW t \in Thread, Others(t), Histories(t), Moves(t),
         \A m \in Node : \A i \in Place : EntryKept(t, m, i), NEW v \in Value, Left(v)
  PROVE  Left(v)'
<1>1. popped \subseteq popped'
  BY DEF Histories
<1> QED
  BY <1>1, HasKept DEF Left

\* The push that begins has a value that is nowhere yet.
LEMMA NewPair ==
  ASSUME VInv, SInv, NEW t \in Thread, Others(t), Histories(t), Begins(t),
         \A m \in Node : \A i \in Place : EntryKept(t, m, i), NEW b, b = val'[t]
  PROVE  /\ b \notin popped /\ ~Left(b)'
         /\ \A m \in Node : \A i \in Place : entries'[m][i] # b
         /\ \A u \in Thread : ~(pc'[u] \in Placing /\ val'[u] = b)
<1>1. /\ b \in Value /\ b \notin pushed /\ \A u \in Thread : val[u] # b
      /\ pc[t] = "idle" /\ pc'[t] = "p_acq" /\ popped' = popped
  BY DEF Begins, Histories
<1>2. ~In(b) /\ ~Spent(b)
  BY <1>1 DEF In, SInv, SpentOK
<1>3. \A m \in Node : \A i \in Place : entries[m][i] # b
  BY <1>1, <1>2 DEF SInv, StoredOK
<1>4. \A m \in Node : \A i \in Place : entries'[m][i] # b
  BY <1>1, <1>3 DEF EntryKept
<1>5. \A u \in Thread : ~(pc'[u] \in Placing \union {"o_ret"} /\ val'[u] = b)
  BY <1>1 DEF Others, Placing
<1>6. b \notin popped
  BY <1>2 DEF Spent
<1>7. ~Left(b)'
  BY <1>1, <1>4, <1>5, <1>6 DEF Left, Has
<1> QED
  BY <1>4, <1>5, <1>6, <1>7

\* What a try_pop is given, or what a push stores under its eyes, is in the first
\* node, and nothing stands before it.
LEMMA LeavesStep ==
  ASSUME LInv, VInv, Coprime, ~Closed, \A u \in Thread : PopOK(u),
         NEW t \in Thread, Others(t), Histories(t), Moves(t),
         \A m \in Node : \A i \in Place : EntryKept(t, m, i),
         NEW r \in [Node -> Nat], RankOK(r), NEW v \in pushed, NEW b \in Value, LeavesFirst(v, b),
         StandsFirst(r, v, b), PlacedFirst(r, v, b)
  PROVE  LeavesFirst(v, b)'
<1> SUFFICES ASSUME Left(b)', ~Left(v) PROVE FALSE
  <2>1. v \in Value
    BY DEF VInv, VType
  <2> QED
    BY <2>1, LeftKept DEF LeavesFirst
<1> PICK n \in Node, j \in Place : Waiting(v, n, j)
  BY FirstWaits
<1> DEFINE x == AtIndex(n, j)
<1>0. /\ ~Left(b) /\ entries[n][j] = v /\ n \in Listed /\ x >= pop_idx[n] /\ x \in Nat
      /\ qhead \in Listed /\ r[qhead] <= r[n] /\ Listed \subseteq Node
  <2>1. x \in Nat
    BY IndexOfPlace DEF Index, Multiple
  <2> QED
    BY <2>1 DEF LeavesFirst, Waiting, Ahead, LInv, ListOK, RankOK, Listed
<1> HIDE DEF x
<1>1. PICK u \in Thread : Has(u, b)'
  BY <1>0 DEF Left, Histories, Has
<1>2. ASSUME NEW m \in Node, NEW i \in Place, PopIdx(t), m = g(t), entries[m][i] = b,
             AtIndex(m, i) = pop_idx[m], pop_idx[m] < max_idx
      PROVE  FALSE
  <2>1. pc[t] = "o_idx"
    BY <1>2 DEF PopIdx, Goto
  <2>2. status[m] # "free" /\ ~Fresh(m)
    BY <1>2, <2>1, GuardNode DEF Outside
  <2>3. pop_idx[m] \in Nat /\ max_idx \in Nat
    BY EntriesAssumption DEF VInv, VType, max_idx, step_size
  <2>4. m \in Listed
    BY <1>2, <2>2, <2>3 DEF VInv, NodeOK
  <2>5. m = qhead
    BY <1>2, <2>1, <2>4 DEF PopOK, PopPC
  <2>6. Less(r, n, j, m, i)
    BY <1>2, <2>4 DEF StandsFirst
  <2>7. n = m /\ x < pop_idx[m]
    BY <1>0, <1>2, <2>5, <2>6 DEF Less, x
  <2> QED
    BY <1>0, <2>3, <2>7
<1>3. ASSUME NEW m \in Node, NEW i \in Place, pc[t] = "p_cas", b = val[t], m = g(t),
             i = place(idx[t]), TakenBy(u, m, i)
      PROVE  FALSE
  <2>1. /\ g(t) \in Listed /\ r[n] <= r[m] /\ (n = m => x < idx[t])
    BY <1>3 DEF PlacedFirst, Placing, x
  <2>2. m = qhead
    BY <1>3, <2>1 DEF PopOK, PopPC, TakenBy
  <2>3. n = m
    BY <1>0, <2>1, <2>2 DEF RankOK
  <2>4. idx[t] \in Index /\ idx[u] \in Index /\ idx[u] < pop_idx[m] /\ place(idx[u]) = place(idx[t])
    BY <1>3 DEF VInv, IdxOK, TakenBy
  <2>5. idx[u] = idx[t]
    BY <2>4, IndexOfPlace
  <2>6. idx[u] \in Nat /\ pop_idx[m] \in Nat
    BY DEF VInv, VType
  <2> QED
    BY <1>0, <2>1, <2>3, <2>4, <2>5, <2>6
<1>4. ~Has(u, b)
  BY <1>0 DEF Left
<1> QED
  BY <1>1, <1>2, <1>3, <1>4, HasBack

LEMMA StandsStep ==
  ASSUME LInv, VInv, Coprime, NEW t \in Thread, Others(t),
         \A m \in Node : \A i \in Place : EntryKept(t, m, i), WaitsBack,
         NEW r \in [Node -> Nat], RankOK(r), NEW s \in [Node -> Nat], Extends(r, s),
         NEW v \in pushed, NEW b \in Value, StandsFirst(r, v, b), PlacedFirst(r, v, b)
  PROVE  StandsFirst(s, v, b)'
<1>1. ASSUME NEW m \in Node, NEW n \in Node, NEW i \in Place, NEW j \in Place,
             Waiting(v, m, i)', n \in Listed', entries'[n][j] = b
      PROVE  Less(s, m, i, n, j)
  <2>1. Waiting(v, m, i) /\ m \in Listed /\ s[m] = r[m]
    BY <1>1 DEF WaitsBack, Waiting, Extends
  <2>2. CASE n \in Listed /\ entries[n][j] = b
    BY <2>1, <2>2 DEF StandsFirst, Less, Extends
  <2>3. CASE n \notin Listed
    BY <1>1, <2>1, <2>3 DEF Less, Extends
  <2>4. CASE n \in Listed /\ entries[n][j] # b
    <3>1. b = val[t] /\ Stores(t, n, j)
      BY <1>1, <2>4 DEF EntryKept
    <3>2. pc[t] = "p_cas" /\ n = g(t) /\ j = place(idx[t])
      BY <2>4, <3>1 DEF Stores, Listed
    <3>3. r[m] <= r[n] /\ (m = n => AtIndex(m, i) < idx[t])
      BY <2>1, <3>1, <3>2 DEF PlacedFirst, Placing
    <3>4. AtIndex(n, j) = idx[t]
      BY <3>2, IndexOfPlace DEF VInv, IdxOK
    <3>5. m # n => r[m] < r[n]
      BY <2>1, <2>4, <3>3 DEF RankOK
    <3>6. s[n] = r[n]
      BY <2>4 DEF Extends
    <3> QED
      BY <2>1, <3>3, <3>4, <3>5, <3>6 DEF Less
  <2> QED
    BY <2>2, <2>3, <2>4
<1>2. \A m, n \in Node : \A i, j \in Place : Less(s, m, i, n, j)' <=> Less(s, m, i, n, j)
  BY DEF Less, AtIndex
<1> QED
  BY <1>1, <1>2 DEF StandsFirst

\* A push takes its node and its index after what it must not overtake.
LEMMA PlacedStep ==
  ASSUME NEW p, LInv, VInv, Coprime, ~Closed, TailListed, TailOK(p), BehindOK,
         NEW t \in Thread, PushStep(t) \/ PopStep(t), Others(t), Moves(t), WaitsBack,
         NEW r \in [Node -> Nat], RankOK(r), NEW s \in [Node -> Nat], Extends(r, s),
         NEW v \in pushed, NEW b \in Value, PlacedFirst(r, v, b)
  PROVE  PlacedFirst(s, v, b)'
<1>1. ASSUME NEW u \in Thread, NEW m \in Node, NEW i \in Place,
             pc'[u] \in Placing, val'[u] = b, Waiting(v, m, i)'
      PROVE  /\ g(u)' \in Listed' /\ s[m] <= s[g(u)']
             /\ pc'[u] = "p_cas" /\ m = g(u)' => AtIndex(m, i) < idx'[u]
  <2>1. /\ Waiting(v, m, i) /\ m \in Listed /\ m \in Listed' /\ s[m] = r[m] /\ entries[m][i] = v
        /\ Listed \subseteq Node
    BY <1>1 DEF WaitsBack, Waiting, Extends, Listed
  <2>2. CASE u # t
    <3> PICK a : a = g(u)
      OBVIOUS
    <3>1. pc[u] \in Placing /\ val[u] = b /\ g(u)' = a /\ pc'[u] = pc[u] /\ idx'[u] = idx[u]
      BY <1>1, <2>2 DEF Others
    <3>2. /\ a \in Listed /\ r[m] <= r[a] /\ s[a] = r[a]
          /\ pc[u] = "p_cas" /\ m = a => AtIndex(m, i) < idx[u]
      BY <2>1, <3>1 DEF PlacedFirst, Extends
    <3>3. a \in Listed'
      <4>1. CASE PopCas(t)
        <5>1. qhead = g(t) /\ Listed' = Listed \ {qhead}
          BY <4>1, PopCasStep DEF PopCas
        <5>2. a # qhead
          <6>1. ASSUME a = qhead PROVE FALSE
            <7>1. r[a] <= r[m]
              BY <2>1, <6>1 DEF RankOK
            <7>2. a = m
              BY <2>1, <3>2, <7>1 DEF RankOK
            <7> QED
              BY <2>1, <5>1, <6>1, <7>2
          <6> QED
            BY <6>1
        <5> QED
          BY <3>2, <5>1, <5>2
      <4>2. CASE ~PopCas(t)
        BY <3>2, <4>2, PushLNext, PopLNext DEF ListGrows
      <4> QED
        BY <4>1, <4>2
    <3> QED
      BY <2>1, <3>1, <3>2, <3>3
  <2>3. CASE u = t /\ PushAcquire(t)
    <3> PICK a : a = qtail
      OBVIOUS
    <3>1. /\ pc[t] = "p_acq" /\ pc'[t] = "p_idx" /\ g(t)' = a
      BY <2>3 DEF PushAcquire, Goto, R!Publish, LInv, LType, R!RTypeOK, g
    <3>2. a \in Listed /\ s[a] = r[a]
      BY <3>1 DEF TailListed, Extends
    <3>3. a \in Listed'
      <4>1. ~PushLink(t) /\ ~PopCas(t)
        BY <3>1 DEF PushLink, PopCas, Goto
      <4> QED
        BY <3>2, <4>1, PushLNext, PopLNext DEF ListGrows
    <3>4. r[m] <= r[a]
      <4> PICK k : k = next[a]
        OBVIOUS
      <4>1. k # m
        BY <2>1 DEF BehindOK
      <4>2. CASE k = Null
        BY <2>1, <3>2, <4>2 DEF RankOK
      <4>3. CASE k # Null
        <5>1. k \in Listed /\ next[k] = Null
          BY <4>3 DEF TailOK
        <5>2. r[m] <= r[k] /\ r[m] # r[k] /\ r[k] = r[a] + 1
          BY <2>1, <3>2, <4>1, <4>3, <5>1 DEF RankOK
        <5>3. r[m] \in Nat /\ r[k] \in Nat /\ r[a] \in Nat
          BY <2>1, <3>2, <5>1
        <5> QED
          BY <5>2, <5>3
      <4> QED
        BY <4>2, <4>3
    <3> QED
      BY <2>1, <2>3, <3>1, <3>2, <3>3, <3>4
  <2>4. CASE u = t /\ PushIdx(t)
    <3> PICK a : a = g(t)
      OBVIOUS
    <3>1. /\ pc[t] = "p_idx" /\ g(t)' = a /\ idx'[t] = push_idx[a] /\ val[t] = b
      BY <1>1, <2>4 DEF PushIdx, Goto, Set, guards, g, VInv, VType, Quiet
    <3>2. a \in Listed /\ r[m] <= r[a] /\ s[a] = r[a]
      BY <2>1, <3>1 DEF PlacedFirst, Placing, Extends
    <3>3. a \in Listed'
      <4>1. ~PushLink(t) /\ ~PopCas(t)
        BY <3>1 DEF PushLink, PopCas, Goto
      <4> QED
        BY <3>2, <4>1, PushLNext, PopLNext DEF ListGrows
    <3>4. m = a => AtIndex(m, i) < push_idx[a]
      BY <2>1 DEF VInv, VType, NodeOK
    <3> QED
      BY <2>1, <2>4, <3>1, <3>2, <3>3, <3>4
  <2> QED
    BY <1>1, <2>2, <2>3, <2>4 DEF Moves, Placing
<1>2. \A m \in Node : \A i \in Place : AtIndex(m, i)' = AtIndex(m, i)
  BY DEF AtIndex
<1> QED
  BY <1>1, <1>2 DEF PlacedFirst

LEMMA OrderStep ==
  ASSUME NEW p, LInv, VInv, Coprime, ~Closed, \A u \in Thread : PopOK(u), TailListed, TailOK(p), SInv, BehindOK,
         NEW t \in Thread, PushStep(t) \/ PopStep(t), Others(t), Histories(t), Moves(t),
         \A m \in Node : \A i \in Place : EntryKept(t, m, i), WaitsBack,
         NEW r \in [Node -> Nat], RankOK(r), OrderOK(r), NEW s \in [Node -> Nat], Extends(r, s)
  PROVE  OrderOK(s)'
<1> SUFFICES ASSUME NEW v \in Value, NEW b \in Value, <<v, b>> \in before'
             PROVE  LeavesFirst(v, b)' /\ StandsFirst(s, v, b)' /\ PlacedFirst(s, v, b)'
  BY DEF OrderOK
<1>1. CASE <<v, b>> \in before
  <2>1. v \in pushed
    BY <1>1 DEF SInv, HistoryOK
  <2>2. LeavesFirst(v, b) /\ StandsFirst(r, v, b) /\ PlacedFirst(r, v, b)
    BY <1>1 DEF OrderOK
  <2> QED
    BY <2>1, <2>2, LeavesStep, StandsStep, PlacedStep
<1>2. CASE <<v, b>> \notin before
  <2>1. Begins(t) /\ b = val'[t]
    BY <1>2 DEF Histories, Begins
  <2>2. /\ ~Left(b)' /\ \A m \in Node : \A i \in Place : entries'[m][i] # b
        /\ \A u \in Thread : ~(pc'[u] \in Placing /\ val'[u] = b)
    BY <2>1, NewPair
  <2> QED
    BY <2>2 DEF LeavesFirst, StandsFirst, PlacedFirst
<1> QED
  BY <1>1, <1>2

-----------------------------------------------------------------------------
(* First in, first out: the last node                                      *)

\* The node of a push that is about to move _tail there is linked to that of _tail,
\* or somebody else has moved it.
LEMMA LinkedOnce ==
  ASSUME NEW p, LInv, RolesOK(p), TailOK(p), HistoryOK, NEW t \in Thread, PusherOK(t), ListOK,
         pc[t] = "p_swing", qtail # g(t), next[qtail] # Null
  PROVE  next[qtail] # mine[t]
<1> SUFFICES ASSUME next[qtail] = mine[t] PROVE FALSE
  OBVIOUS
<1> PICK a : a = g(t)
  OBVIOUS
<1>1. next[a] = next[qtail]
  BY DEF PusherOK
<1>2. CASE pops # 0
  <2>1. PICK u \in Thread : pc[u] = "p_swing" /\ g(u) = qtail
    BY DEF TailOK
  <2>2. u = p /\ t = p
    BY <1>2, <2>1 DEF RolesOK, PushPC
  <2> QED
    BY <2>1, <2>2
<1>3. CASE pops = 0
  <2>1. qtail \in Listed
    BY <1>3 DEF TailOK
  <2>2. a \in Node /\ status[a] # "free" /\ ~Fresh(a)
    BY GuardNode DEF Outside
  <2>3. status[a] # "retired" /\ ~Taken(a)
    BY <1>3, <2>2 DEF HistoryOK, Taken, RolesOK, PopPC
  <2>4. a \in Listed
    BY <2>2, <2>3 DEF Listed, LInv, LType, R!RTypeOK
  <2> QED
    BY <1>1, <2>1, <2>4 DEF ListOK
<1> QED
  BY <1>2, <1>3

LEMMA BehindStep ==
  ASSUME NEW p, LateIs(p), LInv, LInv', VInv, Coprime, ~Closed, TInv(p), CallsOK, SInv, HistoryOK', BehindOK,
         NEW t \in Thread, PushStep(t) \/ PopStep(t), Others(t), Histories(t), Moves(t),
         \A m \in Node : \A i \in Place : EntryKept(t, m, i)
  PROVE  BehindOK'
<1>0. TailOK(p) /\ PusherOK(t) /\ ListOK /\ RolesOK(p) /\ HistoryOK
  BY DEF TInv, LInv, SInv
<1>1. \A u \in Thread : pc'[u] \in Placing => g(u)' # Null
  BY DEF LInv, GuardOK, Placing, Outside
<1>2. CASE next'[qtail'] = Null
  BY <1>1, <1>2, NodeAssumption DEF BehindOK
<1>3. CASE TailSwings(t)
  <2>1. next[qtail] # Null
    BY <1>0, <1>3 DEF TailSwings, LInv, GuardOK, PusherOK
  <2>2. next[next[qtail]] = Null
    BY <1>0, <2>1 DEF TailOK
  <2> QED
    BY <1>2, <1>3, <2>2 DEF TailSwings
<1>4. CASE TailStays(t) /\ PushLink(t)
  <2> PICK m0 : m0 = mine[t]
    OBVIOUS
  <2>1. /\ pc[t] = "p_link" /\ pc'[t] = "p_swing" /\ next[g(t)] = Null /\ next' = [next EXCEPT ![g(t)] = m0]
        /\ UNCHANGED <<entries, pushed, qtail, slot>>
    BY <1>4, Goes DEF PushLink, Quiet, history, guards
  <2>2. qtail = g(t) /\ next'[qtail'] = m0 /\ m0 \in Node
    BY <1>0, <2>1 DEF PusherOK, PushPC, LInv, LType, FreshOK
  <2>3. entries[m0] = [i \in Place |-> IF i = 0 THEN val[t] ELSE NoValue] /\ val[t] \notin pushed
    BY <2>1 DEF VInv, IdxOK, CallsOK, PushPC
  <2>4. \A i \in Place : entries[m0][i] \notin pushed
    BY <2>3, ValueAssumption DEF VInv, VType
  <2>5. \A u \in Thread : g(u)' # m0
    BY <2>1 DEF LInv, FreshOK, g
  <2> QED
    BY <2>1, <2>2, <2>4, <2>5 DEF BehindOK
<1>5. CASE TailStays(t) /\ ~PushLink(t) /\ next'[qtail'] # Null
  <2> PICK q : q = qtail
    OBVIOUS
  <2>1. qtail' = q /\ q \in Node
    BY <1>5 DEF TailStays, LInv, LType
  <2>2. status[q] # "free"
    <3>1. CASE q \in Listed
      BY <3>1 DEF Listed
    <3>2. CASE q \notin Listed
      <4>1. p \in Thread /\ pc[p] = "p_swing" /\ g(p) = q
        BY <1>0, <3>2 DEF TailOK, LateIs
      <4> QED
        BY <4>1, GuardNode DEF Outside
    <3> QED
      BY <3>1, <3>2
  <2>3. next'[q] = next[q] /\ next[q] # Null
    BY <1>5, <2>1, <2>2, LinkKept
  <2>4. ASSUME NEW u \in Thread, pc'[u] \in Placing, next[q] = g(u)' PROVE FALSE
    <3>1. CASE u # t
      BY <2>4, <3>1 DEF BehindOK, Others
    <3>2. CASE u = t /\ PushAcquire(t)
      <4>1. g(t)' = q
        BY <3>2 DEF PushAcquire, R!Publish, LInv, LType, R!RTypeOK, g
      <4> QED
        BY <1>0, <2>3, <2>4, <3>2, <4>1 DEF TailOK
    <3>3. CASE u = t /\ PushIdx(t)
      <4>1. g(t)' = g(t) /\ pc[t] \in Placing
        BY <3>3 DEF PushIdx, guards, g, Goto, Placing
      <4> QED
        BY <2>4, <3>3, <4>1 DEF BehindOK
    <3> QED
      BY <2>4, <3>1, <3>2, <3>3 DEF Moves, Placing
  <2>5. ASSUME NEW m \in Node, NEW i \in Place, entries'[m][i] \in pushed', next[q] = m PROVE FALSE
    <3> PICK e : e = entries'[m][i]
      OBVIOUS
    <3>1. e \in Value /\ EntryKept(t, m, i) /\ pushed' \subseteq pushed \union {val[t]}
      <4>1. pushed' \subseteq pushed \union {val[t]}
        BY DEF Histories
      <4>2. pushed \subseteq Value /\ (pc[t] \in PushPC => val[t] \in Value)
        BY DEF VInv, VType, IdxOK
      <4>3. pushed' \subseteq Value
        BY <4>2 DEF Histories
      <4> QED
        BY <2>5, <4>1, <4>3
    <3>2. CASE e \in pushed
      <4>1. pc[t] \in PushPC => e # val[t]
        BY <3>2 DEF CallsOK
      <4>2. entries[m][i] = e
        BY <3>1, <4>1 DEF EntryKept, Stores, PushPC
      <4> QED
        BY <2>5, <3>2, <4>2 DEF BehindOK
    <3>3. CASE e \notin pushed
      <4>1. e = val[t] /\ pc[t] \in PushPC /\ pc'[t] = "idle"
        BY <2>5, <3>3 DEF Histories
      <4>2. CASE pc[t] = "p_cas"
        <5>1. entries[m][i] # e
          BY <4>1, <4>2, Unstored DEF PushPC
        <5>2. m = g(t)
          BY <3>1, <4>2, <5>1 DEF EntryKept, Stores
        <5> QED
          BY <2>5, <4>2, <5>2 DEF BehindOK, Placing
      <4>3. CASE pc[t] = "p_swing"
        <5>1. entries[m][i] = e
          BY <3>1, <4>3 DEF EntryKept, Stores
        <5>2. mine[t] = m
          BY <3>1, <4>1, <4>3, <5>1 DEF SInv, StoredOK
        <5>3. qtail # g(t)
          BY <1>5, <4>3 DEF TailStays
        <5> QED
          BY <1>0, <2>3, <2>5, <4>3, <5>2, <5>3, LinkedOnce
      <4> QED
        BY <4>1, <4>2, <4>3 DEF Moves
    <3> QED
      BY <3>2, <3>3
  <2> QED
    BY <2>1, <2>3, <2>4, <2>5 DEF BehindOK
<1> QED
  BY <1>0, <1>2, <1>3, <1>4, <1>5, TailSteps

-----------------------------------------------------------------------------
(* First in, first out: what has left                                      *)

LEMMA GoneKept ==
  ASSUME LInv, VInv, Coprime, NEW t \in Thread, Others(t), Histories(t), Moves(t),
         \A m \in Node : \A i \in Place : EntryKept(t, m, i), NEW v \in Value, NEW u, Gone(v, u)
  PROVE  Gone(v, u)'
<1>1. popped \subseteq popped'
  BY DEF Histories
<1> QED
  BY <1>1, HasKept DEF Gone

LEMMA LateStep ==
  ASSUME LInv, VInv, Coprime, SInv, HistoryOK', NEW r, OrderOK(r), LateOK,
         NEW t \in Thread, Others(t), Histories(t), Moves(t),
         \A m \in Node : \A i \in Place : EntryKept(t, m, i)
  PROVE  LateOK'
<1> SUFFICES ASSUME NEW u \in Thread, pc'[u] \in PopPC, NEW v \in Value, NEW b \in Value,
                    b \in late'[u], <<v, b>> \in before'
             PROVE  Gone(v, u)'
  BY DEF LateOK
<1>1. <<v, b>> \in before
  <2>1. CASE <<v, b>> \notin before
    <3>1. Begins(t) /\ b = val'[t]
      BY <2>1 DEF Histories, Begins
    <3>2. b \notin popped
      BY <3>1, NewPair
    <3>3. popped' = popped
      BY <3>1 DEF Begins, Histories
    <3> QED
      BY <3>2, <3>3 DEF HistoryOK
  <2> QED
    BY <2>1
<1>2. late \in [Thread -> SUBSET popped]
  BY DEF SInv, HistoryOK
<1>3. CASE pc[u] \in PopPC /\ b \in late[u]
  <2>1. Gone(v, u)
    BY <1>1, <1>3 DEF LateOK
  <2> QED
    BY <2>1, GoneKept
<1>4. CASE u = t /\ pc[t] = "idle" /\ b \in popped
  <2>1. Left(v)
    BY <1>1, <1>4 DEF OrderOK, LeavesFirst, Left
  <2>2. ~Has(t, v)
    BY <1>4 DEF Has, TakenBy
  <2>3. Gone(v, u)
    BY <1>4, <2>1, <2>2 DEF Left, Gone
  <2> QED
    BY <2>3, GoneKept
<1>5. CASE u # t
  <2>1. pc'[u] = pc[u] /\ late'[u] = late[u]
    BY <1>2, <1>5 DEF Others, Histories
  <2> QED
    BY <1>3, <2>1
<1>6. CASE u = t
  <2>1. pc'[t] # "idle"
    BY <1>6 DEF PopPC
  <2>2. CASE pc[t] \in PopPC
    <3>1. late' = late
      BY <2>1, <2>2 DEF Histories, PopPC
    <3> QED
      BY <1>3, <1>6, <2>2, <3>1
  <2>3. CASE pc[t] = "idle" /\ late' = [late EXCEPT ![t] = popped]
    BY <1>2, <1>4, <1>6, <2>3
  <2> QED
    BY <1>6, <2>2, <2>3 DEF Moves
<1> QED
  BY <1>5, <1>6

-----------------------------------------------------------------------------
(* First in, first out: the theorem                                        *)

LEMMA InitO == Init => OInv
<1> SUFFICES ASSUME Init PROVE OInv
  OBVIOUS
<1>1. /\ entries = [m \in Node |-> [i \in Place |-> NoValue]] /\ next = [m \in Node |-> Null]
      /\ status = [m \in Node |-> IF m = qhead THEN "live" ELSE "free"]
      /\ pc = [t \in Thread |-> "idle"] /\ val = [t \in Thread |-> NoValue]
      /\ pushed = {} /\ popped = {} /\ before = {} /\ late = [t \in Thread |-> {}]
  BY DEF Init, HistoryInit
<1>2. qtail \in Node /\ qhead \in Node
  BY InitLInv DEF LInv, LType, Init, NodeAssumption
<1>3. SInv
  BY <1>1, ValueAssumption DEF SInv, HistoryOK, StoredOK, SpentOK, Spent, In
<1>4. BehindOK
  BY <1>1, <1>2, NodeAssumption DEF BehindOK, Placing
<1>5. RanksOK
  <2> PICK r \in [Node -> Nat] : r = [m \in Node |-> 0]
    OBVIOUS
  <2>1. Listed \subseteq {qhead} /\ \A m \in Node : next[m] = Null /\ r[m] = 0
    BY <1>1 DEF Listed
  <2>2. RankOK(r)
    BY <1>2, <2>1 DEF RankOK, Listed
  <2>3. OrderOK(r)
    BY <1>1 DEF OrderOK
  <2> QED
    BY <2>2, <2>3 DEF RanksOK
<1>6. LateOK
  BY <1>1 DEF LateOK
<1> QED
  BY <1>3, <1>4, <1>5, <1>6 DEF OInv

LEMMA StepO ==
  ASSUME NEW p, LateIs(p), LInv, LInv', TInv(p), VInv, VInv', EInv, OInv, ~Closed, Coprime,
         NEW t \in Thread, PushStep(t) \/ PopStep(t)
  PROVE  OInv'
<1>0. TailListed /\ CallsOK /\ (\A u \in Thread : PopOK(u)) /\ TailOK(p) /\ RolesOK(p) /\ ListOK /\ VType'
  BY TailListedHolds DEF EInv, TInv, LInv, VInv
<1>1. SInv /\ BehindOK /\ RanksOK /\ LateOK
  BY DEF OInv
<1>2. /\ Others(t) /\ Histories(t) /\ Moves(t)
      /\ \A m \in Node : \A i \in Place : EntryKept(t, m, i)
  BY <1>0, StepFacts
<1>3. WaitsBack
  BY <1>0, PushWaits, PopWaits
<1>4. HistoryOK'
  BY <1>0, <1>1, <1>2, HistoryStep
<1>5. SInv'
  <2>1. SpentOK'
    BY <1>0, <1>1, <1>2, SpentStep
  <2>2. \A m \in Node : \A i \in Place : StoredOK(m, i)'
    BY <1>0, <1>1, <1>2, StoredStep
  <2> QED
    BY <1>4, <2>1, <2>2 DEF SInv
<1>6. BehindOK'
  BY <1>0, <1>1, <1>2, <1>4, BehindStep
<1> PICK r \in [Node -> Nat] : RankOK(r) /\ OrderOK(r)
  BY <1>1 DEF RanksOK
<1>7. RanksOK'
  <2> PICK s \in [Node -> Nat] : RankOK(s)' /\ Extends(r, s)
    BY <1>0, RankStep
  <2>1. OrderOK(s)'
    BY <1>0, <1>1, <1>2, <1>3, OrderStep
  <2> QED
    BY <2>1 DEF RanksOK
<1>8. LateOK'
  BY <1>1, <1>2, <1>4, LateStep
<1> QED
  BY <1>5, <1>6, <1>7, <1>8 DEF OInv

\* A step that changes, at most, a node that is in nobody's sight
Aside(m) ==
    \/ entries'[m] = entries[m] /\ pop_idx'[m] = pop_idx[m]
    \/ /\ m \notin Listed /\ (\A u \in Thread : g(u) # m)
       /\ \A i \in Place : entries'[m][i] \notin Value

LEMMA AsideO ==
  ASSUME VInv, OInv, ~Closed, Listed' = Listed,
         UNCHANGED <<qhead, qtail, next, pc, idx, val, mine, pops, pushed, popped, before, late>>,
         \A u \in Thread : g(u)' = g(u),
         \A m \in Node : Aside(m) /\ (status'[m] = "retired" => status[m] = "retired")
  PROVE  OInv'
<1>0. /\ SInv /\ BehindOK /\ RanksOK /\ LateOK
      /\ HistoryOK /\ SpentOK /\ \A m \in Node : \A i \in Place : StoredOK(m, i)
  BY DEF OInv, SInv
<1>1. \A u : \A m \in Node : \A i \in Place : u \in Thread => (TakenBy(u, m, i)' <=> TakenBy(u, m, i))
  BY DEF TakenBy, place
<1>2. ASSUME NEW m \in Node, NEW i \in Place, entries'[m][i] \in Value
      PROVE  entries'[m][i] = entries[m][i] /\ pop_idx'[m] = pop_idx[m]
  BY <1>2 DEF Aside
<1>3. ASSUME NEW u \in Thread, NEW v \in Value PROVE Has(u, v)' <=> Has(u, v)
  <2>1. ASSUME NEW m \in Node, NEW i \in Place, TakenBy(u, m, i) PROVE entries'[m][i] = entries[m][i]
    BY <2>1 DEF Aside, TakenBy
  <2> QED
    BY <1>1, <2>1 DEF Has
<1>4. \A v \in Value : /\ Left(v)' <=> Left(v)
                       /\ \A u \in Thread : Gone(v, u)' <=> Gone(v, u)
  BY <1>3 DEF Left, Gone
<1>5. \A v : (In(v)' <=> In(v)) /\ (Spent(v)' <=> Spent(v))
  BY DEF In, Spent
<1>6. ASSUME NEW m \in Node, NEW i \in Place, entries'[m][i] \in Value
      PROVE  (Ahead(m, i)' <=> Ahead(m, i)) /\ (Held(m, i)' <=> Held(m, i))
  <2>1. AtIndex(m, i)' = AtIndex(m, i)
    BY DEF AtIndex
  <2> QED
    BY <1>1, <1>2, <1>6, <2>1 DEF Ahead, Held
<1>7. SInv'
  <2>1. HistoryOK'
    BY <1>0 DEF HistoryOK
  <2>2. SpentOK'
    BY <1>0, <1>5 DEF SpentOK
  <2>3. ASSUME NEW m \in Node, NEW i \in Place PROVE StoredOK(m, i)'
    <3> SUFFICES ASSUME entries'[m][i] \in Value PROVE StoredOK(m, i)'
      BY DEF StoredOK
    <3> PICK e : e = entries[m][i]
      OBVIOUS
    <3>1. entries'[m][i] = e /\ e \in Value /\ StoredOK(m, i)
      BY <1>0, <1>2
    <3>2. \A n \in Node : \A j \in Place : entries'[n][j] = e => n = m /\ j = i
      BY <1>2, <3>1 DEF StoredOK
    <3>3. Spent(e)' => ~Ahead(m, i)' /\ ~Held(m, i)'
      BY <1>5, <1>6, <3>1 DEF StoredOK
    <3>4. In(e)' \/ \E u \in Thread : pc'[u] = "p_link" /\ val'[u] = e /\ mine'[u] = m
      BY <1>5, <3>1 DEF StoredOK
    <3>5. \A u \in Thread : pc'[u] = "p_swing" /\ val'[u] = e => mine'[u] = m
      BY <3>1 DEF StoredOK
    <3>6. (In(entries[m][i])' <=> In(e)') /\ (Spent(entries[m][i])' <=> Spent(e)')
      BY <3>1 DEF In, Spent
    <3> QED
      BY <3>1, <3>2, <3>3, <3>4, <3>5, <3>6 DEF StoredOK
  <2> QED
    BY <2>1, <2>2, <2>3 DEF SInv
<1>8. BehindOK'
  <2>1. pushed \subseteq Value
    BY DEF VInv, VType
  <2> QED
    BY <1>0, <1>2, <2>1 DEF BehindOK
<1>9. RanksOK'
  <2> PICK r \in [Node -> Nat] : RankOK(r) /\ OrderOK(r)
    BY <1>0 DEF RanksOK
  <2>1. RankOK(r)'
    BY RankSame
  <2>2. ASSUME NEW v \in Value, NEW b \in Value, <<v, b>> \in before
        PROVE  LeavesFirst(v, b)' /\ StandsFirst(r, v, b)' /\ PlacedFirst(r, v, b)'
    <3>1. LeavesFirst(v, b) /\ StandsFirst(r, v, b) /\ PlacedFirst(r, v, b)
      BY <2>2 DEF OrderOK
    <3>2. \A m \in Node : \A i \in Place : Waiting(v, m, i)' => Waiting(v, m, i)
      BY <1>2, <1>6 DEF Waiting
    <3>3. LeavesFirst(v, b)'
      BY <1>4, <3>1 DEF LeavesFirst
    <3>4. StandsFirst(r, v, b)'
      <4>1. \A m, n \in Node : \A i, j \in Place : Less(r, m, i, n, j)' <=> Less(r, m, i, n, j)
        BY DEF Less, AtIndex
      <4> QED
        BY <1>2, <3>1, <3>2, <4>1 DEF StandsFirst
    <3>5. PlacedFirst(r, v, b)'
      <4>1. \A m \in Node : \A i \in Place : AtIndex(m, i)' = AtIndex(m, i)
        BY DEF AtIndex
      <4> QED
        BY <3>1, <3>2, <4>1 DEF PlacedFirst
    <3> QED
      BY <3>3, <3>4, <3>5
  <2>3. OrderOK(r)'
    BY <2>2 DEF OrderOK
  <2> QED
    BY <2>1, <2>3 DEF RanksOK
<1>10. LateOK'
  BY <1>0, <1>4 DEF LateOK
<1> QED
  BY <1>7, <1>8, <1>9, <1>10 DEF OInv

LEMMA NextO ==
  ASSUME NEW p, LateIs(p), Coprime
  PROVE  LInv /\ TInv(p) /\ ChainOK /\ VInv /\ EInv /\ OInv /\ [Next]_vars => OInv'
<1> SUFFICES ASSUME LInv, TInv(p), ChainOK, VInv, EInv, OInv, [Next]_vars PROVE OInv'
  OBVIOUS
<1>0. LInv' /\ VInv'
  BY TailListedHolds, NextL, NextV
<1>1. ASSUME NEW t \in Thread, PushStep(t) \/ PopStep(t) PROVE OInv'
  BY <1>0, <1>1, StepO, OpenStep
<1>2. ASSUME NEW t \in Thread, Destroy(t) \/ DestroyNode(t) PROVE OInv'
  <2>1. pc'[t] = "destroy"
    BY <1>2 DEF Destroy, DestroyNode, Goto, LInv, LType
  <2> QED
    BY <2>1 DEF OInv, Closed
<1>3. ASSUME NEW m \in Node, ReclaimNode(m) PROVE OInv'
  <2>1. /\ status[m] = "retired"
        /\ status' = [status EXCEPT ![m] = "free"]
        /\ entries' = [entries EXCEPT ![m] = [i \in Place |-> NoValue]]
        /\ pop_idx' = [pop_idx EXCEPT ![m] = 0]
        /\ UNCHANGED <<qhead, qtail, next, pc, slot, idx, val, mine, pops, pushed, popped, before, late>>
    BY <1>3 DEF ReclaimNode, DeleteNode, R!Reclaim, history
  <2>2. Listed' = Listed /\ \A u \in Thread : g(u) # m /\ g(u)' = g(u)
    BY <1>3, <2>1, ReclaimStep DEF g
  <2>3. ASSUME NEW n \in Node PROVE Aside(n) /\ (status'[n] = "retired" => status[n] = "retired")
    <3>1. CASE n = m
      BY <2>1, <2>2, <3>1, ValueAssumption DEF Aside, Listed, VInv, VType
    <3>2. CASE n # m
      BY <2>1, <3>2 DEF Aside, VInv, VType, LInv, LType, R!RTypeOK
    <3> QED
      BY <3>1, <3>2
  <2>4. CASE Closed
    BY <2>1, <2>4 DEF OInv, Closed
  <2>5. CASE ~Closed
    BY <2>1, <2>2, <2>3, <2>5, AsideO
  <2> QED
    BY <2>4, <2>5
<1>4. CASE UNCHANGED vars
  <2>1. UNCHANGED <<qhead, qtail, next, entries, pop_idx, status, pc, slot, idx, val, mine, pops, pushed,
                    popped,
                    before, late>>
    BY <1>4 DEF vars, nodes, guards, history
  <2>2. \A u \in Thread : g(u)' = g(u)
    BY <2>1 DEF g
  <2>3. Listed' = Listed
    BY <2>1, <2>2 DEF Listed, Fresh, Taken
  <2>4. \A n \in Node : Aside(n) /\ (status'[n] = "retired" => status[n] = "retired")
    BY <2>1 DEF Aside
  <2>5. CASE Closed
    BY <2>1, <2>5 DEF OInv, Closed
  <2>6. CASE ~Closed
    BY <2>1, <2>2, <2>3, <2>4, <2>6, AsideO
  <2> QED
    BY <2>5, <2>6
<1> QED
  BY <1>1, <1>2, <1>3, <1>4 DEF Next

\* What left the queue before the try_pop began, when the value that this try_pop
\* has came before it, would have let that value leave first: to another try_pop.
LEMMA OInvOrder == LInv /\ VInv /\ OInv => InOrder
<1> SUFFICES ASSUME LInv, VInv, OInv, NEW t \in Thread, pc[t] = "o_ret"
             PROVE  MayReturn(t, val[t])
  BY DEF InOrder
<1> PICK v : v = val[t]
  OBVIOUS
<1>1. SInv /\ LateOK
  BY Busy DEF OInv
<1>2. v \in Value /\ v \notin popped /\ Spent(v)
  BY <1>1 DEF VInv, VType, IdxOK, SInv, SpentOK, Spent
<1>3. ASSUME NEW b \in late[t], <<v, b>> \in before PROVE FALSE
  <2>1. b \in Value
    BY <1>1, <1>3 DEF SInv, HistoryOK
  <2>2. Gone(v, t)
    BY <1>1, <1>2, <1>3, <2>1 DEF LateOK, PopPC
  <2>3. PICK u \in Thread \ {t} : Has(u, v)
    BY <1>2, <2>2 DEF Gone
  <2>4. ~(pc[u] = "o_ret" /\ val[u] = v)
    BY <1>1 DEF SInv, SpentOK
  <2>5. PICK m \in Node, i \in Place : entries[m][i] = v /\ TakenBy(u, m, i)
    BY <2>3, <2>4 DEF Has
  <2> QED
    BY <1>1, <1>2, <2>5 DEF SInv, StoredOK, Held
<1> QED
  BY <1>2, <1>3 DEF MayReturn

\* The queue is first in, first out, and gives no value twice, when one thread
\* pushes beside try_pop.
THEOREM FirstInFirstOut ==
  ASSUME NEW p, LateIs(p), Coprime
  PROVE  Spec => []InOrder
<1>1. Init => LInv /\ TInv(p) /\ ChainOK /\ VInv /\ EInv /\ OInv
  BY InitLInv, InitTInv, InitC, InitV, InitE, InitO
<1>2. LInv /\ TInv(p) /\ ChainOK /\ VInv /\ EInv /\ OInv /\ [Next]_vars
         => (LInv /\ TInv(p) /\ ChainOK /\ VInv /\ EInv /\ OInv)'
  BY TailListedHolds, NextL, NextT, NextC, NextV, NextE, NextO
<1>3. LInv /\ VInv /\ OInv => InOrder
  BY OInvOrder
<1> QED
  BY <1>1, <1>2, <1>3, PTL DEF Spec
=============================================================================
