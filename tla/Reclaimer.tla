----------------------------- MODULE Reclaimer -----------------------------
(***************************************************************************)
(* What a reclamation scheme of xenium promises to the lock-free structure *)
(* that is built on it (xenium/reclamation, the concept that guard_ptr,    *)
(* acquire, reset and reclaim implement).                                  *)
(*                                                                         *)
(* A node is free, live or retired.  A thread publishes the node it is     *)
(* about to use in one of its guards; reclaim() retires a node, and the    *)
(* scheme deletes a retired node at some later time.  The promise: a node  *)
(* is not deleted as long as a guard refers to it that has referred to it  *)
(* without interruption since before the node was retired.  A guard        *)
(* published after the retirement promises nothing -- a scan may have      *)
(* passed it already -- which is why acquire() reads its source again.     *)
(*                                                                         *)
(* Structures EXTEND this module (MSQueue); schemes implement it by a      *)
(* refinement mapping (HazardPointers).                                    *)
(***************************************************************************)
EXTENDS Naturals

CONSTANTS Thread,  \* the threads that hold guards
          Slot,    \* the guards of one thread
          Node,    \* addresses of nodes; a deleted node's address is reused
          Null

ASSUME NullAssumption == Null \notin Node

VARIABLES status,  \* status[n]: "free", "live" or "retired"
          slot,    \* slot[t][s]: the node that guard s of thread t publishes
          pinned   \* the guards that keep their (retired) node from deletion

rvars == <<status, slot, pinned>>

Guard == Thread \X Slot

RTypeOK == /\ status \in [Node -> {"free", "live", "retired"}]
           /\ slot \in [Thread -> [Slot -> Node \union {Null}]]
           /\ pinned \in SUBSET Guard

RInit == /\ status = [n \in Node |-> "free"]
         /\ slot = [t \in Thread |-> [s \in Slot |-> Null]]
         /\ pinned = {}

\* The guards that publish node n.
Holders(n) == {g \in Guard : slot[g[1]][g[2]] = n}

Allocate(n) == /\ status[n] = "free"
               /\ status' = [status EXCEPT ![n] = "live"]

\* Storing the value a guard already has interrupts nothing.
Publish(t, s, n) ==
    /\ slot' = [slot EXCEPT ![t][s] = n]
    /\ pinned' = IF slot[t][s] = n THEN pinned ELSE pinned \ {<<t, s>>}

\* The guards S of thread t go out of scope or are reset.
Release(t, S) ==
    /\ slot' = [slot EXCEPT ![t] = [s \in Slot |-> IF s \in S THEN Null ELSE slot[t][s]]]
    /\ pinned' = pinned \ ({t} \X S)

Retire(n) == /\ status[n] = "live"
             /\ status' = [status EXCEPT ![n] = "retired"]
             /\ pinned' = pinned \union Holders(n)

Reclaim(n) == /\ status[n] = "retired"
              /\ Holders(n) \intersect pinned = {}
              /\ status' = [status EXCEPT ![n] = "free"]

RNext == \/ \E n \in Node : Allocate(n) /\ UNCHANGED <<slot, pinned>>
         \/ \E t \in Thread, s \in Slot, n \in Node :
               Publish(t, s, n) /\ UNCHANGED status
         \/ \E t \in Thread, S \in SUBSET Slot :
               Release(t, S) /\ UNCHANGED status
         \/ \E n \in Node : Retire(n) /\ UNCHANGED slot
         \/ \E n \in Node : Reclaim(n) /\ UNCHANGED <<slot, pinned>>

RSpec == RInit /\ [][RNext]_rvars

\* A guard that protects its node: the node may be used through it.
Protected(t, s) ==
    LET n == slot[t][s] IN
    /\ n # Null
    /\ \/ status[n] = "live"
       \/ status[n] = "retired" /\ <<t, s>> \in pinned
=============================================================================
