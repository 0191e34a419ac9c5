---------------------------- MODULE ConcurrentMap ----------------------------
(***************************************************************************)
(* The abstract map that the hash maps of the repository promise: every    *)
(* operation takes effect, or reads, at one moment between its call and    *)
(* its return.  could[t] holds the answers that the call of t may give for *)
(* what it has met so far: those that change nothing are right whenever    *)
(* the map allows them during the call; after its effect a call can only   *)
(* return success.                                                         *)
(***************************************************************************)
CONSTANTS Thread, Key, Value,
          Absent,   \* what the map has for a key that is not there
          Calls,    \* the calls in question: records with op, key, val, exp
          NoCall

VARIABLES map,    \* map[k]: the value of k, or Absent
          call,   \* call[t]: the call of thread t
          could,  \* see above
          res     \* res[t]: the answer of the call of t, NoCall until it is decided

mvars == <<map, call, could, res>>

\* update and remove accept any of the values c.exp (all of them, unless the
\* caller expects one).
Applies(c, m) == \/ c.op = "insert" /\ m[c.key] = Absent
                 \/ c.op \in {"update", "remove"} /\ m[c.key] \in c.exp

After(c, m) == [m EXCEPT ![c.key] = IF c.op = "remove" THEN Absent ELSE c.val]

\* What a call may answer without a change
Answers(c, m) ==
    CASE c.op = "get" -> {m[c.key]}
      [] c.op = "insert" -> IF m[c.key] = Absent THEN {} ELSE {"already_present"}
      [] OTHER -> IF m[c.key] = Absent THEN {"element_not_found"}
                  ELSE IF m[c.key] \in c.exp THEN {} ELSE {"expected_value_mismatch"}

\* Thread t changes the map to m: the others may answer for m as well.
Witness(t, m) == could' = [u \in Thread |->
    IF u = t THEN {"success"}
    ELSE IF call[u] = NoCall \/ "success" \in could[u] THEN could[u]
    ELSE could[u] \union Answers(call[u], m)]

\* No call is in progress; the map may have been filled before.
MInit == /\ map \in [Key -> Value \union {Absent}]
         /\ call = [t \in Thread |-> NoCall]
         /\ could = [t \in Thread |-> {}]
         /\ res = [t \in Thread |-> NoCall]

Begin(t, c) == /\ call[t] = NoCall
               /\ call' = [call EXCEPT ![t] = c]
               /\ could' = [could EXCEPT ![t] = Answers(c, map)]
               /\ UNCHANGED <<map, res>>

Apply(t) == /\ call[t] # NoCall
            /\ "success" \notin could[t]
            /\ Applies(call[t], map)
            /\ map' = After(call[t], map)
            /\ Witness(t, map')
            /\ UNCHANGED <<call, res>>

Decide(t, a) == /\ call[t] # NoCall /\ res[t] = NoCall
                /\ a \in could[t]
                /\ res' = [res EXCEPT ![t] = a]
                /\ UNCHANGED <<map, call, could>>

Return(t) == /\ res[t] # NoCall
             /\ res' = [res EXCEPT ![t] = NoCall]
             /\ call' = [call EXCEPT ![t] = NoCall]
             /\ could' = [could EXCEPT ![t] = {}]
             /\ UNCHANGED map

MNext == \E t \in Thread :
            \/ \E c \in Calls : Begin(t, c)
            \/ Apply(t) \/ Return(t)
            \/ \E a \in could[t] : Decide(t, a)

MSpec == MInit /\ [][MNext]_mvars
=============================================================================
