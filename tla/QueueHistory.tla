---------------------------- MODULE QueueHistory ----------------------------
(***************************************************************************)
(* What a queue that several threads use at once promises its callers,     *)
(* told from the calls and returns of its operations alone: history        *)
(* variables for queues whose linearization points cannot be named in      *)
(* advance (the Nikolaev queues).  Every value is pushed at most once.     *)
(***************************************************************************)
VARIABLES pushed,  \* values whose push has returned (true)
          popped,  \* values that a try_pop has returned
          before,  \* <<a, b>>: push(a) had returned when push(b) began
          late,    \* late[t]: what was popped when the try_pop of t began
          due      \* due[t]: what was pushed and not popped at that time

history == <<pushed, popped, before, late, due>>

HistoryTypeOK(Threads, Values) ==
    /\ pushed \in SUBSET Values /\ popped \in SUBSET Values
    /\ before \in SUBSET (Values \X Values)
    /\ late \in [Threads -> SUBSET Values] /\ due \in [Threads -> SUBSET Values]

HistoryInit(Threads) ==
    /\ pushed = {} /\ popped = {} /\ before = {}
    /\ late = [t \in Threads |-> {}] /\ due = [t \in Threads |-> {}]

PushBegins(v) == /\ before' = before \union (pushed \X {v})
                 /\ UNCHANGED <<pushed, popped, late, due>>

PushEnds(v) == /\ pushed' = pushed \union {v}
               /\ UNCHANGED <<popped, before, late, due>>

\* A push that returns false has not happened.
PushFails(v) == /\ before' = {p \in before : p[2] # v}
                /\ UNCHANGED <<pushed, popped, late, due>>

PopBegins(t) == /\ late' = [late EXCEPT ![t] = popped]
                /\ due' = [due EXCEPT ![t] = pushed \ popped]
                /\ UNCHANGED <<pushed, popped, before>>

PopEnds(t, S) == /\ popped' = popped \union S
                 /\ late' = [late EXCEPT ![t] = {}]
                 /\ due' = [due EXCEPT ![t] = {}]
                 /\ UNCHANGED <<pushed, before>>

\* try_pop of t may return v: nobody had it before, and none that was pushed
\* after v had returned from its push was gone when this try_pop began.
MayReturn(t, v) == v \notin popped /\ \A b \in late[t] : <<v, b>> \notin before

\* try_pop of t may return false while the threads Others are in a try_pop:
\* with none of them to blame, no value may have been there all the time.
MayReturnFalse(t, Others) == Others = {} => due[t] \subseteq popped
=============================================================================
