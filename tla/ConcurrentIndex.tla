-------------------------- MODULE ConcurrentIndex --------------------------
(***************************************************************************)
(* What the Bw-Tree promises to its callers: a set of keys that any number *)
(* of threads update and read at once, every operation answering as if it  *)
(* had happened at one moment between its call and its return.  Insert()   *)
(* refuses a key that is there, Delete() one that is not.                  *)
(***************************************************************************)
CONSTANTS
  Threads,
  Requests      \* the operations a thread may call, <<operation, key>>

VARIABLES
  keys,         \* the keys in the index
  call          \* thread -> its operation: whether it is idle, busy or done,
                \* what was asked, the answer, and whether the key was there
                \* (seen) at the moments since the call

vars == <<keys, call>>

NoCall == [state |-> "idle", op |-> "none", key |-> 0, res |-> FALSE, seen |-> {}]

Init == call = [t \in Threads |-> NoCall]

Call(t) ==
  /\ call[t].state = "idle"
  /\ \E r \in Requests :
       call' = [call EXCEPT ![t] = [state |-> "busy", op |-> r[1], key |-> r[2],
                                    res |-> FALSE, seen |-> {(r[2] \in keys)}]]
  /\ UNCHANGED keys

Answered(c, res) ==
  [state |-> "done", op |-> c.op, key |-> c.key, res |-> res, seen |-> {}]

\* The moment at which an insert or a delete takes effect.
Update(t) ==
  LET k == call[t].key IN
  /\ call[t].state = "busy"
  /\ \/ call[t].op = "insert" /\ k \notin keys /\ keys' = keys \cup {k}
     \/ call[t].op = "delete" /\ k \in keys /\ keys' = keys \ {k}
  /\ call' = [u \in Threads |->
                IF u = t THEN Answered(call[t], TRUE)
                ELSE IF call[u].state = "busy" /\ call[u].key = k
                     THEN [call[u] EXCEPT !.seen = @ \cup {(k \in keys')}]
                     ELSE call[u]]

\* An answer that changes nothing is true of some moment since the call.
Answer(t) ==
  LET c == call[t] IN
  /\ c.state = "busy"
  /\ \/ c.op = "insert" /\ TRUE \in c.seen /\ call' = [call EXCEPT ![t] = Answered(c, FALSE)]
     \/ c.op = "delete" /\ FALSE \in c.seen /\ call' = [call EXCEPT ![t] = Answered(c, FALSE)]
     \/ c.op = "get" /\ \E res \in c.seen : call' = [call EXCEPT ![t] = Answered(c, res)]
  /\ UNCHANGED keys

Return(t) ==
  /\ call[t].state = "done"
  /\ call' = [call EXCEPT ![t] = NoCall]
  /\ UNCHANGED keys

Next == \E t \in Threads : Call(t) \/ Update(t) \/ Answer(t) \/ Return(t)

Spec == Init /\ [][Next]_vars
=============================================================================
