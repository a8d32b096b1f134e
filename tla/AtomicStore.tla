----------------------------- MODULE AtomicStore -----------------------------
(***************************************************************************)
(* What the tasks of a node expect of its store: calls take effect at once,*)
(* when they are made.  A read finds what was written last, by whichever   *)
(* task; a notify_read finds it too or, when there is none, the first      *)
(* value written after it.  Only the answer may take time to come back.    *)
(***************************************************************************)
CONSTANTS
  Key, Value,
  Reads,      \* the calls of read
  Waits,      \* the calls of notify_read
  Absent,     \* the answer of a read that finds nothing
  Undecided   \* the outcome of a call that has none yet

VARIABLES
  data,     \* the value of each key
  status,   \* of each call: "new", "pending", "answered" or "dropped"
  wanted,   \* the key each call asked for
  outcome   \* what each call returns, or has returned

vars == <<data, status, wanted, outcome>>

Call == Reads \cup Waits

Init ==
  /\ data = [k \in Key |-> Absent]
  /\ status = [c \in Call |-> "new"]
  /\ wanted \in [Call -> Key]
  /\ outcome = [c \in Call |-> Undecided]

\* A write gives their outcome to all calls that wait for the key.
Write(k, v) ==
  /\ data' = [data EXCEPT ![k] = v]
  /\ outcome' = [c \in Call |-> IF /\ status[c] = "pending"
                                   /\ outcome[c] = Undecided
                                   /\ wanted[c] = k
                                THEN v ELSE outcome[c]]
  /\ UNCHANGED <<status, wanted>>

Invoke(c) ==
  /\ status[c] = "new"
  /\ status' = [status EXCEPT ![c] = "pending"]
  /\ outcome' = [outcome EXCEPT
                   ![c] = IF c \in Waits /\ data[wanted[c]] = Absent
                          THEN Undecided ELSE data[wanted[c]]]
  /\ UNCHANGED <<data, wanted>>

\* Answers come back, those to the calls that one write served together.
Return(done) ==
  /\ \A c \in done : status[c] = "pending" /\ outcome[c] # Undecided
  /\ status' = [c \in Call |-> IF c \in done THEN "answered" ELSE status[c]]
  /\ UNCHANGED <<data, wanted, outcome>>

\* The caller of a notify_read no longer waits.
Drop(c) ==
  /\ status[c] = "pending"
  /\ status' = [status EXCEPT ![c] = "dropped"]
  /\ outcome' = [outcome EXCEPT ![c] = Undecided]
  /\ UNCHANGED <<data, wanted>>

Next ==
  \/ \E k \in Key, v \in Value : Write(k, v)
  \/ \E c \in Call : Invoke(c)
  \/ \E c \in Waits : Drop(c)
  \/ \E done \in SUBSET Call : Return(done)

Spec == Init /\ [][Next]_vars
=============================================================================
