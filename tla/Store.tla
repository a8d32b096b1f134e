-------------------------------- MODULE Store --------------------------------
(***************************************************************************)
(* The store of a node (store/src/lib.rs): a task that owns the database   *)
(* and serves the commands of a channel one after another.  A write        *)
(* returns when its command is in the channel; a read or a notify_read     *)
(* carries a oneshot channel for its answer, and a notify_read of a key    *)
(* that is not there leaves it in the obligations of the key.              *)
(*                                                                         *)
(* The synchronizers of the blocks and of the payloads wait with           *)
(* notify_read for what they asked other nodes for, and the core reads the *)
(* blocks it has just written: both need calls that act as if at once,     *)
(* which module AtomicStore states and Implements checks.                  *)
(*                                                                         *)
(* ServeNotifyAlways, ServeNotifyInline, ServeWriteKeeping and             *)
(* ServeWriteFirst are not part of the specification: each is the          *)
(* definition after it with a mistake in it, to see which property notices.*)
(***************************************************************************)
EXTENDS Naturals, SequencesExt

CONSTANTS
  Key, Value,
  Reads,      \* the calls of read
  Waits,      \* the calls of notify_read
  Absent,     \* what the database has of a key that was never written
  Undecided,  \* not the outcome of any call
  Capacity    \* bound: the commands in the channel (100 in the code)

ASSUME StoreAssumption ==
  /\ Capacity \in Nat \ {0}
  /\ Reads \cap Waits = {}
  /\ Absent \notin Value
  /\ Undecided \notin Value \cup {Absent}

Call == Reads \cup Waits

VARIABLES
  db,          \* the value of each key, or Absent
  channel,     \* the commands that wait for the task
  obligations, \* the notify_reads left at each key, in their order
  status,      \* of each call: "new", "pending", "answered" or "dropped"
  wanted,      \* the key each call asks for
  reply        \* what was sent to the oneshot channel of each call

vars == <<db, channel, obligations, status, wanted, reply>>

\* StoreCommand: a write, or the oneshot channel of a call.
Write(k, v) == [op |-> "write", key |-> k, val |-> v]
Ask(c) == [op |-> IF c \in Reads THEN "read" ELSE "notify_read",
           key |-> wanted[c], call |-> c]

Command ==
  [op : {"write"}, key : Key, val : Value] \cup
  [op : {"read"}, key : Key, call : Reads] \cup
  [op : {"notify_read"}, key : Key, call : Waits]
-----------------------------------------------------------------------------
(***************************************************************************)
(* The calls.                                                              *)
(***************************************************************************)
send(command) ==
  /\ Len(channel) < Capacity
  /\ channel' = Append(channel, command)

write(k, v) ==
  /\ send(Write(k, v))
  /\ UNCHANGED <<db, obligations, status, wanted, reply>>

\* read and notify_read: the caller then waits for the answer.
ask(c) ==
  /\ status[c] = "new"
  /\ send(Ask(c))
  /\ status' = [status EXCEPT ![c] = "pending"]
  /\ UNCHANGED <<db, obligations, wanted, reply>>

\* The caller of a notify_read gives up: the payload it waited for is no
\* longer needed (waiter, mempool/src/synchronizer.rs).  The store keeps the
\* other end of the oneshot channel.
Drop(c) ==
  /\ status[c] = "pending"
  /\ status' = [status EXCEPT ![c] = "dropped"]
  /\ UNCHANGED <<db, channel, obligations, wanted, reply>>
-----------------------------------------------------------------------------
(***************************************************************************)
(* The task.  A send to a caller that has given up is ignored.             *)
(***************************************************************************)
Answer(calls, v) ==
  LET served == {c \in calls : status[c] = "pending"}
  IN  /\ status' = [c \in Call |-> IF c \in served THEN "answered" ELSE status[c]]
      /\ reply' = [c \in Call |-> IF c \in served THEN v ELSE reply[c]]

Receive(op) ==
  /\ channel # <<>>
  /\ Head(channel).op = op
  /\ channel' = Tail(channel)
  /\ UNCHANGED wanted

ServeWriteKeeping ==
  LET k == Head(channel).key
      v == Head(channel).val
  IN  /\ Receive("write")
      /\ db' = [db EXCEPT ![k] = v]
      /\ UNCHANGED <<obligations, status, reply>>

ServeWriteFirst ==
  LET k == Head(channel).key
      v == Head(channel).val
  IN  /\ Receive("write")
      /\ db' = [db EXCEPT ![k] = v]
      /\ obligations' = [obligations EXCEPT ![k] = <<>>]
      /\ Answer(IF obligations[k] = <<>> THEN {} ELSE {Head(obligations[k])}, v)

\* The write is made and everyone who waits for the key is sent the value.
ServeWrite ==
  LET k == Head(channel).key
      v == Head(channel).val
  IN  /\ Receive("write")
      /\ db' = [db EXCEPT ![k] = v]
      /\ obligations' = [obligations EXCEPT ![k] = <<>>]
      /\ Answer(Range(obligations[k]), v)

ServeRead ==
  /\ Receive("read")
  /\ Answer({Head(channel).call}, db[Head(channel).key])
  /\ UNCHANGED <<db, obligations>>

ServeNotifyAlways ==
  /\ Receive("notify_read")
  /\ Answer({Head(channel).call}, db[Head(channel).key])
  /\ UNCHANGED <<db, obligations>>

ServeNotifyInline ==
  /\ Receive("notify_read")
  /\ db[Head(channel).key] # Absent
  /\ Answer({Head(channel).call}, db[Head(channel).key])
  /\ UNCHANGED <<db, obligations>>

ServeNotifyRead ==
  LET k == Head(channel).key
      c == Head(channel).call
  IN  /\ Receive("notify_read")
      /\ \/ /\ db[k] = Absent
            /\ obligations' = [obligations EXCEPT ![k] = Append(@, c)]
            /\ UNCHANGED <<status, reply>>
         \/ /\ db[k] # Absent
            /\ Answer({c}, db[k])
            /\ UNCHANGED obligations
      /\ UNCHANGED db

Serve == ServeWrite \/ ServeRead \/ ServeNotifyRead

Init ==
  /\ db = [k \in Key |-> Absent]
  /\ channel = <<>>
  /\ obligations = [k \in Key |-> <<>>]
  /\ status = [c \in Call |-> "new"]
  /\ wanted \in [Call -> Key]
  /\ reply = [c \in Call |-> Absent]

Next ==
  \/ \E k \in Key, v \in Value : write(k, v)
  \/ \E c \in Call : ask(c)
  \/ \E c \in Waits : Drop(c)
  \/ Serve

Spec == Init /\ [][Next]_vars

\* The task runs as long as the node does.
FairSpec == Spec /\ WF_vars(Serve)
-----------------------------------------------------------------------------
(***************************************************************************)
(* Properties.                                                             *)
(***************************************************************************)
\* Types; a notify_read is only answered with a value, which it unwraps.
TypeOK ==
  /\ db \in [Key -> Value \cup {Absent}]
  /\ channel \in Seq(Command)
  /\ obligations \in [Key -> Seq(Waits)]
  /\ status \in [Call -> {"new", "pending", "answered", "dropped"}]
  /\ wanted \in [Call -> Key]
  /\ reply \in [Call -> Value \cup {Absent}]
  /\ \A c \in Waits : status[c] = "answered" => reply[c] # Absent

\* A notify_read is never left waiting for a key that is in the database: the
\* check of the database and the entry in the obligations are one step, and
\* the write takes all the entries of its key.
NoneForgotten == \A k \in Key : db[k] # Absent => obligations[k] = <<>>

\* What the commands in the channel before position i make of key k, and the
\* first value that those after it write.
WritesTo(k) == {i \in DOMAIN channel : channel[i].op = "write" /\ channel[i].key = k}

ContentBefore(i, k) ==
  LET earlier == {j \in WritesTo(k) : j < i}
  IN  IF earlier = {} THEN db[k] ELSE channel[Max(earlier)].val

NextWrite(i, k) ==
  LET later == {j \in WritesTo(k) : j > i}
  IN  IF later = {} THEN Undecided ELSE channel[Min(later)].val

\* Where the command of call c is, 0 when it is in the obligations.
Position(c) ==
  LET at == {i \in DOMAIN channel : channel[i] = Ask(c)}
  IN  IF at = {} THEN 0 ELSE Max(at)

\* What call c will return, which is settled before the task gets to it.
Outcome(c) ==
  LET i == Position(c)
      v == ContentBefore(i, wanted[c])
  IN  CASE status[c] = "answered" -> reply[c]
        [] status[c] = "pending" ->
             IF i > 0 /\ (c \in Reads \/ v # Absent) THEN v ELSE NextWrite(i, wanted[c])
        [] OTHER -> Undecided

Atomic == INSTANCE AtomicStore WITH
  data <- [k \in Key |-> ContentBefore(Len(channel) + 1, k)],
  outcome <- [c \in Call |-> Outcome(c)]

\* Although a write returns before it is made, every call acts as if at the
\* moment it was put in the channel.
Implements == Atomic!Spec

\* Every read is answered, and every notify_read of a key that is or will be
\* written, unless its caller gives up.
Answered ==
  \A c \in Call : status[c] = "pending" /\ Outcome(c) # Undecided ~> status[c] # "pending"
=============================================================================
