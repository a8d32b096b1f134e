----------------------------- MODULE StoreProofs -----------------------------
(***************************************************************************)
(* Proofs about module Store, for any keys, values, calls and capacity of  *)
(* the channel: its invariants, then that it implements AtomicStore.       *)
(*                                                                         *)
(* TypeOK is inductive.  NoneForgotten is so beside it: a command in the   *)
(* channel is well formed only by TypeOK.                                  *)
(***************************************************************************)
EXTENDS Store, TLAPS, WellFoundedInduction

Inv == TypeOK /\ NoneForgotten

\* A command that the task receives is well formed.
LEMMA Received ==
  ASSUME TypeOK, NEW op \in {"write", "read", "notify_read"}, Receive(op)
  PROVE  /\ Head(channel) \in Command
         /\ Head(channel).op = op
         /\ channel' \in Seq(Command)
         /\ wanted' = wanted
  BY DEF TypeOK, Receive

\* What the commands carry.
LEMMA Carried ==
  ASSUME NEW m \in Command
  PROVE  /\ m.key \in Key
         /\ m.op = "write" => m.val \in Value
         /\ m.op = "read" => m.call \in Reads
         /\ m.op = "notify_read" => m.call \in Waits
  BY DEF Command

\* Answers keep the types if a notify_read is only sent a value.
LEMMA Answers ==
  ASSUME TypeOK, NEW calls \in SUBSET Call, NEW v \in Value \cup {Absent},
         Answer(calls, v), v # Absent \/ calls \cap Waits = {}
  PROVE  /\ status' \in [Call -> {"new", "pending", "answered", "dropped"}]
         /\ reply' \in [Call -> Value \cup {Absent}]
         /\ \A c \in Waits : status'[c] = "answered" => reply'[c] # Absent
  BY DEF TypeOK, Answer, Call

LEMMA InitInv == Init => Inv
  BY DEF Init, Inv, TypeOK, NoneForgotten, Call

LEMMA WriteStep ==
  ASSUME Inv, NEW k \in Key, NEW v \in Value, write(k, v)
  PROVE  Inv'
  <1>1. Write(k, v) \in Command
    BY DEF Write, Command
  <1>2. channel' \in Seq(Command)
    BY <1>1 DEF Inv, TypeOK, write, send
  <1> QED
    BY <1>2 DEF Inv, TypeOK, NoneForgotten, write

LEMMA AskStep ==
  ASSUME Inv, NEW c \in Call, ask(c)
  PROVE  Inv'
  <1>1. Ask(c) \in Command
    BY DEF Ask, Command, Call, Inv, TypeOK
  <1>2. channel' \in Seq(Command)
    BY <1>1 DEF Inv, TypeOK, ask, send
  <1> QED
    BY <1>2 DEF Inv, TypeOK, NoneForgotten, ask, Call

LEMMA DropStep ==
  ASSUME Inv, NEW c \in Waits, Drop(c)
  PROVE  Inv'
  BY DEF Inv, TypeOK, NoneForgotten, Drop, Call

LEMMA ServeWriteStep ==
  ASSUME Inv, ServeWrite
  PROVE  Inv'
  <1> DEFINE k == Head(channel).key
             v == Head(channel).val
  <1>1. Receive("write")
    BY DEF ServeWrite
  <1>2. k \in Key /\ v \in Value /\ channel' \in Seq(Command) /\ wanted' = wanted
    BY <1>1, Received, Carried DEF Inv
  <1>3. Range(obligations[k]) \subseteq Call
    BY <1>2 DEF Inv, TypeOK, Range, Call
  <1>4. v # Absent
    BY <1>2, StoreAssumption
  <1>5. Answer(Range(obligations[k]), v)
    BY DEF ServeWrite
  <1>6. /\ status' \in [Call -> {"new", "pending", "answered", "dropped"}]
        /\ reply' \in [Call -> Value \cup {Absent}]
        /\ \A c \in Waits : status'[c] = "answered" => reply'[c] # Absent
    BY <1>2, <1>3, <1>4, <1>5, Answers DEF Inv
  <1>7. /\ db' = [db EXCEPT ![k] = v]
        /\ obligations' = [obligations EXCEPT ![k] = <<>>]
    BY DEF ServeWrite
  <1> HIDE DEF k, v
  <1>8. db' \in [Key -> Value \cup {Absent}] /\ obligations' \in [Key -> Seq(Waits)]
    BY <1>2, <1>7 DEF Inv, TypeOK
  <1>9. NoneForgotten'
    BY <1>2, <1>7 DEF Inv, TypeOK, NoneForgotten
  <1> QED
    BY <1>2, <1>6, <1>8, <1>9 DEF Inv, TypeOK

LEMMA ServeReadStep ==
  ASSUME Inv, ServeRead
  PROVE  Inv'
  <1>1. Receive("read")
    BY DEF ServeRead
  <1>2. /\ Head(channel).key \in Key /\ Head(channel).call \in Reads
        /\ channel' \in Seq(Command) /\ wanted' = wanted
    BY <1>1, Received, Carried DEF Inv
  <1>3. /\ {Head(channel).call} \in SUBSET Call
        /\ {Head(channel).call} \cap Waits = {}
        /\ db[Head(channel).key] \in Value \cup {Absent}
    BY <1>2, StoreAssumption DEF Inv, TypeOK, Call
  <1>4. Answer({Head(channel).call}, db[Head(channel).key])
    BY DEF ServeRead
  <1>5. /\ status' \in [Call -> {"new", "pending", "answered", "dropped"}]
        /\ reply' \in [Call -> Value \cup {Absent}]
        /\ \A c \in Waits : status'[c] = "answered" => reply'[c] # Absent
    BY <1>3, <1>4, Answers DEF Inv
  <1>6. db' = db /\ obligations' = obligations
    BY DEF ServeRead
  <1> QED
    BY <1>2, <1>5, <1>6 DEF Inv, TypeOK, NoneForgotten

LEMMA ServeNotifyReadStep ==
  ASSUME Inv, ServeNotifyRead
  PROVE  Inv'
  <1> DEFINE k == Head(channel).key
             c == Head(channel).call
  <1>1. Receive("notify_read")
    BY DEF ServeNotifyRead
  <1>2. k \in Key /\ c \in Waits /\ channel' \in Seq(Command) /\ wanted' = wanted
    BY <1>1, Received, Carried DEF Inv
  <1>3. db' = db
    BY DEF ServeNotifyRead
  <1>4. CASE db[k] = Absent
    <2>1. /\ obligations' = [obligations EXCEPT ![k] = Append(@, c)]
          /\ status' = status /\ reply' = reply
      BY <1>4 DEF ServeNotifyRead
    <2> HIDE DEF k, c
    <2>2. obligations' \in [Key -> Seq(Waits)]
      BY <1>2, <2>1 DEF Inv, TypeOK
    <2>3. NoneForgotten'
      BY <1>2, <1>3, <1>4, <2>1 DEF Inv, TypeOK, NoneForgotten
    <2> QED
      BY <1>2, <1>3, <2>1, <2>2, <2>3 DEF Inv, TypeOK
  <1>5. CASE db[k] # Absent
    <2>1. Answer({c}, db[k]) /\ obligations' = obligations
      BY <1>5 DEF ServeNotifyRead
    <2>2. {c} \in SUBSET Call /\ db[k] \in Value \cup {Absent}
      BY <1>2 DEF Call, Inv, TypeOK
    <2>3. /\ status' \in [Call -> {"new", "pending", "answered", "dropped"}]
          /\ reply' \in [Call -> Value \cup {Absent}]
          /\ \A d \in Waits : status'[d] = "answered" => reply'[d] # Absent
      BY <1>5, <2>1, <2>2, Answers DEF Inv
    <2> QED
      BY <1>2, <1>3, <2>1, <2>3 DEF Inv, TypeOK, NoneForgotten
  <1> QED
    BY <1>4, <1>5

LEMMA NextInv ==
  ASSUME Inv, [Next]_vars
  PROVE  Inv'
  <1>1. CASE UNCHANGED vars
    BY <1>1 DEF vars, Inv, TypeOK, NoneForgotten
  <1>2. CASE Next
    BY <1>2, WriteStep, AskStep, DropStep, ServeWriteStep, ServeReadStep,
       ServeNotifyReadStep DEF Next, Serve
  <1> QED
    BY <1>1, <1>2

LEMMA Invariant == Spec => []Inv
  BY InitInv, NextInv, PTL DEF Spec

\* The state of the store is well typed, and the unwrap of the value of a
\* notify_read never fails.
THEOREM TypeCorrect == Spec => []TypeOK
  <1>1. Inv => TypeOK
    BY DEF Inv
  <1> QED
    BY <1>1, Invariant, PTL

\* No wake-up is lost: a notify_read never waits for a key that is there.
THEOREM NoLostWakeUp == Spec => []NoneForgotten
  <1>1. Inv => NoneForgotten
    BY DEF Inv
  <1> QED
    BY <1>1, Invariant, PTL

------------------------------------------------------------------------------
(***************************************************************************)
(* Store implements AtomicStore.  The mapping reads the future of a pending*)
(* call off the channel, so the proof is about what a command more at its  *)
(* end, or one less at its front, changes of what the channel makes of a   *)
(* key and of the writes after a position: nothing, but for the command    *)
(* itself.                                                                 *)
(***************************************************************************)

Channel == Seq(Command)

\* WritesTo, ContentBefore and NextWrite for any channel, `d' being what the
\* database has of the key.
Writes(ch, k) == {i \in DOMAIN ch : ch[i].op = "write" /\ ch[i].key = k}

Content(ch, d, i, k) ==
  LET earlier == {j \in Writes(ch, k) : j < i}
  IN  IF earlier = {} THEN d ELSE ch[Max(earlier)].val

Following(ch, i, k) ==
  LET later == {j \in Writes(ch, k) : j > i}
  IN  IF later = {} THEN Undecided ELSE ch[Min(later)].val

Writing(m, k) == m.op = "write" /\ m.key = k

\* A set of natural numbers has a least element.
LEMMA LeastExists ==
  ASSUME NEW S \in SUBSET Nat, S # {}
  PROVE  \E j \in S : \A l \in S : j <= l
  <1>1. PICK j \in S : \A l \in S : ~(<<l, j>> \in OpToRel(<, Nat))
    BY NatLessThanWellFounded, WFMin
  <1>2. \A l \in S : ~(l < j)
    BY <1>1 DEF OpToRel
  <1> QED
    BY <1>2

\* The last write before a position, and the first after it.
LEMMA GreatestExists ==
  ASSUME NEW n \in Nat, NEW S \in SUBSET (1 .. n), S # {}
  PROVE  \E j \in S : \A l \in S : l <= j
  <1> DEFINE T == {n - x : x \in S}
  <1>1. T \in SUBSET Nat /\ T # {}
    <2>1. \A x \in S : x \in 1 .. n /\ n - x \in Nat
      OBVIOUS
    <2> QED
      BY <2>1
  <1>2. PICK m \in T : \A t \in T : m <= t
    BY <1>1, LeastExists
  <1>3. PICK j \in S : m = n - j
    BY <1>2
  <1>4. \A l \in S : m <= n - l
    BY <1>2
  <1> QED
    BY <1>3, <1>4

LEMMA LastWrite ==
  ASSUME NEW ch \in Channel, NEW k, NEW i \in Int
  PROVE  \/ \A l \in Writes(ch, k) : l >= i
         \/ \E j \in Writes(ch, k) :
              j < i /\ \A l \in Writes(ch, k) : l < i => l <= j
  <1> DEFINE S == {l \in Writes(ch, k) : l < i}
  <1>1. Len(ch) \in Nat /\ S \in SUBSET (1 .. Len(ch))
    BY DEF Channel, Writes
  <1>2. CASE S = {}
    <2>1. \A l \in Writes(ch, k) : l \in Int
      BY DEF Writes, Channel
    <2> QED
      BY <1>2, <2>1
  <1>3. CASE S # {}
    <2>1. PICK j \in S : \A l \in S : l <= j
      BY <1>1, <1>3, GreatestExists
    <2> QED
      BY <2>1
  <1> QED
    BY <1>2, <1>3

LEMMA FirstWrite ==
  ASSUME NEW ch \in Channel, NEW k, NEW i \in Int
  PROVE  \/ \A l \in Writes(ch, k) : l <= i
         \/ \E j \in Writes(ch, k) :
              j > i /\ \A l \in Writes(ch, k) : l > i => l >= j
  <1> DEFINE S == {l \in Writes(ch, k) : l > i}
  <1>1. S \in SUBSET Nat
    BY DEF Channel, Writes
  <1>2. CASE S = {}
    <2>1. \A l \in Writes(ch, k) : l \in Int
      BY DEF Writes, Channel
    <2> QED
      BY <1>2, <2>1
  <1>3. CASE S # {}
    <2>1. PICK j \in S : \A l \in S : j <= l
      BY <1>1, <1>3, LeastExists
    <2> QED
      BY <2>1
  <1> QED
    BY <1>2, <1>3

LEMMA ContentNone ==
  ASSUME NEW ch \in Channel, NEW k, NEW i \in Int, NEW d,
         \A l \in Writes(ch, k) : l >= i
  PROVE  Content(ch, d, i, k) = d
  <1>1. {j \in Writes(ch, k) : j < i} = {}
    BY DEF Writes, Channel
  <1> QED
    BY <1>1 DEF Content

LEMMA ContentIs ==
  ASSUME NEW ch \in Channel, NEW k, NEW i \in Int, NEW d, NEW j \in Writes(ch, k),
         j < i, \A l \in Writes(ch, k) : l < i => l <= j
  PROVE  Content(ch, d, i, k) = ch[j].val
  <1> DEFINE S == {l \in Writes(ch, k) : l < i}
  <1>1. S \in SUBSET Int /\ j \in S /\ \A l \in S : j >= l
    BY DEF Writes, Channel
  <1>2. Max(S) = j
    BY <1>1 DEF Max
  <1> QED
    BY <1>1, <1>2 DEF Content

LEMMA FollowingNone ==
  ASSUME NEW ch \in Channel, NEW k, NEW i \in Int,
         \A l \in Writes(ch, k) : l <= i
  PROVE  Following(ch, i, k) = Undecided
  <1>1. {j \in Writes(ch, k) : j > i} = {}
    BY DEF Writes, Channel
  <1> QED
    BY <1>1 DEF Following

LEMMA FollowingIs ==
  ASSUME NEW ch \in Channel, NEW k, NEW i \in Int, NEW j \in Writes(ch, k),
         j > i, \A l \in Writes(ch, k) : l > i => l >= j
  PROVE  Following(ch, i, k) = ch[j].val
  <1> DEFINE S == {l \in Writes(ch, k) : l > i}
  <1>1. S \in SUBSET Int /\ j \in S /\ \A l \in S : j <= l
    BY DEF Writes, Channel
  <1>2. Min(S) = j
    BY <1>1 DEF Min
  <1> QED
    BY <1>1, <1>2 DEF Following

\* The content is a value, or Absent.
LEMMA ContentType ==
  ASSUME NEW ch \in Channel, NEW k \in Key, NEW i \in Int, NEW d \in Value \cup {Absent}
  PROVE  Content(ch, d, i, k) \in Value \cup {Absent}
  <1>1. \A j \in Writes(ch, k) : ch[j].val \in Value
    BY Carried DEF Writes, Channel
  <1> QED
    BY <1>1, LastWrite, ContentNone, ContentIs
-----------------------------------------------------------------------------
(***************************************************************************)
(* A command more at the end of the channel.                               *)
(***************************************************************************)
LEMMA AppendWrites ==
  ASSUME NEW ch \in Channel, NEW m \in Command, NEW k
  PROVE  /\ Append(ch, m) \in Channel
         /\ Writes(Append(ch, m), k) =
              Writes(ch, k) \cup (IF Writing(m, k) THEN {Len(ch) + 1} ELSE {})
         /\ \A j \in Writes(ch, k) : j \in 1 .. Len(ch) /\ Append(ch, m)[j] = ch[j]
         /\ Append(ch, m)[Len(ch) + 1] = m
  BY DEF Channel, Writes, Writing

LEMMA AppendContent ==
  ASSUME NEW ch \in Channel, NEW m \in Command, NEW k \in Key, NEW d,
         NEW i \in 0 .. (Len(ch) + 1)
  PROVE  Content(Append(ch, m), d, i, k) = Content(ch, d, i, k)
  <1> DEFINE ap == Append(ch, m)
  <1>0. i \in Int /\ i <= Len(ch) + 1 /\ Len(ch) \in Nat
    BY DEF Channel
  <1>a. /\ ap \in Channel
        /\ Writes(ap, k) = Writes(ch, k) \cup (IF Writing(m, k) THEN {Len(ch) + 1} ELSE {})
        /\ \A j \in Writes(ch, k) : j \in 1 .. Len(ch) /\ ap[j] = ch[j]
        /\ ap[Len(ch) + 1] = m
    BY AppendWrites
  <1> HIDE DEF ap
  <1>1. CASE \A l \in Writes(ch, k) : l >= i
    <2>1. \A l \in Writes(ap, k) : l >= i
      BY <1>0, <1>1, <1>a
    <2> QED
      <3>1. Content(ch, d, i, k) = d
        BY <1>0, <1>1, ContentNone
      <3>2. Content(ap, d, i, k) = d
        BY <1>0, <2>1, <1>a, ContentNone
      <3> QED
        BY <3>1, <3>2 DEF ap
  <1>2. ASSUME NEW j \in Writes(ch, k), j < i, \A l \in Writes(ch, k) : l < i => l <= j
        PROVE  Content(ap, d, i, k) = Content(ch, d, i, k)
    <2>1. /\ j \in Writes(ap, k)
          /\ \A l \in Writes(ap, k) : l < i => l <= j
      BY <1>0, <1>2, <1>a
    <2>2. Content(ap, d, i, k) = ap[j].val
      BY <1>0, <1>2, <2>1, <1>a, ContentIs
    <2> QED
      BY <1>0, <1>2, <2>2, <1>a, ContentIs
  <1> QED
    BY <1>0, <1>1, <1>2, LastWrite DEF ap

LEMMA AppendContentLast ==
  ASSUME NEW ch \in Channel, NEW m \in Command, NEW k \in Key, NEW d
  PROVE  Content(Append(ch, m), d, Len(ch) + 2, k) =
           IF Writing(m, k) THEN m.val ELSE Content(ch, d, Len(ch) + 1, k)
  <1> DEFINE ap == Append(ch, m)
             n  == Len(ch) + 1
  <1>0. n \in Nat /\ n + 1 \in Int /\ n + 1 = Len(ch) + 2 /\ n = Len(ch) + 1
    BY DEF Channel
  <1>a. /\ ap \in Channel
        /\ Writes(ap, k) = Writes(ch, k) \cup (IF Writing(m, k) THEN {n} ELSE {})
        /\ \A j \in Writes(ch, k) : j \in Int /\ j < n /\ ap[j] = ch[j]
        /\ ap[n] = m
    BY <1>0, AppendWrites
  <1> HIDE DEF ap, n
  <1>1. CASE Writing(m, k)
    <2>1. /\ n \in Writes(ap, k)
          /\ \A l \in Writes(ap, k) : l < n + 1 => l <= n
      BY <1>0, <1>1, <1>a DEF Channel
    <2>2. Content(ap, d, n + 1, k) = ap[n].val
      BY <1>0, <2>1, <1>a, ContentIs
    <2> QED
      <3>1. Content(ap, d, n + 1, k) = m.val
        BY <2>2, <1>a
      <3> QED
        BY <1>1, <3>1, <1>0 DEF ap, n
  <1>2. CASE ~Writing(m, k)
    <2>1. Writes(ap, k) = Writes(ch, k)
      BY <1>2, <1>a
    <2>2. \A l \in Writes(ch, k) : l < n /\ l < n + 1 /\ ap[l] = ch[l]
      BY <1>0, <1>a
    <2>3. CASE Writes(ch, k) = {}
      <3>1. Content(ch, d, n, k) = d
        BY <1>0, <2>3, ContentNone
      <3>2. Content(ap, d, n + 1, k) = d
        BY <1>0, <2>1, <2>3, <1>a, ContentNone
      <3> QED
        BY <1>2, <3>1, <3>2, <1>0 DEF ap, n
    <2>4. ASSUME NEW j \in Writes(ch, k), \A l \in Writes(ch, k) : l <= j
          PROVE  Content(ap, d, n + 1, k) = Content(ch, d, n, k)
      <3>1. Content(ch, d, n, k) = ch[j].val
        BY <1>0, <2>2, <2>4, ContentIs
      <3>2. Content(ap, d, n + 1, k) = ap[j].val
        BY <1>0, <2>1, <2>2, <2>4, ContentIs, <1>a
      <3> QED
        BY <3>1, <3>2, <2>2
    <2>5. CASE Writes(ch, k) # {}
      <3>1. PICK j \in Writes(ch, k) : \A l \in Writes(ch, k) : l < n => l <= j
        <4>1. \/ \A l \in Writes(ch, k) : l >= n
              \/ \E j \in Writes(ch, k) : j < n /\ \A l \in Writes(ch, k) : l < n => l <= j
          BY <1>0, LastWrite
        <4>2. \A l \in Writes(ch, k) : ~(l >= n)
          BY <1>0, <1>a
        <4> QED
          BY <2>5, <4>1, <4>2
      <3> QED
        <4>1. \A l \in Writes(ch, k) : l <= j
          BY <2>2, <3>1
        <4>2. Content(ap, d, n + 1, k) = Content(ch, d, n, k)
          BY <2>4, <4>1
        <4> QED
          BY <1>2, <4>2, <1>0 DEF ap, n
    <2> QED
      BY <2>3, <2>5
  <1> QED
    BY <1>0, <1>1, <1>2 DEF ap

LEMMA AppendFollowing ==
  ASSUME NEW ch \in Channel, NEW m \in Command, NEW k \in Key, NEW i \in 0 .. Len(ch)
  PROVE  Following(Append(ch, m), i, k) =
           IF Following(ch, i, k) = Undecided /\ Writing(m, k) THEN m.val
           ELSE Following(ch, i, k)
  <1> DEFINE ap == Append(ch, m)
             n  == Len(ch) + 1
  <1>0. n \in Nat /\ i \in Int /\ i < n
    BY DEF Channel
  <1>a. /\ ap \in Channel
        /\ Writes(ap, k) = Writes(ch, k) \cup (IF Writing(m, k) THEN {n} ELSE {})
        /\ \A j \in Writes(ch, k) : j \in Int /\ j < n /\ ap[j] = ch[j]
        /\ ap[n] = m
    BY <1>0, AppendWrites
  <1> HIDE DEF ap, n
  <1>1. ASSUME NEW j \in Writes(ch, k), j > i, \A l \in Writes(ch, k) : l > i => l >= j
        PROVE  Following(ap, i, k) = Following(ch, i, k) /\ Following(ch, i, k) # Undecided
    <2>1. Following(ch, i, k) = ch[j].val /\ ch[j].val \in Value
      BY <1>0, <1>1, FollowingIs, Carried DEF Writes, Channel
    <2>2. /\ j \in Writes(ap, k)
          /\ \A l \in Writes(ap, k) : l > i => l >= j
      BY <1>0, <1>1, <1>a
    <2>3. Following(ap, i, k) = ap[j].val
      BY <1>0, <1>1, <2>2, FollowingIs, <1>a
    <2> QED
      BY <2>1, <2>3, <1>a, StoreAssumption
  <1>2. CASE \A l \in Writes(ch, k) : l <= i
    <2>1. Following(ch, i, k) = Undecided
      BY <1>0, <1>2, FollowingNone
    <2>2. CASE Writing(m, k)
      <3>1. /\ n \in Writes(ap, k)
            /\ \A l \in Writes(ap, k) : l > i => l >= n
        BY <1>0, <1>2, <2>2, <1>a
      <3>2. Following(ap, i, k) = ap[n].val
        BY <1>0, <3>1, FollowingIs, <1>a
      <3> QED
        <4>1. Following(ap, i, k) = m.val
          BY <3>2, <1>a
        <4> QED
          BY <2>1, <2>2, <4>1 DEF ap
    <2>3. CASE ~Writing(m, k)
      <3>1. \A l \in Writes(ap, k) : l <= i
        BY <1>2, <2>3, <1>a
      <3>2. Following(ap, i, k) = Undecided
        BY <1>0, <3>1, <1>a, FollowingNone
      <3> QED
        BY <2>1, <2>3, <3>2 DEF ap
    <2> QED
      BY <2>2, <2>3
  <1> QED
    BY <1>0, <1>1, <1>2, FirstWrite DEF ap
-----------------------------------------------------------------------------
(***************************************************************************)
(* The first command of the channel served.                                *)
(***************************************************************************)
LEMMA TailWrites ==
  ASSUME NEW ch \in Channel, ch # <<>>, NEW k
  PROVE  /\ Tail(ch) \in Channel
         /\ Len(ch) >= 1 /\ Len(Tail(ch)) = Len(ch) - 1
         /\ 1 \in Writes(ch, k) <=> Writing(Head(ch), k)
         /\ Writes(ch, k) \subseteq 1 .. Len(ch)
         /\ Writes(Tail(ch), k) \subseteq 1 .. (Len(ch) - 1)
         /\ \A j \in 1 .. (Len(ch) - 1) :
              /\ Tail(ch)[j] = ch[j + 1]
              /\ j \in Writes(Tail(ch), k) <=> j + 1 \in Writes(ch, k)
         /\ ch[1] = Head(ch)
  BY DEF Channel, Writes, Writing

LEMMA TailContent ==
  ASSUME NEW ch \in Channel, ch # <<>>, NEW k \in Key, NEW d,
         NEW i \in 2 .. (Len(ch) + 1)
  PROVE  Content(Tail(ch), IF Writing(Head(ch), k) THEN Head(ch).val ELSE d, i - 1, k) =
           Content(ch, d, i, k)
  <1> DEFINE tl == Tail(ch)
             p  == i - 1
  <1>0. i \in Int /\ i >= 1 /\ p \in Int /\ p = i - 1 /\ p + 1 = i
    BY DEF Channel
  <1>a. /\ tl \in Channel
        /\ 1 \in Writes(ch, k) <=> Writing(Head(ch), k)
        /\ \A l \in Writes(ch, k) :
             /\ l \in Int /\ l >= 1
             /\ l # 1 => l - 1 \in Writes(tl, k) /\ tl[l - 1] = ch[l]
        /\ \A l \in Writes(tl, k) : l \in Int /\ l >= 1 /\ l + 1 \in Writes(ch, k)
        /\ ch[1] = Head(ch)
    BY TailWrites
  <1> HIDE DEF tl, p
  <1> DEFINE t == IF Writing(Head(ch), k) THEN Head(ch).val ELSE d
  <1>1. CASE \A l \in Writes(ch, k) : l >= i
    <2>1. ~Writing(Head(ch), k)
      BY <1>0, <1>1, <1>a
    <2>2. \A l \in Writes(tl, k) : l >= p
      BY <1>0, <1>1, <1>a
    <2> QED
      <3>1. Content(ch, d, i, k) = d
        BY <1>0, <1>1, ContentNone
      <3>2. Content(tl, t, p, k) = t
        BY <1>0, <2>2, <1>a, ContentNone
      <3> QED
        BY <2>1, <3>1, <3>2 DEF tl, p, t
  <1>2. ASSUME NEW j \in Writes(ch, k), j < i, \A l \in Writes(ch, k) : l < i => l <= j
        PROVE  Content(tl, t, p, k) = Content(ch, d, i, k)
    <2>1. Content(ch, d, i, k) = ch[j].val
      BY <1>0, <1>2, ContentIs
    <2>2. CASE j = 1
      <3>1. Writing(Head(ch), k) /\ t = ch[1].val
        BY <1>2, <2>2, <1>a
      <3>2. \A l \in Writes(tl, k) : l >= p
        BY <1>0, <1>2, <2>2, <1>a
      <3>3. Content(tl, t, p, k) = t
        BY <1>0, <3>2, <1>a, ContentNone
      <3> QED
        BY <2>1, <2>2, <3>1, <3>3
    <2>3. CASE j # 1
      <3>1. PICK q \in Writes(tl, k) : q = j - 1 /\ tl[q] = ch[j]
        BY <2>3, <1>a
      <3>2. q < p /\ \A l \in Writes(tl, k) : l < p => l <= q
        BY <1>0, <1>2, <2>3, <3>1, <1>a
      <3>3. Content(tl, t, p, k) = tl[q].val
        BY <1>0, <3>1, <3>2, <1>a, ContentIs
      <3> QED
        BY <2>1, <3>1, <3>3
    <2> QED
      BY <2>2, <2>3
  <1> QED
    BY <1>0, <1>1, <1>2, LastWrite DEF tl, p

LEMMA TailFollowing ==
  ASSUME NEW ch \in Channel, ch # <<>>, NEW k \in Key, NEW i \in 1 .. Len(ch)
  PROVE  Following(Tail(ch), i - 1, k) = Following(ch, i, k)
  <1> DEFINE tl == Tail(ch)
             p  == i - 1
  <1>0. i \in Int /\ i >= 1 /\ p \in Int /\ p = i - 1 /\ p + 1 = i
    BY DEF Channel
  <1>a. /\ tl \in Channel
        /\ 1 \in Writes(ch, k) <=> Writing(Head(ch), k)
        /\ \A l \in Writes(ch, k) :
             /\ l \in Int /\ l >= 1
             /\ l # 1 => l - 1 \in Writes(tl, k) /\ tl[l - 1] = ch[l]
        /\ \A l \in Writes(tl, k) : l \in Int /\ l >= 1 /\ l + 1 \in Writes(ch, k)
        /\ ch[1] = Head(ch)
    BY TailWrites
  <1> HIDE DEF tl, p
  <1>1. CASE \A l \in Writes(ch, k) : l <= i
    <2>1. \A l \in Writes(tl, k) : l <= p
      BY <1>0, <1>1, <1>a
    <2> QED
      <3>1. Following(ch, i, k) = Undecided
        BY <1>0, <1>1, FollowingNone
      <3>2. Following(tl, p, k) = Undecided
        BY <1>0, <2>1, <1>a, FollowingNone
      <3> QED
        BY <3>1, <3>2 DEF tl, p
  <1>2. ASSUME NEW j \in Writes(ch, k), j > i, \A l \in Writes(ch, k) : l > i => l >= j
        PROVE  Following(tl, p, k) = Following(ch, i, k)
    <2>1. Following(ch, i, k) = ch[j].val
      BY <1>0, <1>2, FollowingIs
    <2>2. PICK q \in Writes(tl, k) : q = j - 1 /\ tl[q] = ch[j]
      BY <1>0, <1>2, <1>a
    <2>3. q > p /\ \A l \in Writes(tl, k) : l > p => l >= q
      BY <1>0, <1>2, <2>2, <1>a
    <2>4. Following(tl, p, k) = tl[q].val
      BY <1>0, <2>2, <2>3, <1>a, FollowingIs
    <2> QED
      BY <2>1, <2>2, <2>4
  <1> QED
    BY <1>0, <1>1, <1>2, FirstWrite DEF tl, p

LEMMA TailFollowingFirst ==
  ASSUME NEW ch \in Channel, ch # <<>>, NEW k \in Key
  PROVE  Following(ch, 0, k) =
           IF Writing(Head(ch), k) THEN Head(ch).val ELSE Following(Tail(ch), 0, k)
  <1> DEFINE tl == Tail(ch)
  <1>a. /\ tl \in Channel
        /\ 1 \in Writes(ch, k) <=> Writing(Head(ch), k)
        /\ \A l \in Writes(ch, k) :
             /\ l \in Int /\ l >= 1
             /\ l # 1 => l - 1 \in Writes(tl, k) /\ tl[l - 1] = ch[l]
        /\ \A l \in Writes(tl, k) : l \in Int /\ l >= 1 /\ l + 1 \in Writes(ch, k)
        /\ ch[1] = Head(ch)
    BY TailWrites
  <1> HIDE DEF tl
  <1>1. CASE Writing(Head(ch), k)
    <2>1. 1 \in Writes(ch, k) /\ \A l \in Writes(ch, k) : l > 0 => l >= 1
      BY <1>1, <1>a
    <2>2. Following(ch, 0, k) = ch[1].val
      BY <2>1, FollowingIs
    <2> QED
      BY <1>1, <2>2, <1>a
  <1>2. CASE ~Writing(Head(ch), k)
    <2>1. 1 \notin Writes(ch, k)
      BY <1>2, <1>a
    <2>2. CASE Writes(ch, k) = {}
      <3>1. Writes(tl, k) = {}
        BY <2>2, <1>a
      <3> QED
        <4>1. Following(ch, 0, k) = Undecided
          BY <2>2, FollowingNone
        <4>2. Following(tl, 0, k) = Undecided
          BY <3>1, <1>a, FollowingNone
        <4> QED
          BY <1>2, <4>1, <4>2 DEF tl
    <2>3. ASSUME NEW j \in Writes(ch, k), j > 0, \A l \in Writes(ch, k) : l > 0 => l >= j
          PROVE  Following(ch, 0, k) = Following(tl, 0, k)
      <3>1. Following(ch, 0, k) = ch[j].val
        BY <2>3, FollowingIs
      <3>2. PICK q \in Writes(tl, k) : q = j - 1 /\ tl[q] = ch[j]
        BY <2>1, <2>3, <1>a
      <3>3. q > 0 /\ \A l \in Writes(tl, k) : l > 0 => l >= q
        BY <2>3, <3>2, <1>a
      <3>4. Following(tl, 0, k) = tl[q].val
        BY <3>2, <3>3, <1>a, FollowingIs
      <3> QED
        BY <3>1, <3>2, <3>4
    <2>4. CASE Writes(ch, k) # {}
      <3>1. \A l \in Writes(ch, k) : l > 0
        BY <1>a
      <3>2. PICK j \in Writes(ch, k) : j > 0 /\ \A l \in Writes(ch, k) : l > 0 => l >= j
        <4>1. \/ \A l \in Writes(ch, k) : l <= 0
              \/ \E j \in Writes(ch, k) : j > 0 /\ \A l \in Writes(ch, k) : l > 0 => l >= j
          BY FirstWrite
        <4>2. \A l \in Writes(ch, k) : ~(l <= 0)
          BY <3>1, <1>a
        <4> QED
          BY <2>4, <4>1, <4>2
      <3> QED
        <4>1. Following(ch, 0, k) = Following(tl, 0, k)
          BY <2>3, <3>2
        <4> QED
          BY <1>2, <4>1 DEF tl
    <2> QED
      BY <1>2, <2>2, <2>4
  <1> QED
    BY <1>1, <1>2 DEF tl
-----------------------------------------------------------------------------
(***************************************************************************)
(* Where the command of a call is, and what the channel makes of the call. *)
(***************************************************************************)
Queued(ch, q) == \E i \in DOMAIN ch : ch[i] = q

Once(ch, q) == \A i, j \in DOMAIN ch : ch[i] = q /\ ch[j] = q => i = j

Place(ch, q) ==
  LET at == {i \in DOMAIN ch : ch[i] = q}
  IN  IF at = {} THEN 0 ELSE Max(at)

\* Outcome of a pending call c of key k, whose command is q.
Resolved(ch, d, c, k, q) ==
  LET i == Place(ch, q)
      v == Content(ch, d, i, k)
  IN  IF i > 0 /\ (c \in Reads \/ v # Absent) THEN v ELSE Following(ch, i, k)

LEMMA PlaceNone ==
  ASSUME NEW ch \in Channel, NEW q, ~Queued(ch, q)
  PROVE  Place(ch, q) = 0
  BY DEF Queued, Place

LEMMA PlaceIs ==
  ASSUME NEW ch \in Channel, NEW q, Once(ch, q), NEW i \in DOMAIN ch, ch[i] = q
  PROVE  Place(ch, q) = i
  <1> DEFINE S == {j \in DOMAIN ch : ch[j] = q}
  <1>1. S = {i} /\ i \in Int
    BY DEF Once, Channel
  <1>2. Max(S) = i
    BY <1>1 DEF Max
  <1> QED
    BY <1>1, <1>2 DEF Place

LEMMA QueuedAppend ==
  ASSUME NEW ch \in Channel, NEW m \in Command, NEW q
  PROVE  /\ Queued(Append(ch, m), q) <=> Queued(ch, q) \/ m = q
         /\ Once(ch, q) /\ ~(Queued(ch, q) /\ m = q) => Once(Append(ch, m), q)
  <1> DEFINE ap == Append(ch, m)
             n  == Len(ch) + 1
  <1>1. /\ DOMAIN ap = DOMAIN ch \cup {n} /\ n \notin DOMAIN ch /\ ap[n] = m
        /\ \A j \in DOMAIN ch : ap[j] = ch[j]
    BY DEF Channel
  <1> HIDE DEF ap, n
  <1>2. Queued(ap, q) <=> Queued(ch, q) \/ m = q
    BY <1>1 DEF Queued
  <1>3. Once(ch, q) /\ ~(Queued(ch, q) /\ m = q) => Once(ap, q)
    BY <1>1 DEF Queued, Once
  <1> QED
    BY <1>2, <1>3 DEF ap

LEMMA QueuedTail ==
  ASSUME NEW ch \in Channel, ch # <<>>, NEW q, Once(ch, q)
  PROVE  /\ Once(Tail(ch), q)
         /\ Queued(ch, q) <=> Head(ch) = q \/ Queued(Tail(ch), q)
         /\ Head(ch) = q => ~Queued(Tail(ch), q)
  <1> DEFINE tl == Tail(ch)
  <1>1. /\ Len(ch) \in Nat /\ DOMAIN ch = 1 .. Len(ch) /\ 1 \in DOMAIN ch
        /\ DOMAIN tl = 1 .. (Len(ch) - 1)
        /\ \A j \in DOMAIN tl : j + 1 \in DOMAIN ch /\ tl[j] = ch[j + 1]
        /\ ch[1] = Head(ch)
    BY DEF Channel
  <1> HIDE DEF tl
  <1>2. \A j \in DOMAIN ch : j # 1 => j - 1 \in DOMAIN tl /\ tl[j - 1] = ch[j]
    BY <1>1
  <1>3. Once(tl, q)
    BY <1>1 DEF Once
  <1>4. Queued(ch, q) <=> Head(ch) = q \/ Queued(tl, q)
    BY <1>1, <1>2 DEF Queued
  <1>5. Head(ch) = q => ~Queued(tl, q)
    BY <1>1 DEF Queued, Once
  <1> QED
    BY <1>3, <1>4, <1>5 DEF tl

\* A command of someone else at the end: only a write can settle an outcome,
\* and only one that is open.
LEMMA AppendResolved ==
  ASSUME NEW ch \in Channel, NEW m \in Command, NEW k \in Key,
         NEW d \in Value \cup {Absent}, NEW c, NEW q, m # q, Once(ch, q)
  PROVE  Resolved(Append(ch, m), d, c, k, q) =
           IF Resolved(ch, d, c, k, q) = Undecided /\ Writing(m, k) THEN m.val
           ELSE Resolved(ch, d, c, k, q)
  <1> DEFINE ap == Append(ch, m)
  <1>1. ap \in Channel /\ Once(ap, q) /\ (Queued(ap, q) <=> Queued(ch, q))
    BY AppendWrites, QueuedAppend
  <1>2. \A j \in DOMAIN ch : j \in DOMAIN ap /\ ap[j] = ch[j]
    BY DEF Channel
  <1>3. ASSUME NEW i \in 0 .. Len(ch), Place(ch, q) = i, Place(ap, q) = i
        PROVE  Resolved(ap, d, c, k, q) =
                 IF Resolved(ch, d, c, k, q) = Undecided /\ Writing(m, k) THEN m.val
                 ELSE Resolved(ch, d, c, k, q)
    <2>1. i \in Int /\ i \in 0 .. (Len(ch) + 1)
      BY DEF Channel
    <2>2. Content(ap, d, i, k) = Content(ch, d, i, k)
      BY <2>1, AppendContent
    <2>3. Content(ch, d, i, k) # Undecided
      BY <2>1, ContentType, StoreAssumption
    <2>4. Following(ap, i, k) = IF Following(ch, i, k) = Undecided /\ Writing(m, k)
                                THEN m.val ELSE Following(ch, i, k)
      BY AppendFollowing
    <2> HIDE DEF ap
    <2> QED
      BY <1>3, <2>2, <2>3, <2>4 DEF Resolved
  <1> HIDE DEF ap
  <1>4. CASE Queued(ch, q)
    <2>1. PICK i \in DOMAIN ch : ch[i] = q
      BY <1>4 DEF Queued
    <2>2. Place(ch, q) = i
      BY <2>1, PlaceIs
    <2>3. Place(ap, q) = i
      BY <1>1, <1>2, <2>1, PlaceIs
    <2>4. i \in 0 .. Len(ch)
      BY DEF Channel
    <2> QED
      BY <1>3, <2>2, <2>3, <2>4 DEF ap
  <1>5. CASE ~Queued(ch, q)
    <2>1. Place(ch, q) = 0 /\ Place(ap, q) = 0
      BY <1>1, <1>5, PlaceNone
    <2>2. 0 \in 0 .. Len(ch)
      BY DEF Channel
    <2> QED
      BY <1>3, <2>1, <2>2 DEF ap
  <1> QED
    BY <1>4, <1>5

\* The command of the call itself at the end: it finds the content, or waits.
LEMMA AppendResolvedNew ==
  ASSUME NEW ch \in Channel, NEW q \in Command, NEW k \in Key,
         NEW d \in Value \cup {Absent}, NEW c, ~Queued(ch, q), ~Writing(q, k)
  PROVE  Resolved(Append(ch, q), d, c, k, q) =
           IF c \in Reads \/ Content(ch, d, Len(ch) + 1, k) # Absent
           THEN Content(ch, d, Len(ch) + 1, k) ELSE Undecided
  <1> DEFINE ap == Append(ch, q)
             n  == Len(ch) + 1
  <1>1. ap \in Channel /\ n \in DOMAIN ap /\ ap[n] = q /\ n \in Int /\ n > 0
    BY DEF Channel
  <1>2. Once(ch, q)
    BY DEF Once, Queued
  <1>3. Once(ap, q)
    BY <1>2, QueuedAppend
  <1>4. Content(ap, d, n, k) = Content(ch, d, n, k)
    <2>1. n \in 0 .. (Len(ch) + 1)
      BY <1>1
    <2> QED
      BY <2>1, AppendContent
  <1>5. \A l \in Writes(ap, k) : l <= n
    BY <1>1, AppendWrites
  <1> HIDE DEF ap, n
  <1>6. Place(ap, q) = n
    BY <1>1, <1>3, PlaceIs
  <1>7. Following(ap, n, k) = Undecided
    BY <1>1, <1>5, FollowingNone
  <1>8. Resolved(ap, d, c, k, q) =
          IF c \in Reads \/ Content(ch, d, n, k) # Absent
          THEN Content(ch, d, n, k) ELSE Undecided
    BY <1>1, <1>4, <1>6, <1>7 DEF Resolved
  <1> QED
    BY <1>8 DEF ap, n

\* A command served that is not the call's: it changes nothing for the call,
\* unless the call waits in the obligations of the key that is written.
LEMMA TailResolved ==
  ASSUME NEW ch \in Channel, ch # <<>>, NEW k \in Key, NEW d, NEW c, NEW q,
         Once(ch, q), Head(ch) # q, Queued(ch, q) \/ ~Writing(Head(ch), k)
  PROVE  Resolved(Tail(ch), IF Writing(Head(ch), k) THEN Head(ch).val ELSE d, c, k, q) =
           Resolved(ch, d, c, k, q)
  <1> DEFINE tl == Tail(ch)
             e  == IF Writing(Head(ch), k) THEN Head(ch).val ELSE d
  <1>1. /\ tl \in Channel /\ Once(tl, q) /\ (Queued(tl, q) <=> Queued(ch, q))
    BY TailWrites, QueuedTail
  <1>2. CASE Queued(ch, q)
    <2>1. PICK i \in DOMAIN ch : ch[i] = q
      BY <1>2 DEF Queued
    <2>2. Place(ch, q) = i
      BY <2>1, PlaceIs
    <2>3. /\ i \in 2 .. (Len(ch) + 1) /\ i \in 1 .. Len(ch) /\ i > 0 /\ i - 1 > 0
          /\ i - 1 \in DOMAIN tl /\ tl[i - 1] = q
      BY <2>1 DEF Channel
    <2>4. Place(tl, q) = i - 1
      BY <1>1, <2>3, PlaceIs
    <2>5. Content(tl, e, i - 1, k) = Content(ch, d, i, k)
      BY <2>3, TailContent
    <2>6. Following(tl, i - 1, k) = Following(ch, i, k)
      BY <2>3, TailFollowing
    <2> HIDE DEF tl, e
    <2>7. Resolved(tl, e, c, k, q) = Resolved(ch, d, c, k, q)
      BY <2>2, <2>3, <2>4, <2>5, <2>6 DEF Resolved
    <2> QED
      BY <2>7 DEF tl, e
  <1>3. CASE ~Queued(ch, q)
    <2>1. Place(ch, q) = 0 /\ Place(tl, q) = 0
      BY <1>1, <1>3, PlaceNone
    <2>2. Following(tl, 0, k) = Following(ch, 0, k)
      BY <1>3, TailFollowingFirst
    <2> HIDE DEF tl, e
    <2>3. Resolved(tl, e, c, k, q) = Resolved(ch, d, c, k, q)
      BY <2>1, <2>2 DEF Resolved
    <2> QED
      BY <2>3 DEF tl, e
  <1> QED
    BY <1>2, <1>3

\* The command of the call served: it finds what the database has, or waits
\* for the first write behind it.
LEMMA HeadResolved ==
  ASSUME NEW ch \in Channel, ch # <<>>, NEW k \in Key,
         NEW d \in Value \cup {Absent}, NEW c \in Call,
         Once(ch, Head(ch))
  PROVE  /\ c \in Reads \/ d # Absent => Resolved(ch, d, c, k, Head(ch)) = d
         /\ c \notin Reads /\ d = Absent =>
              Resolved(Tail(ch), d, c, k, Head(ch)) = Resolved(ch, d, c, k, Head(ch))
  <1> DEFINE tl == Tail(ch)
             q  == Head(ch)
  <1>1. 1 \in DOMAIN ch /\ ch[1] = q /\ 1 \in 1 .. Len(ch)
    BY DEF Channel
  <1>2. Place(ch, q) = 1
    BY <1>1, PlaceIs
  <1>3. Content(ch, d, 1, k) = d
    BY TailWrites, ContentNone
  <1>4. Following(tl, 1 - 1, k) = Following(ch, 1, k)
    BY <1>1, TailFollowing
  <1>5. tl \in Channel /\ ~Queued(tl, q)
    BY TailWrites, QueuedTail
  <1>6. Place(tl, q) = 0
    BY <1>5, PlaceNone
  <1> HIDE DEF tl, q
  <1>7. /\ c \in Reads \/ d # Absent => Resolved(ch, d, c, k, q) = d
        /\ c \notin Reads /\ d = Absent =>
             Resolved(tl, d, c, k, q) = Resolved(ch, d, c, k, q)
    BY <1>2, <1>3, <1>4, <1>6 DEF Resolved
  <1> QED
    BY <1>7 DEF tl, q

\* A call that waits in the obligations gets the value of the first write.
LEMMA WaitResolved ==
  ASSUME NEW ch \in Channel, ch # <<>>, NEW k \in Key, NEW d, NEW c, NEW q,
         ~Queued(ch, q), Writing(Head(ch), k)
  PROVE  Resolved(ch, d, c, k, q) = Head(ch).val
  <1>1. Place(ch, q) = 0
    BY PlaceNone
  <1>2. Following(ch, 0, k) = Head(ch).val
    BY TailFollowingFirst
  <1> QED
    BY <1>1, <1>2 DEF Resolved
-----------------------------------------------------------------------------
(***************************************************************************)
(* Where the calls are in a reachable state: a pending call is in the      *)
(* channel, once, or in the obligations of its key, and never in both.     *)
(***************************************************************************)
Waiting(c) == \E k \in Key : c \in Range(obligations[k])

Placed ==
  /\ \A i \in DOMAIN channel :
       channel[i].op # "write" => channel[i] = Ask(channel[i].call)
  /\ \A c \in Call :
       /\ Once(channel, Ask(c))
       /\ Queued(channel, Ask(c)) => status[c] # "new" /\ ~Waiting(c)
       /\ \A k \in Key :
            c \in Range(obligations[k]) => status[c] # "new" /\ wanted[c] = k
       /\ status[c] = "pending" => Queued(channel, Ask(c)) \/ Waiting(c)

FullInv == Inv /\ Placed

LEMMA Asks ==
  ASSUME NEW c \in Call
  PROVE  /\ Ask(c).op # "write" /\ Ask(c).key = wanted[c] /\ Ask(c).call = c
         /\ Ask(c).op = "read" <=> c \in Reads
         /\ Ask(c).op = "notify_read" <=> c \notin Reads
         /\ \A k \in Key, v \in Value : Ask(c) # Write(k, v)
         /\ \A k : ~Writing(Ask(c), k)
         /\ \A d \in Call : Ask(c) = Ask(d) => c = d
  BY DEF Ask, Write, Writing

LEMMA AsksSame ==
  ASSUME wanted' = wanted, NEW c
  PROVE  Ask(c)' = Ask(c)
  BY DEF Ask

LEMMA AskCommand ==
  ASSUME Inv, NEW c \in Call
  PROVE  Ask(c) \in Command
  BY DEF Ask, Command, Call, Inv, TypeOK

LEMMA RangeAppend ==
  ASSUME NEW s \in Seq(Waits), NEW c \in Waits
  PROVE  Range(Append(s, c)) = Range(s) \cup {c}
  <1> DEFINE ap == Append(s, c)
             n  == Len(s) + 1
  <1>1. /\ DOMAIN ap = DOMAIN s \cup {n} /\ ap[n] = c
        /\ \A j \in DOMAIN s : ap[j] = s[j]
    OBVIOUS
  <1> HIDE DEF ap, n
  <1>2. Range(ap) = Range(s) \cup {c}
    BY <1>1 DEF Range
  <1> QED
    BY <1>2 DEF ap

LEMMA RangeEmpty == Range(<<>>) = {}
  BY DEF Range

\* The command at the front is a write or that of a call.
LEMMA HeadCommand ==
  ASSUME Inv, Placed, channel # <<>>
  PROVE  /\ channel \in Channel /\ 1 \in DOMAIN channel /\ channel[1] = Head(channel)
         /\ Head(channel).op # "write" =>
              /\ Head(channel).call \in Call
              /\ Head(channel) = Ask(Head(channel).call)
              /\ Queued(channel, Head(channel))
  <1>1. channel \in Channel /\ 1 \in DOMAIN channel /\ channel[1] = Head(channel)
    BY DEF Inv, TypeOK, Channel
  <1>2. Head(channel) \in Command
    BY <1>1 DEF Channel
  <1> QED
    BY <1>1, <1>2 DEF Placed, Queued, Command, Call

\* What serving a command leaves of the channel.
LEMMA ServedChannel ==
  ASSUME Inv, Placed, NEW op, Receive(op)
  PROVE  /\ channel # <<>> /\ channel' = Tail(channel) /\ wanted' = wanted
         /\ \A i \in DOMAIN channel' :
              channel'[i].op # "write" => channel'[i] = Ask(channel'[i].call)
         /\ \A c \in Call :
              /\ Once(channel', Ask(c))
              /\ Queued(channel, Ask(c)) <=>
                   Head(channel) = Ask(c) \/ Queued(channel', Ask(c))
              /\ Head(channel) = Ask(c) => ~Queued(channel', Ask(c))
  <1>1. channel # <<>> /\ channel' = Tail(channel) /\ wanted' = wanted
    BY DEF Receive
  <1>2. channel \in Channel
    BY DEF Inv, TypeOK, Channel
  <1>3. \A i \in DOMAIN channel' : i + 1 \in DOMAIN channel /\ channel'[i] = channel[i + 1]
    BY <1>1, <1>2 DEF Channel
  <1>4. \A i \in DOMAIN channel' :
          channel'[i].op # "write" => channel'[i] = Ask(channel'[i].call)
    BY <1>3 DEF Placed
  <1> QED
    BY <1>1, <1>2, <1>4, QueuedTail DEF Placed

\* Placed in the next state, in terms of the commands of this one.
LEMMA PlacedNext ==
  ASSUME wanted' = wanted,
         \A i \in DOMAIN channel' :
           channel'[i].op # "write" => channel'[i] = Ask(channel'[i].call),
         \A c \in Call :
           /\ Once(channel', Ask(c))
           /\ Queued(channel', Ask(c)) =>
                status'[c] # "new" /\ \A k \in Key : c \notin Range(obligations'[k])
           /\ \A k \in Key :
                c \in Range(obligations'[k]) => status'[c] # "new" /\ wanted[c] = k
           /\ status'[c] = "pending" =>
                \/ Queued(channel', Ask(c))
                \/ \E k \in Key : c \in Range(obligations'[k])
  PROVE  Placed'
  <1>1. \A c : Ask(c)' = Ask(c)
    BY DEF Ask
  <1>2. (\A i \in DOMAIN channel :
           channel[i].op # "write" => channel[i] = Ask(channel[i].call))'
    BY DEF Ask
  <1>3. \A c \in Call :
          /\ Once(channel', Ask(c)')
          /\ Queued(channel', Ask(c)') =>
               status'[c] # "new" /\ \A k \in Key : c \notin Range(obligations'[k])
          /\ \A k \in Key :
               c \in Range(obligations'[k]) => status'[c] # "new" /\ wanted'[c] = k
          /\ status'[c] = "pending" =>
               \/ Queued(channel', Ask(c)')
               \/ \E k \in Key : c \in Range(obligations'[k])
    BY <1>1
  <1> QED
    BY <1>2, <1>3 DEF Placed, Waiting

LEMMA PlacedInit == Init => Placed
  BY DEF Init, Placed, Queued, Once, Waiting, Range

LEMMA PlacedWrite ==
  ASSUME FullInv, NEW k \in Key, NEW v \in Value, write(k, v)
  PROVE  Placed'
  <1>1. /\ channel \in Channel /\ Write(k, v) \in Command /\ Write(k, v).op = "write"
        /\ channel' = Append(channel, Write(k, v))
    BY DEF FullInv, Inv, TypeOK, Channel, Write, Command, write, send
  <1>2. /\ obligations' = obligations /\ status' = status /\ wanted' = wanted
    BY DEF write
  <1>3. \A i \in DOMAIN channel' :
          channel'[i].op # "write" => channel'[i] = Ask(channel'[i].call)
    BY <1>1 DEF FullInv, Placed, Channel
  <1>4. \A c \in Call : Ask(c) # Write(k, v)
    BY Asks
  <1>5. \A c \in Call : /\ Once(channel', Ask(c))
                        /\ Queued(channel', Ask(c)) <=> Queued(channel, Ask(c))
    BY <1>1, <1>4, QueuedAppend DEF FullInv, Placed
  <1> QED
    BY <1>2, <1>3, <1>5, PlacedNext DEF FullInv, Placed, Waiting

LEMMA PlacedAsk ==
  ASSUME FullInv, NEW c \in Call, ask(c)
  PROVE  Placed'
  <1>1. /\ channel \in Channel /\ Ask(c) \in Command /\ status[c] = "new"
        /\ channel' = Append(channel, Ask(c))
    BY AskCommand DEF FullInv, Inv, TypeOK, Channel, ask, send
  <1>2. /\ obligations' = obligations /\ wanted' = wanted
        /\ status'[c] = "pending" /\ \A d \in Call : d # c => status'[d] = status[d]
    BY DEF ask, FullInv, Inv, TypeOK
  <1>3. \A i \in DOMAIN channel' :
          channel'[i].op # "write" => channel'[i] = Ask(channel'[i].call)
    BY <1>1, Asks DEF FullInv, Placed, Channel
  <1>4. \A d \in Call : Ask(d) = Ask(c) => d = c
    BY Asks
  <1>5. ~Queued(channel, Ask(c)) /\ \A k \in Key : c \notin Range(obligations[k])
    BY <1>1 DEF FullInv, Placed
  <1>6. \A d \in Call : /\ Once(channel', Ask(d))
                        /\ Queued(channel', Ask(d)) <=> Queued(channel, Ask(d)) \/ d = c
    BY <1>1, <1>4, <1>5, QueuedAppend DEF FullInv, Placed
  <1> QED
    BY <1>2, <1>3, <1>5, <1>6, PlacedNext DEF FullInv, Placed, Waiting

LEMMA PlacedDrop ==
  ASSUME FullInv, NEW c \in Waits, Drop(c)
  PROVE  Placed'
  <1>1. /\ channel' = channel /\ obligations' = obligations /\ wanted' = wanted
        /\ \A d \in Call : \/ status'[d] = status[d]
                           \/ status[d] = "pending" /\ status'[d] = "dropped"
    BY DEF Drop, FullInv, Inv, TypeOK
  <1> QED
    BY <1>1, PlacedNext DEF FullInv, Placed, Waiting

LEMMA PlacedStutter ==
  ASSUME FullInv, UNCHANGED vars
  PROVE  Placed'
  <1>1. channel' = channel /\ obligations' = obligations /\ wanted' = wanted /\ status' = status
    BY DEF vars
  <1> QED
    BY <1>1, PlacedNext DEF FullInv, Placed, Waiting

\* Answers only turn pending calls into answered ones.
LEMMA Answering ==
  ASSUME NEW calls, NEW v, Answer(calls, v)
  PROVE  \A c \in Call :
           /\ c \in calls /\ status[c] = "pending" =>
                status'[c] = "answered" /\ reply'[c] = v
           /\ ~(c \in calls /\ status[c] = "pending") =>
                status'[c] = status[c] /\ reply'[c] = reply[c]
  BY DEF Answer

LEMMA PlacedServeWrite ==
  ASSUME FullInv, ServeWrite
  PROVE  Placed'
  <1> DEFINE k == Head(channel).key
             v == Head(channel).val
  <1>1. Receive("write") /\ k \in Key
    BY Received, Carried DEF ServeWrite, FullInv, Inv
  <1>2. /\ wanted' = wanted
        /\ \A i \in DOMAIN channel' :
             channel'[i].op # "write" => channel'[i] = Ask(channel'[i].call)
        /\ \A c \in Call :
             /\ Once(channel', Ask(c))
             /\ Queued(channel, Ask(c)) <=>
                  Head(channel) = Ask(c) \/ Queued(channel', Ask(c))
    BY <1>1, ServedChannel DEF FullInv
  <1>3. \A c \in Call : Head(channel) # Ask(c)
    BY <1>1, Asks DEF Receive
  <1>4. obligations' = [obligations EXCEPT ![k] = <<>>] /\ Answer(Range(obligations[k]), v)
    BY DEF ServeWrite
  <1>5. /\ \A j \in Key : j # k => obligations'[j] = obligations[j]
        /\ \A c : c \notin Range(obligations'[k])
    BY <1>1, <1>4, RangeEmpty DEF FullInv, Inv, TypeOK
  <1>6. \A c \in Call :
          /\ c \in Range(obligations[k]) => status'[c] # "pending"
          /\ status[c] # "new" => status'[c] # "new"
          /\ status'[c] = "pending" => status[c] = "pending"
    BY <1>4, Answering
  <1> HIDE DEF k, v
  <1>7. \A c \in Call :
           /\ Queued(channel', Ask(c)) =>
                status'[c] # "new" /\ \A j \in Key : c \notin Range(obligations'[j])
           /\ \A j \in Key :
                c \in Range(obligations'[j]) => status'[c] # "new" /\ wanted[c] = j
    BY <1>1, <1>2, <1>5, <1>6 DEF FullInv, Placed, Waiting
  <1>8. \A c \in Call :
           status'[c] = "pending" =>
                \/ Queued(channel', Ask(c))
                \/ \E j \in Key : c \in Range(obligations'[j])
    BY <1>1, <1>2, <1>3, <1>5, <1>6 DEF FullInv, Placed, Waiting
  <1> QED
    BY <1>2, <1>7, <1>8, PlacedNext

LEMMA PlacedServeRead ==
  ASSUME FullInv, ServeRead
  PROVE  Placed'
  <1> DEFINE r == Head(channel).call
  <1>1. Receive("read") /\ obligations' = obligations /\ Answer({r}, db[Head(channel).key])
    BY DEF ServeRead
  <1>2. /\ wanted' = wanted
        /\ \A i \in DOMAIN channel' :
             channel'[i].op # "write" => channel'[i] = Ask(channel'[i].call)
        /\ \A c \in Call :
             /\ Once(channel', Ask(c))
             /\ Queued(channel, Ask(c)) <=>
                  Head(channel) = Ask(c) \/ Queued(channel', Ask(c))
    BY <1>1, ServedChannel DEF FullInv
  <1>3. r \in Call /\ Head(channel) = Ask(r)
    BY <1>1, HeadCommand DEF FullInv, Receive
  <1>4. \A c \in Call : Head(channel) = Ask(c) => c = r
    BY <1>3, Asks
  <1>5. \A c \in Call :
          /\ c = r => status'[c] # "pending"
          /\ status[c] # "new" => status'[c] # "new"
          /\ status'[c] = "pending" => status[c] = "pending"
    BY <1>1, Answering
  <1> HIDE DEF r
  <1> QED
    BY <1>1, <1>2, <1>4, <1>5, PlacedNext DEF FullInv, Placed, Waiting

LEMMA PlacedServeNotifyRead ==
  ASSUME FullInv, ServeNotifyRead
  PROVE  Placed'
  <1> DEFINE k == Head(channel).key
             r == Head(channel).call
  <1>1. Receive("notify_read") /\ k \in Key /\ r \in Waits
    BY Received, Carried DEF ServeNotifyRead, FullInv, Inv
  <1>2. /\ wanted' = wanted
        /\ \A i \in DOMAIN channel' :
             channel'[i].op # "write" => channel'[i] = Ask(channel'[i].call)
        /\ \A c \in Call :
             /\ Once(channel', Ask(c))
             /\ Queued(channel, Ask(c)) <=>
                  Head(channel) = Ask(c) \/ Queued(channel', Ask(c))
             /\ Head(channel) = Ask(c) => ~Queued(channel', Ask(c))
    BY <1>1, ServedChannel DEF FullInv
  <1>3. r \in Call /\ Head(channel) = Ask(r) /\ k = wanted[r] /\ status[r] # "new"
    BY <1>1, HeadCommand, Asks DEF FullInv, Receive, Placed
  <1>4. \A c \in Call : Head(channel) = Ask(c) => c = r
    BY <1>3, Asks
  <1>5. CASE db[k] = Absent
    <2>1. obligations' = [obligations EXCEPT ![k] = Append(@, r)] /\ status' = status
      BY <1>5 DEF ServeNotifyRead
    <2>2. /\ \A j \in Key : j # k => obligations'[j] = obligations[j]
          /\ Range(obligations'[k]) = Range(obligations[k]) \cup {r}
      <3>1. obligations[k] \in Seq(Waits)
        BY <1>1 DEF FullInv, Inv, TypeOK
      <3> HIDE DEF k, r
      <3>2. obligations'[k] = Append(obligations[k], r)
        BY <1>1, <2>1 DEF FullInv, Inv, TypeOK
      <3>3. \A j \in Key : j # k => obligations'[j] = obligations[j]
        BY <1>1, <2>1 DEF FullInv, Inv, TypeOK
      <3> QED
        BY <1>1, <3>1, <3>2, <3>3, RangeAppend
    <2> HIDE DEF k, r
    <2>3. \A c \in Call :
             Queued(channel', Ask(c)) =>
                status'[c] # "new" /\ \A j \in Key : c \notin Range(obligations'[j])
      BY <1>1, <1>2, <1>3, <2>1, <2>2 DEF FullInv, Placed, Waiting
    <2>4. \A c \in Call : \A j \in Key :
                c \in Range(obligations'[j]) => status'[c] # "new" /\ wanted[c] = j
      BY <1>1, <1>3, <2>1, <2>2 DEF FullInv, Placed
    <2>5. \A c \in Call :
             status'[c] = "pending" =>
                \/ Queued(channel', Ask(c))
                \/ \E j \in Key : c \in Range(obligations'[j])
      BY <1>1, <1>2, <1>4, <2>1, <2>2 DEF FullInv, Placed, Waiting
    <2> QED
      BY <1>2, <2>3, <2>4, <2>5, PlacedNext
  <1>6. CASE db[k] # Absent
    <2>1. Answer({r}, db[k]) /\ obligations' = obligations
      BY <1>6 DEF ServeNotifyRead
    <2>2. \A c \in Call :
            /\ c = r => status'[c] # "pending"
            /\ status[c] # "new" => status'[c] # "new"
            /\ status'[c] = "pending" => status[c] = "pending"
      BY <2>1, Answering
    <2> HIDE DEF k, r
    <2> QED
      BY <1>2, <1>4, <2>1, <2>2, PlacedNext DEF FullInv, Placed, Waiting
  <1> QED
    BY <1>5, <1>6

LEMMA FullInvariant == Spec => []FullInv
  <1>1. Init => FullInv
    BY InitInv, PlacedInit DEF FullInv
  <1>2. FullInv /\ [Next]_vars => FullInv'
    <2> SUFFICES ASSUME FullInv, [Next]_vars
                 PROVE  FullInv'
      OBVIOUS
    <2>1. Inv'
      BY NextInv DEF FullInv
    <2>2. Placed'
      BY PlacedWrite, PlacedAsk, PlacedDrop, PlacedServeWrite, PlacedServeRead,
         PlacedServeNotifyRead, PlacedStutter DEF Next, Serve
    <2> QED
      BY <2>1, <2>2 DEF FullInv
  <1> QED
    BY <1>1, <1>2, PTL DEF Spec
-----------------------------------------------------------------------------
(***************************************************************************)
(* The refinement mapping, before and after a step.                        *)
(***************************************************************************)
data == [k \in Key |-> ContentBefore(Len(channel) + 1, k)]
outcome == [c \in Call |-> Outcome(c)]

LEMMA Mapped ==
  /\ \A k \in Key : data[k] = Content(channel, db[k], Len(channel) + 1, k)
  /\ \A c \in Call :
       outcome[c] = CASE status[c] = "answered" -> reply[c]
                      [] status[c] = "pending" ->
                           Resolved(channel, db[wanted[c]], c, wanted[c], Ask(c))
                      [] OTHER -> Undecided
  BY DEF data, outcome, ContentBefore, Outcome, NextWrite, WritesTo, Position,
         Content, Following, Writes, Place, Resolved

LEMMA MappedNext ==
  ASSUME wanted' = wanted
  PROVE  /\ \A k \in Key : data'[k] = Content(channel', db'[k], Len(channel') + 1, k)
         /\ \A c \in Call :
              outcome'[c] = CASE status'[c] = "answered" -> reply'[c]
                              [] status'[c] = "pending" ->
                                   Resolved(channel', db'[wanted[c]], c, wanted[c], Ask(c))
                              [] OTHER -> Undecided
  <1>1. \A k \in Key : data'[k] = Content(channel', db'[k], Len(channel') + 1, k)
    BY DEF data, ContentBefore, WritesTo, Content, Writes
  <1>2. \A c \in Call :
          outcome'[c] = CASE status'[c] = "answered" -> reply'[c]
                          [] status'[c] = "pending" ->
                               Resolved(channel', db'[wanted'[c]], c, wanted'[c], Ask(c)')
                          [] OTHER -> Undecided
    BY DEF outcome, ContentBefore, Outcome, NextWrite, WritesTo, Position,
           Content, Following, Writes, Place, Resolved
  <1>3. \A c \in Call : Ask(c)' = Ask(c)
    BY AsksSame
  <1> QED
    BY <1>1, <1>2, <1>3

LEMMA MappingDomains ==
  /\ DOMAIN data = Key /\ DOMAIN outcome = Call
  /\ data = [k \in Key |-> data[k]] /\ outcome = [c \in Call |-> outcome[c]]
  /\ data' = [k \in Key |-> data'[k]] /\ outcome' = [c \in Call |-> outcome'[c]]
  BY DEF data, outcome

LEMMA AtomicInit == Init => Atomic!Init
  <1> SUFFICES ASSUME Init
               PROVE  Atomic!Init
    OBVIOUS
  <1>1. \A k \in Key : data[k] = Absent
    BY DEF Init, data, ContentBefore, WritesTo
  <1>2. \A c \in Call : outcome[c] = Undecided
    BY DEF Init, outcome, Outcome
  <1>3. data = [k \in Key |-> Absent] /\ outcome = [c \in Call |-> Undecided]
    BY <1>1, <1>2, MappingDomains
  <1>4. status = [c \in Call |-> "new"] /\ wanted \in [Call -> Key]
    BY DEF Init
  <1> QED
    BY <1>3, <1>4 DEF Atomic!Init, Atomic!Call, data, outcome, Call
-----------------------------------------------------------------------------
(***************************************************************************)
(* A step of the store is one of the abstract store.                       *)
(***************************************************************************)
LEMMA Typed ==
  ASSUME FullInv
  PROVE  /\ channel \in Channel /\ Len(channel) \in Nat
         /\ \A k \in Key : db[k] \in Value \cup {Absent}
         /\ \A c \in Call : wanted[c] \in Key /\ Once(channel, Ask(c))
  BY DEF FullInv, Inv, TypeOK, Channel, Placed

LEMMA AtomicWrite ==
  ASSUME FullInv, NEW k \in Key, NEW v \in Value, write(k, v)
  PROVE  Atomic!Write(k, v)
  <1> DEFINE m == Write(k, v)
  <1>1. /\ m \in Command /\ channel' = Append(channel, m)
        /\ db' = db /\ status' = status /\ wanted' = wanted /\ reply' = reply
    BY DEF Write, Command, write, send
  <1>2. /\ m.val = v /\ \A j : Writing(m, j) <=> j = k
        /\ \A c \in Call : m # Ask(c)
    BY Asks DEF Write, Writing
  <1>3. Len(channel') + 1 = Len(channel) + 2
    BY <1>1, Typed DEF Channel
  <1> HIDE DEF m
  <1>4. \A j \in Key : data'[j] = IF j = k THEN v ELSE data[j]
    <2> SUFFICES ASSUME NEW j \in Key
                 PROVE  data'[j] = IF j = k THEN v ELSE data[j]
      OBVIOUS
    <2>1. data'[j] = Content(Append(channel, m), db[j], Len(channel) + 2, j)
      BY <1>1, <1>3, MappedNext
    <2>2. data[j] = Content(channel, db[j], Len(channel) + 1, j)
      BY Mapped
    <2>3. Content(Append(channel, m), db[j], Len(channel) + 2, j) =
            IF Writing(m, j) THEN m.val ELSE Content(channel, db[j], Len(channel) + 1, j)
      BY <1>1, Typed, AppendContentLast
    <2> QED
      BY <1>2, <2>1, <2>2, <2>3
  <1>5. \A c \in Call :
          outcome'[c] = IF status[c] = "pending" /\ outcome[c] = Undecided /\ wanted[c] = k
                        THEN v ELSE outcome[c]
    <2> SUFFICES ASSUME NEW c \in Call
                 PROVE  outcome'[c] =
                          IF status[c] = "pending" /\ outcome[c] = Undecided /\ wanted[c] = k
                          THEN v ELSE outcome[c]
      OBVIOUS
    <2> DEFINE before == Resolved(channel, db[wanted[c]], c, wanted[c], Ask(c))
               after  == Resolved(channel', db'[wanted[c]], c, wanted[c], Ask(c))
    <2>1. /\ outcome[c] = CASE status[c] = "answered" -> reply[c]
                            [] status[c] = "pending" -> before
                            [] OTHER -> Undecided
          /\ outcome'[c] = CASE status'[c] = "answered" -> reply'[c]
                             [] status'[c] = "pending" -> after
                             [] OTHER -> Undecided
      BY <1>1, Mapped, MappedNext
    <2>2. after = IF before = Undecided /\ Writing(m, wanted[c]) THEN m.val ELSE before
      <3>1. wanted[c] \in Key /\ db[wanted[c]] \in Value \cup {Absent}
        BY Typed
      <3>2. channel \in Channel /\ m # Ask(c) /\ Once(channel, Ask(c))
        BY <1>2, Typed
      <3>3. channel' = Append(channel, m) /\ db' = db
        BY <1>1
      <3> QED
        BY <1>1, <3>1, <3>2, <3>3, AppendResolved
    <2> HIDE DEF before, after
    <2> QED
      BY <1>1, <1>2, <2>1, <2>2
  <1>6. data' = [data EXCEPT ![k] = v]
    BY <1>4, MappingDomains
  <1>7. outcome' = [c \in Call |->
                      IF status[c] = "pending" /\ outcome[c] = Undecided /\ wanted[c] = k
                      THEN v ELSE outcome[c]]
    BY <1>5, MappingDomains
  <1> QED
    BY <1>1, <1>6, <1>7 DEF Atomic!Write, Atomic!Call, Call, data, outcome

LEMMA AtomicInvoke ==
  ASSUME FullInv, NEW c \in Call, ask(c)
  PROVE  Atomic!Invoke(c)
  <1> DEFINE m == Ask(c)
  <1>1. /\ m \in Command /\ channel' = Append(channel, m) /\ status[c] = "new"
        /\ db' = db /\ wanted' = wanted /\ reply' = reply
        /\ status' = [status EXCEPT ![c] = "pending"]
    BY AskCommand DEF ask, send, FullInv
  <1>2. /\ \A j : ~Writing(m, j)
        /\ \A o \in Call : m = Ask(o) => o = c
    BY Asks
  <1>3. Len(channel') + 1 = Len(channel) + 2
    BY <1>1, Typed DEF Channel
  <1>4. /\ status'[c] = "pending" /\ \A o \in Call : o # c => status'[o] = status[o]
        /\ ~Queued(channel, m)
    BY <1>1 DEF FullInv, Inv, TypeOK, Placed
  <1> HIDE DEF m
  <1>5. \A j \in Key : data'[j] = data[j]
    <2> SUFFICES ASSUME NEW j \in Key
                 PROVE  data'[j] = data[j]
      OBVIOUS
    <2>1. data'[j] = Content(Append(channel, m), db[j], Len(channel) + 2, j)
      BY <1>1, <1>3, MappedNext
    <2>2. data[j] = Content(channel, db[j], Len(channel) + 1, j)
      BY Mapped
    <2>3. Content(Append(channel, m), db[j], Len(channel) + 2, j) =
            IF Writing(m, j) THEN m.val ELSE Content(channel, db[j], Len(channel) + 1, j)
      BY <1>1, Typed, AppendContentLast
    <2> QED
      BY <1>2, <2>1, <2>2, <2>3
  <1>6. \A o \in Call : o # c => outcome'[o] = outcome[o]
    <2> SUFFICES ASSUME NEW o \in Call, o # c
                 PROVE  outcome'[o] = outcome[o]
      OBVIOUS
    <2>1. Resolved(channel', db'[wanted[o]], o, wanted[o], Ask(o)) =
            Resolved(channel, db[wanted[o]], o, wanted[o], Ask(o))
      <3>1. wanted[o] \in Key /\ db[wanted[o]] \in Value \cup {Absent}
        BY Typed
      <3>2. channel \in Channel /\ m # Ask(o) /\ Once(channel, Ask(o))
        BY <1>2, Typed
      <3>3. channel' = Append(channel, m) /\ db' = db /\ ~Writing(m, wanted[o])
        BY <1>1, <1>2
      <3> QED
        BY <1>1, <3>1, <3>2, <3>3, AppendResolved
    <2> QED
      BY <1>1, <1>4, <2>1, Mapped, MappedNext
  <1>7. outcome'[c] = IF c \in Waits /\ data[wanted[c]] = Absent
                      THEN Undecided ELSE data[wanted[c]]
    <2>1. outcome'[c] = Resolved(Append(channel, m), db[wanted[c]], c, wanted[c], m)
      <3>1. outcome'[c] = Resolved(channel', db'[wanted[c]], c, wanted[c], Ask(c))
        BY <1>1, <1>4, MappedNext
      <3> QED
        BY <1>1, <3>1 DEF m
    <2>2. wanted[c] \in Key /\ db[wanted[c]] \in Value \cup {Absent} /\ channel \in Channel
      BY Typed
    <2>3. outcome'[c] =
            IF c \in Reads \/ Content(channel, db[wanted[c]], Len(channel) + 1, wanted[c]) # Absent
            THEN Content(channel, db[wanted[c]], Len(channel) + 1, wanted[c]) ELSE Undecided
      <3>1. m \in Command /\ ~Queued(channel, m) /\ ~Writing(m, wanted[c])
        BY ONLY <1>1, <1>2, <1>4, Zenon
      <3>2. Resolved(Append(channel, m), db[wanted[c]], c, wanted[c], m) =
              IF c \in Reads
                 \/ Content(channel, db[wanted[c]], Len(channel) + 1, wanted[c]) # Absent
              THEN Content(channel, db[wanted[c]], Len(channel) + 1, wanted[c]) ELSE Undecided
        BY ONLY <2>2, <3>1, AppendResolvedNew
      <3> QED
        BY ONLY <2>1, <3>2, Zenon
    <2>4. data[wanted[c]] = Content(channel, db[wanted[c]], Len(channel) + 1, wanted[c])
      BY <2>2, Mapped
    <2>5. c \in Waits <=> c \notin Reads
      BY StoreAssumption DEF Call
    <2> QED
      BY <2>3, <2>4, <2>5
  <1>8. data' = data
    BY <1>5, MappingDomains
  <1>9. outcome' = [outcome EXCEPT ![c] = IF c \in Waits /\ data[wanted[c]] = Absent
                                          THEN Undecided ELSE data[wanted[c]]]
    BY <1>6, <1>7, MappingDomains
  <1> QED
    BY <1>1, <1>8, <1>9 DEF Atomic!Invoke, data, outcome

LEMMA AtomicDrop ==
  ASSUME FullInv, NEW c \in Waits, Drop(c)
  PROVE  Atomic!Drop(c)
  <1>1. /\ status[c] = "pending" /\ status' = [status EXCEPT ![c] = "dropped"]
        /\ db' = db /\ channel' = channel /\ wanted' = wanted /\ reply' = reply
    BY DEF Drop
  <1>2. /\ c \in Call /\ status'[c] = "dropped"
        /\ \A o \in Call : o # c => status'[o] = status[o]
    BY <1>1 DEF FullInv, Inv, TypeOK, Call
  <1>3. data' = data
    <2>1. \A k \in Key : data'[k] = data[k]
      BY <1>1, Mapped, MappedNext
    <2> QED
      BY <2>1, MappingDomains
  <1>4. outcome' = [outcome EXCEPT ![c] = Undecided]
    <2>1. \A o \in Call : o # c => outcome'[o] = outcome[o]
      BY <1>1, <1>2, Mapped, MappedNext
    <2>2. outcome'[c] = Undecided
      BY <1>1, <1>2, MappedNext
    <2> QED
      BY <1>2, <2>1, <2>2, MappingDomains
  <1> QED
    BY <1>1, <1>3, <1>4 DEF Atomic!Drop, data, outcome

\* Answers that come back are those that were settled.
LEMMA AtomicReturn ==
  ASSUME Inv, wanted' = wanted, NEW done \in SUBSET Call,
         \A c \in done : status[c] = "pending" /\ outcome[c] # Undecided,
         \A c \in Call : status'[c] = IF c \in done THEN "answered" ELSE status[c],
         Inv',
         \A k \in Key : data'[k] = data[k],
         \A c \in Call : outcome'[c] = outcome[c]
  PROVE  Atomic!Return(done)
  <1>1. status' = [c \in Call |-> IF c \in done THEN "answered" ELSE status[c]]
    BY DEF Inv, TypeOK
  <1>2. data' = data /\ outcome' = outcome
    BY MappingDomains
  <1>3. \A c \in done : Outcome(c) = outcome[c]
    BY DEF outcome
  <1> QED
    BY <1>1, <1>2, <1>3 DEF Atomic!Return, Atomic!Call, Call, data, outcome

\* Serving a command leaves what the channel as a whole makes of each key, and
\* the outcome of the pending calls whose command or obligation it is not.
LEMMA ServedOthers ==
  ASSUME FullInv, NEW op, Receive(op),
         \A k \in Key : db'[k] = IF Writing(Head(channel), k) THEN Head(channel).val ELSE db[k]
  PROVE  /\ \A k \in Key : data'[k] = data[k]
         /\ \A c \in Call :
              /\ Head(channel) # Ask(c)
              /\ Queued(channel, Ask(c)) \/ ~Writing(Head(channel), wanted[c])
              => Resolved(channel', db'[wanted[c]], c, wanted[c], Ask(c)) =
                   Resolved(channel, db[wanted[c]], c, wanted[c], Ask(c))
  <1>1. channel # <<>> /\ channel' = Tail(channel) /\ wanted' = wanted
    BY DEF Receive
  <1>2. channel \in Channel
    BY Typed
  <1>3. /\ Len(channel) + 1 \in 2 .. (Len(channel) + 1)
        /\ (Len(channel) + 1) - 1 = Len(channel') + 1
    BY <1>1, <1>2 DEF Channel
  <1>4. ASSUME NEW k \in Key
        PROVE  data'[k] = data[k]
    <2>1. Content(Tail(channel), IF Writing(Head(channel), k) THEN Head(channel).val ELSE db[k],
                  (Len(channel) + 1) - 1, k) = Content(channel, db[k], Len(channel) + 1, k)
      BY <1>1, <1>2, <1>3, TailContent
    <2>2. data'[k] = Content(channel', db'[k], Len(channel') + 1, k)
      BY <1>1, MappedNext
    <2>3. data[k] = Content(channel, db[k], Len(channel) + 1, k)
      BY Mapped
    <2> QED
      BY <1>1, <1>3, <2>1, <2>2, <2>3
  <1>5. ASSUME NEW c \in Call, Head(channel) # Ask(c),
               Queued(channel, Ask(c)) \/ ~Writing(Head(channel), wanted[c])
        PROVE  Resolved(channel', db'[wanted[c]], c, wanted[c], Ask(c)) =
                 Resolved(channel, db[wanted[c]], c, wanted[c], Ask(c))
    <2>1. wanted[c] \in Key /\ Once(channel, Ask(c))
      BY Typed
    <2>2. Resolved(Tail(channel),
                   IF Writing(Head(channel), wanted[c]) THEN Head(channel).val ELSE db[wanted[c]],
                   c, wanted[c], Ask(c)) =
            Resolved(channel, db[wanted[c]], c, wanted[c], Ask(c))
      BY <1>1, <1>2, <1>5, <2>1, TailResolved
    <2> QED
      BY <1>1, <2>1, <2>2
  <1> QED
    BY <1>4, <1>5

LEMMA AtomicServeWrite ==
  ASSUME FullInv, Inv', ServeWrite
  PROVE  \E done \in SUBSET Call : Atomic!Return(done)
  <1> DEFINE k == Head(channel).key
             v == Head(channel).val
             done == {c \in Call : c \in Range(obligations[k]) /\ status[c] = "pending"}
  <1>1. Receive("write") /\ k \in Key /\ v \in Value
    BY Received, Carried DEF ServeWrite, FullInv, Inv
  <1>2. /\ channel \in Channel /\ channel # <<>> /\ wanted' = wanted
        /\ \A j : Writing(Head(channel), j) <=> j = k
        /\ \A c \in Call : Head(channel) # Ask(c)
    BY <1>1, Typed, Asks DEF Receive, Writing
  <1>3. db' = [db EXCEPT ![k] = v] /\ Answer(Range(obligations[k]), v)
    BY DEF ServeWrite
  <1>4. \A c \in Call :
          /\ c \in done => status'[c] = "answered" /\ reply'[c] = v
          /\ c \notin done => status'[c] = status[c] /\ reply'[c] = reply[c]
    BY <1>3, Answering
  <1>5. \A j \in Key :
          db'[j] = IF Writing(Head(channel), j) THEN Head(channel).val ELSE db[j]
    BY <1>2, <1>3 DEF FullInv, Inv, TypeOK
  <1>6. \A c \in done : outcome[c] = v
    <2> SUFFICES ASSUME NEW c \in done
                 PROVE  outcome[c] = v
      OBVIOUS
    <2>1. c \in Call /\ status[c] = "pending" /\ wanted[c] = k /\ ~Queued(channel, Ask(c))
      BY <1>1 DEF FullInv, Placed, Waiting
    <2>2. Resolved(channel, db[k], c, k, Ask(c)) = v
      BY <1>1, <1>2, <2>1, WaitResolved
    <2> QED
      BY <2>1, <2>2, Mapped
  <1>7. \A c \in Call : c \notin done => outcome'[c] = outcome[c]
    <2> SUFFICES ASSUME NEW c \in Call, c \notin done
                 PROVE  outcome'[c] = outcome[c]
      OBVIOUS
    <2>1. CASE status[c] = "pending"
      <3>1. Queued(channel, Ask(c)) \/ wanted[c] # k
        BY <1>1, <2>1 DEF FullInv, Placed, Waiting
      <3>2. Resolved(channel', db'[wanted[c]], c, wanted[c], Ask(c)) =
              Resolved(channel, db[wanted[c]], c, wanted[c], Ask(c))
        BY <1>1, <1>2, <1>5, <3>1, ServedOthers
      <3>3. status'[c] = "pending"
        BY <1>4, <2>1
      <3> HIDE DEF k, done
      <3> QED
        BY <1>2, <2>1, <3>2, <3>3, Mapped, MappedNext
    <2>2. CASE status[c] # "pending"
      <3>1. status'[c] = status[c] /\ reply'[c] = reply[c]
        BY <1>4
      <3> HIDE DEF k, done
      <3> QED
        BY <1>2, <2>2, <3>1, Mapped, MappedNext
    <2> QED
      BY <2>1, <2>2
  <1>8. \A c \in done : outcome'[c] = v
    <2>1. \A c \in done : c \in Call /\ status'[c] = "answered" /\ reply'[c] = v
      BY <1>4
    <2> HIDE DEF done, v
    <2> QED
      BY <1>2, <2>1, MappedNext
  <1>9. \A j \in Key : data'[j] = data[j]
    BY <1>1, <1>5, ServedOthers
  <1>10. \A c \in done : status[c] = "pending" /\ outcome[c] # Undecided
    BY <1>1, <1>6, StoreAssumption
  <1>11. done \in SUBSET Call
    OBVIOUS
  <1> HIDE DEF k, v, done
  <1>12. Atomic!Return(done)
    BY <1>2, <1>4, <1>6, <1>7, <1>8, <1>9, <1>10, <1>11, AtomicReturn DEF FullInv
  <1> QED
    BY <1>11, <1>12

\* A read, or a notify_read, is answered what the database has; a notify_read
\* that finds nothing moves to the obligations, which is a stuttering step.
LEMMA AtomicAnswer ==
  ASSUME FullInv, Inv', NEW op \in {"read", "notify_read"}, Receive(op),
         NEW r \in Call, Head(channel) = Ask(r), db' = db,
         \/ (r \in Reads \/ db[wanted[r]] # Absent) /\ Answer({r}, db[wanted[r]])
         \/ r \notin Reads /\ db[wanted[r]] = Absent /\ status' = status /\ reply' = reply
  PROVE  \E done \in SUBSET Call : Atomic!Return(done)
  <1> DEFINE d == db[wanted[r]]
             done == IF (r \in Reads \/ d # Absent) /\ status[r] = "pending" THEN {r} ELSE {}
  <1>1. /\ channel \in Channel /\ channel # <<>> /\ wanted' = wanted
        /\ channel' = Tail(channel) /\ Once(channel, Ask(r))
        /\ wanted[r] \in Key /\ d \in Value \cup {Absent}
    BY Typed DEF Receive
  <1>2. \A j : ~Writing(Head(channel), j)
    BY Asks
  <1>3. \A c \in Call : c # r => Head(channel) # Ask(c)
    BY Asks
  <1>4. \A c \in Call :
          /\ c \in done => status'[c] = "answered" /\ reply'[c] = d
          /\ c \notin done => status'[c] = status[c] /\ reply'[c] = reply[c]
    <2>1. CASE (r \in Reads \/ d # Absent) /\ Answer({r}, d)
      BY <2>1, Answering
    <2>2. CASE r \notin Reads /\ d = Absent /\ status' = status /\ reply' = reply
      BY <2>2
    <2> QED
      BY <2>1, <2>2
  <1>5. /\ \A k \in Key : data'[k] = data[k]
        /\ \A c \in Call : c # r =>
             Resolved(channel', db'[wanted[c]], c, wanted[c], Ask(c)) =
               Resolved(channel, db[wanted[c]], c, wanted[c], Ask(c))
    BY <1>2, <1>3, ServedOthers
  <1>6. /\ r \in Reads \/ d # Absent => Resolved(channel, d, r, wanted[r], Ask(r)) = d
        /\ r \notin Reads /\ d = Absent =>
             Resolved(channel', d, r, wanted[r], Ask(r)) =
               Resolved(channel, d, r, wanted[r], Ask(r))
    <2>1. Once(channel, Head(channel))
      BY <1>1
    <2> HIDE DEF d
    <2>2. /\ r \in Reads \/ d # Absent =>
               Resolved(channel, d, r, wanted[r], Head(channel)) = d
          /\ r \notin Reads /\ d = Absent =>
               Resolved(Tail(channel), d, r, wanted[r], Head(channel)) =
                 Resolved(channel, d, r, wanted[r], Head(channel))
      <3>1. channel \in Channel /\ channel # <<>> /\ wanted[r] \in Key /\ d \in Value \cup {Absent}
        BY <1>1
      <3> QED
        BY <2>1, <3>1, HeadResolved
    <2> QED
      BY <1>1, <2>2
  <1>7. \A c \in Call : c # r => outcome'[c] = outcome[c]
    <2> SUFFICES ASSUME NEW c \in Call, c # r
                 PROVE  outcome'[c] = outcome[c]
      OBVIOUS
    <2>1. status'[c] = status[c] /\ reply'[c] = reply[c]
      BY <1>4
    <2> HIDE DEF d, done
    <2> QED
      BY <1>1, <1>5, <2>1, Mapped, MappedNext
  <1>8. outcome'[r] = outcome[r] /\ (r \in done => outcome[r] # Undecided)
    <2>1. CASE r \in done
      <3>1. /\ status[r] = "pending" /\ status'[r] = "answered" /\ reply'[r] = d
            /\ r \in Reads \/ d # Absent
        BY <1>4, <2>1
      <3>2. outcome[r] = d
        BY <1>6, <3>1, Mapped
      <3>3. outcome'[r] = d
        BY <1>1, <3>1, MappedNext
      <3> QED
        BY <1>1, <3>2, <3>3, StoreAssumption
    <2>2. CASE status[r] = "pending" /\ r \notin done
      <3>1. status'[r] = "pending" /\ r \notin Reads /\ d = Absent
        BY <1>4, <2>2
      <3>2. outcome[r] = Resolved(channel, d, r, wanted[r], Ask(r))
        BY <2>2, Mapped
      <3>3. outcome'[r] = Resolved(channel', d, r, wanted[r], Ask(r))
        BY <1>1, <3>1, MappedNext
      <3> QED
        BY <1>6, <2>2, <3>1, <3>2, <3>3
    <2>3. CASE status[r] # "pending"
      <3>1. r \notin done /\ status'[r] = status[r] /\ reply'[r] = reply[r]
        BY <1>4, <2>3
      <3> HIDE DEF d, done
      <3> QED
        BY <1>1, <2>3, <3>1, Mapped, MappedNext
    <2> QED
      BY <2>1, <2>2, <2>3
  <1>9. done \in SUBSET Call /\ \A c \in done : c = r /\ status[c] = "pending"
    OBVIOUS
  <1> HIDE DEF d, done
  <1>10. Atomic!Return(done)
    BY <1>1, <1>4, <1>5, <1>7, <1>8, <1>9, AtomicReturn DEF FullInv
  <1> QED
    BY <1>9, <1>10

LEMMA AtomicServeRead ==
  ASSUME FullInv, Inv', ServeRead
  PROVE  \E done \in SUBSET Call : Atomic!Return(done)
  <1> DEFINE r == Head(channel).call
  <1>1. Receive("read") /\ db' = db /\ Answer({r}, db[Head(channel).key])
    BY DEF ServeRead
  <1>2. r \in Call /\ Head(channel) = Ask(r)
    BY <1>1, HeadCommand DEF FullInv, Receive
  <1>3. Head(channel).key = wanted[r] /\ r \in Reads
    BY <1>1, <1>2, Asks DEF Receive
  <1> QED
    BY <1>1, <1>2, <1>3, AtomicAnswer

LEMMA AtomicServeNotifyRead ==
  ASSUME FullInv, Inv', ServeNotifyRead
  PROVE  \E done \in SUBSET Call : Atomic!Return(done)
  <1> DEFINE k == Head(channel).key
             r == Head(channel).call
  <1>1. /\ Receive("notify_read") /\ db' = db
        /\ \/ db[k] = Absent /\ status' = status /\ reply' = reply
           \/ db[k] # Absent /\ Answer({r}, db[k])
    BY DEF ServeNotifyRead
  <1>2. r \in Call /\ Head(channel) = Ask(r)
    BY <1>1, HeadCommand DEF FullInv, Receive
  <1>3. k = wanted[r] /\ r \notin Reads
    BY <1>1, <1>2, Asks DEF Receive
  <1> QED
    BY <1>1, <1>2, <1>3, AtomicAnswer

LEMMA AtomicNext ==
  ASSUME FullInv, [Next]_vars
  PROVE  [Atomic!Next]_(Atomic!vars)
  <1>1. Inv'
    BY NextInv DEF FullInv
  <1>2. CASE UNCHANGED vars
    BY <1>2 DEF vars, Atomic!vars, Outcome, Position, ContentBefore, NextWrite, WritesTo, Ask
  <1>3. ASSUME NEW k \in Key, NEW v \in Value, write(k, v)
        PROVE  Atomic!Next
    BY <1>3, AtomicWrite DEF Atomic!Next
  <1>4. ASSUME NEW c \in Call, ask(c)
        PROVE  Atomic!Next
    BY <1>4, AtomicInvoke DEF Atomic!Next, Atomic!Call, Call
  <1>5. ASSUME NEW c \in Waits, Drop(c)
        PROVE  Atomic!Next
    BY <1>5, AtomicDrop DEF Atomic!Next
  <1>6. CASE Serve
    BY <1>1, <1>6, AtomicServeWrite, AtomicServeRead, AtomicServeNotifyRead
       DEF Serve, Atomic!Next, Atomic!Call, Call
  <1> QED
    BY <1>2, <1>3, <1>4, <1>5, <1>6 DEF Next

\* Every call acts at once, where it is put in the channel: a read returns
\* what was written last, by whichever task, a notify_read that or the first
\* value written after it, although the task of the store gets to them later.
THEOREM StoreImplementsAtomic == Spec => Implements
  <1>1. FullInv /\ [Next]_vars => [Atomic!Next]_(Atomic!vars)
    BY AtomicNext
  <1> QED
    BY <1>1, AtomicInit, FullInvariant, PTL DEF Spec, Implements, Atomic!Spec
=============================================================================
