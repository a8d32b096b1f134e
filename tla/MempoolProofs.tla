---------------------------- MODULE MempoolProofs ----------------------------
(***************************************************************************)
(* Proofs about module Mempool, for any blocks, payloads and bounds.  The  *)
(* inductive invariant has four parts beside the types.  An own payload is *)
(* in the store only once it is made, so it is queued or handed out for    *)
(* the first time then.  What is missing of a block is known from the      *)
(* moment Verify tells the synchronizer: the rest is in the store, which   *)
(* no one empties.  A block is pending just when it has a waiter with a    *)
(* handler, and it never has two.                                          *)
(***************************************************************************)
EXTENDS Mempool, FiniteSetTheorems, TLAPS

Waiter == [block : Block, missing : SUBSET Payload, live : BOOLEAN]

SyncMessage == [type : {"sync"}, block : Block, missing : SUBSET Payload]

CleanMessage == [type : {"clean"}, round : Nat]

Types == TypeOK /\ inner \in Seq(SyncMessage \cup CleanMessage)

\* The payloads of the block that are not in `missing' are in the store.
Covers(b, missing) == PayloadOf[b] \subseteq missing \cup stored

Covered ==
  /\ \A i \in 1 .. Len(inner) :
       inner[i].type = "sync" => Covers(inner[i].block, inner[i].missing)
  /\ \A w \in waiting : Covers(w.block, w.missing)

\* The live waiters are those of the pending blocks, one for each.
Handlers ==
  /\ \A w \in waiting : w.live => w.block \in pending
  /\ \A b \in pending : \E w \in waiting : w.block = b /\ w.live
  /\ \A v, w \in waiting : v.live /\ w.live /\ v.block = w.block => v = w

\* What the node proposes, and that an own payload is made before it is stored.
Proposed == ProposedOnce /\ Own \cap stored \subseteq made

Inv == Types /\ Proposed /\ LoopBackComplete /\ Covered /\ Handlers
-----------------------------------------------------------------------------
\* Handlers is OneLiveWaiter without the cardinality.
LEMMA HandlersCount == Handlers => OneLiveWaiter
  <1> SUFFICES ASSUME Handlers, NEW b \in pending
               PROVE  Cardinality({w \in waiting : w.block = b /\ w.live}) = 1
    BY DEF Handlers, OneLiveWaiter
  <1>1. PICK v \in waiting : v.block = b /\ v.live
    BY DEF Handlers
  <1>2. {w \in waiting : w.block = b /\ w.live} = {v}
    BY <1>1 DEF Handlers
  <1> QED
    BY <1>2, FS_Singleton

\* The first message and the rest of the channel, and the channel with one
\* message more.
LEMMA Channel ==
  ASSUME NEW M, NEW s \in Seq(M)
  PROVE  /\ s # <<>> => /\ Head(s) \in M /\ 1 \in 1 .. Len(s) /\ Head(s) = s[1]
                        /\ Tail(s) \in Seq(M)
                        /\ \A i \in 1 .. Len(Tail(s)) :
                             i + 1 \in 1 .. Len(s) /\ Tail(s)[i] = s[i + 1]
         /\ \A m \in M : /\ Append(s, m) \in Seq(M)
                         /\ \A i \in 1 .. Len(Append(s, m)) :
                              \/ i \in 1 .. Len(s) /\ Append(s, m)[i] = s[i]
                              \/ Append(s, m)[i] = m
  OBVIOUS

\* Dropping the handlers of the blocks bs changes no other waiter.
LEMMA DroppedWaiters ==
  ASSUME waiting \subseteq Waiter, NEW bs
  PROVE  /\ Dropped(bs) \subseteq Waiter
         /\ \A u \in waiting : u.live /\ u.block \notin bs => u \in Dropped(bs)
         /\ \A x \in Dropped(bs) :
              \E u \in waiting : /\ x.block = u.block /\ x.missing = u.missing
                                 /\ x.live => x = u /\ u.live /\ u.block \notin bs
  <1> DEFINE drop(u) == [u EXCEPT !.live = u.live /\ u.block \notin bs]
  <1>1. Dropped(bs) = {drop(u) : u \in waiting}
    BY DEF Dropped
  <1>2. ASSUME NEW u \in waiting
        PROVE  /\ drop(u) \in Waiter /\ drop(u).block = u.block /\ drop(u).missing = u.missing
               /\ u.live /\ u.block \notin bs => drop(u) = u
               /\ drop(u).live => u.live /\ u.block \notin bs
    <2>1. u \in Waiter
      OBVIOUS
    <2>2. drop(u) = [block |-> u.block, missing |-> u.missing,
                     live |-> u.live /\ u.block \notin bs]
      BY <2>1 DEF Waiter
    <2>3. u = [block |-> u.block, missing |-> u.missing, live |-> u.live]
      BY <2>1 DEF Waiter
    <2>4. (u.live /\ u.block \notin bs) \in BOOLEAN
      BY Zenon
    <2>5. u.live \in BOOLEAN
      BY <2>1 DEF Waiter
    <2>6. u.live /\ u.block \notin bs => (u.live /\ u.block \notin bs) = u.live
      BY <2>5, Zenon
    <2> DEFINE l == u.live /\ u.block \notin bs
    <2>7. drop(u).live => l
      BY <2>2
    <2>8. drop(u) \in Waiter
      BY <2>1, <2>2, <2>4 DEF Waiter
    <2> QED
      BY <2>2, <2>3, <2>6, <2>7, <2>8
  <1> HIDE DEF drop
  <1> QED
    BY <1>1, <1>2
-----------------------------------------------------------------------------
(***************************************************************************)
(* One lemma per action.                                                   *)
(***************************************************************************)
\* The actions of the core and of the network that leave the synchronizer
\* alone, and only add to the store.
LEMMA QuietInv ==
  ASSUME Inv, Types', Proposed', stored \subseteq stored',
         UNCHANGED <<inner, task>>, loopBacks' \subseteq loopBacks
  PROVE  Inv'
  <1>1. LoopBackComplete'
    BY DEF Inv, LoopBackComplete
  <1>2. Covered'
    BY DEF Inv, Covered, Covers, task
  <1>3. Handlers'
    BY DEF Inv, Handlers, task
  <1> QED
    BY <1>1, <1>2, <1>3 DEF Inv

LEMMA OwnPayloadInv ==
  ASSUME Inv, NEW p \in Own, OwnPayload(p)
  PROVE  Inv'
  <1>1. Types'
    BY DEF OwnPayload, Inv, Types, TypeOK, Payload, task
  <1>2. Proposed' /\ stored \subseteq stored'
    BY DEF OwnPayload, Inv, Proposed, ProposedOnce
  <1> QED
    BY <1>1, <1>2, QuietInv DEF OwnPayload

LEMMA GetMadeInv ==
  ASSUME Inv, NEW p \in Own, GetMade(p)
  PROVE  Inv'
  <1>1. Types'
    BY DEF GetMade, Inv, Types, TypeOK, Payload, task
  <1>2. Proposed' /\ stored \subseteq stored'
    BY DEF GetMade, Inv, Proposed, ProposedOnce
  <1> QED
    BY <1>1, <1>2, QuietInv DEF GetMade

\* A payload of another node is stored before it is queued.
LEMMA OthersPayloadInv ==
  ASSUME Inv, NEW p \in Others, handle_others_payload(p), asked' \subseteq asked
  PROVE  Inv'
  <1>1. Types'
    BY DEF handle_others_payload, Inv, Types, TypeOK, Payload, task
  <1>2. Proposed' /\ stored \subseteq stored'
    BY MempoolAssumption DEF handle_others_payload, Inv, Proposed, ProposedOnce
  <1> QED
    BY <1>1, <1>2, QuietInv DEF handle_others_payload

LEMMA GetQueuedInv ==
  ASSUME Inv, NEW opt \in SUBSET optQueue, NEW pes \in SUBSET pesQueue, GetQueued(opt, pes)
  PROVE  Inv'
  <1>1. Types'
    BY DEF GetQueued, Inv, Types, TypeOK, Payload, task
  <1>2. Proposed' /\ stored \subseteq stored'
    <2>1. /\ optQueue' = optQueue \ opt /\ pesQueue' = pesQueue \ pes
          /\ handed' = handed \cup opt \cup pes
          /\ UNCHANGED <<stored, made, committed>>
      BY DEF GetQueued
    <2>2. opt \subseteq optQueue /\ pes \subseteq pesQueue /\ pesQueue \cap Own = {}
      BY MempoolAssumption DEF Inv, Types, TypeOK
    <2>3. Proposed
      BY DEF Inv
    <2> QED
      BY ONLY <2>1, <2>2, <2>3 DEF Proposed, ProposedOnce
  <1> QED
    BY <1>1, <1>2, QuietInv DEF GetQueued

LEMMA LoopBackInv ==
  ASSUME Inv, NEW b \in Block, LoopBack(b)
  PROVE  Inv'
  <1>1. Types' /\ Proposed'
    BY DEF LoopBack, Inv, Types, TypeOK, Proposed, ProposedOnce, Payload, task, queues
  <1> QED
    BY <1>1, QuietInv DEF LoopBack

LEMMA RetryInv ==
  ASSUME Inv, NEW p \in Others, Retry(p) \/ Lose(p)
  PROVE  Inv'
  <1>1. Types' /\ Proposed'
    BY DEF Retry, Lose, Inv, Types, TypeOK, Proposed, ProposedOnce, Payload, task, queues
  <1> QED
    BY <1>1, QuietInv DEF Retry, Lose

\* Verify and Cleanup send the synchronizer a message, which names all that is
\* missing of its block.
LEMMA SendInv ==
  ASSUME Inv, NEW m \in SyncMessage \cup CleanMessage, inner' = Append(inner, m),
         m.type = "sync" => Covers(m.block, m.missing),
         optQueue' \subseteq optQueue, pesQueue' \subseteq pesQueue, suspended' \subseteq Block,
         handed' \subseteq Payload, committed' \subseteq Payload, Proposed',
         UNCHANGED <<stored, made, task, asked, loopBacks>>
  PROVE  Inv'
  <1>1. inner \in Seq(SyncMessage \cup CleanMessage)
    BY DEF Inv, Types
  <1>2. /\ inner' \in Seq(SyncMessage \cup CleanMessage)
        /\ \A i \in 1 .. Len(inner') :
             (i \in 1 .. Len(inner) /\ inner'[i] = inner[i]) \/ inner'[i] = m
    BY <1>1
  <1>3. \A i \in DOMAIN inner' : inner'[i] \in SyncMessage \cup CleanMessage
    BY <1>2
  <1>4. Types'
    BY <1>2, <1>3 DEF Inv, Types, TypeOK, task, SyncMessage, CleanMessage
  <1>5. Covered'
    BY <1>2 DEF Inv, Covered, Covers, task
  <1>6. LoopBackComplete'
    BY DEF Inv, LoopBackComplete
  <1>7. Handlers'
    BY DEF Inv, Handlers, task
  <1> QED
    BY <1>4, <1>5, <1>6, <1>7 DEF Inv

LEMMA VerifyInv ==
  ASSUME Inv, NEW b \in Block, Verify(b)
  PROVE  Inv'
  <1> DEFINE missing == PayloadOf[b] \ stored
             m == [type |-> "sync", block |-> b, missing |-> missing]
  <1>1. CASE missing = {}
    <2>1. UNCHANGED <<stored, queues, inner, task, asked, loopBacks>> /\ suspended' = suspended \ {b}
      BY <1>1 DEF Verify
    <2>2. Types' /\ Proposed'
      BY <2>1 DEF Inv, Types, TypeOK, Proposed, ProposedOnce, task, queues
    <2> QED
      BY <2>1, <2>2, QuietInv
  <1>2. CASE missing # {}
    <2>1. /\ UNCHANGED <<stored, queues, task, asked, loopBacks>>
          /\ suspended' = suspended \cup {b} /\ inner' = Append(inner, m)
      BY <1>2 DEF Verify
    <2>2. PayloadOf[b] \in SUBSET Payload
      BY MempoolAssumption DEF Payload
    <2>3. m \in SyncMessage
      BY <2>2 DEF SyncMessage
    <2>4. Covers(m.block, m.missing)
      BY DEF Covers
    <2>5. /\ suspended' \subseteq Block /\ handed' \subseteq Payload /\ committed' \subseteq Payload
          /\ optQueue' = optQueue /\ pesQueue' = pesQueue /\ made' = made
      BY <2>1 DEF Inv, Types, TypeOK, queues
    <2>6. Proposed'
      BY <2>1 DEF Inv, Proposed, ProposedOnce, queues
    <2> QED
      BY <2>1, <2>3, <2>4, <2>5, <2>6, SendInv
  <1> QED
    BY <1>1, <1>2

LEMMA CleanupInv ==
  ASSUME Inv, NEW b \in Committing, Cleanup(b)
  PROVE  Inv'
  <1> DEFINE m == [type |-> "clean", round |-> HeightOf[b]]
  <1>1. b \in Block /\ HeightOf[b] \in Nat
    BY MempoolAssumption
  <1>2. m \in CleanMessage /\ m.type # "sync"
    BY <1>1 DEF CleanMessage
  <1>3. /\ UNCHANGED <<stored, made, suspended, task, asked, loopBacks>>
        /\ inner' = Append(inner, m)
        /\ optQueue' \subseteq optQueue /\ pesQueue' \subseteq pesQueue
    BY DEF Cleanup
  <1>4. suspended' \subseteq Block /\ handed' \subseteq Payload /\ committed' \subseteq Payload
    BY <1>1, MempoolAssumption DEF Cleanup, Inv, Types, TypeOK, Payload
  <1>5. Proposed'
    BY DEF Cleanup, Inv, Proposed, ProposedOnce
  <1> QED
    BY <1>2, <1>3, <1>4, <1>5, SendInv

\* The waiters that are left when the handlers of the blocks bs are dropped,
\* whether or not one of them ends.
LEMMA DropInv ==
  ASSUME Inv, NEW bs, inner' = Tail(inner) \/ inner' = inner, inner # <<>> \/ inner' = inner,
         waiting' \subseteq Dropped(bs),
         \A w \in Dropped(bs) : w.live => w \in waiting',
         pending' = pending \ bs,
         requests' \in [Payload -> Nat \cup {None}],
         loopBacks' \subseteq Block, LoopBackComplete',
         UNCHANGED <<stored, queues, suspended, asked>>
  PROVE  Inv'
  <1>1. /\ waiting \subseteq Waiter /\ inner \in Seq(SyncMessage \cup CleanMessage)
        /\ pending \subseteq Block
    BY DEF Inv, Types, TypeOK, Waiter
  <1>2. /\ waiting' \subseteq Waiter
        /\ \A u \in waiting : u.live /\ u.block \notin bs => u \in waiting'
        /\ \A x \in waiting' :
             \E u \in waiting : /\ x.block = u.block /\ x.missing = u.missing
                                /\ x.live => x = u /\ u.live /\ u.block \notin bs
    <2>1. /\ Dropped(bs) \subseteq Waiter
          /\ \A u \in waiting : u.live /\ u.block \notin bs => u \in Dropped(bs)
          /\ \A x \in Dropped(bs) :
               \E u \in waiting : /\ x.block = u.block /\ x.missing = u.missing
                                  /\ x.live => x = u /\ u.live /\ u.block \notin bs
      BY <1>1, DroppedWaiters
    <2> QED
      BY <2>1
  <1>3. /\ inner' \in Seq(SyncMessage \cup CleanMessage)
        /\ \A i \in 1 .. Len(inner') : \E j \in 1 .. Len(inner) : inner'[i] = inner[j]
    <2>1. CASE inner' = inner
      BY <1>1, <2>1
    <2>2. CASE inner' = Tail(inner) /\ inner # <<>>
      <3>1. /\ Tail(inner) \in Seq(SyncMessage \cup CleanMessage)
            /\ \A i \in 1 .. Len(Tail(inner)) :
                 i + 1 \in 1 .. Len(inner) /\ Tail(inner)[i] = inner[i + 1]
        BY <1>1, <2>2, Channel
      <3> QED
        BY <2>2, <3>1
    <2> QED
      BY <2>1, <2>2
  <1>4. Types'
    <2>1. \A i \in DOMAIN inner' : inner'[i] \in SyncMessage \cup CleanMessage
      BY <1>3
    <2>2. pending' \subseteq Block
      BY <1>1
    <2> QED
      BY <1>2, <1>3, <2>1, <2>2 DEF Inv, Types, TypeOK, Waiter, SyncMessage, CleanMessage, queues
  <1>5. Covered'
    <2>1. \A x \in waiting' : Covers(x.block, x.missing)'
      <3>1. ASSUME NEW x \in waiting' PROVE PayloadOf[x.block] \subseteq x.missing \cup stored
        <4>1. PICK u \in waiting : x.block = u.block /\ x.missing = u.missing
          BY <1>2
        <4> QED
          BY <4>1 DEF Inv, Covered, Covers
      <3> QED
        BY <3>1 DEF Covers
    <2>2. \A i \in 1 .. Len(inner') : inner'[i].type = "sync" =>
             PayloadOf[inner'[i].block] \subseteq inner'[i].missing \cup stored'
      <3> SUFFICES ASSUME NEW i \in 1 .. Len(inner'), inner'[i].type = "sync"
                   PROVE  PayloadOf[inner'[i].block] \subseteq inner'[i].missing \cup stored'
        OBVIOUS
      <3>1. PICK j \in 1 .. Len(inner) : inner'[i] = inner[j]
        BY <1>3
      <3>2. PayloadOf[inner[j].block] \subseteq inner[j].missing \cup stored
        BY <3>1 DEF Inv, Covered, Covers
      <3> QED
        BY <3>1, <3>2
    <2> QED
      BY <2>1, <2>2 DEF Covered, Covers
  <1>6. Handlers'
    <2>1. ASSUME NEW x \in waiting', x.live
          PROVE  x \in waiting /\ x.live /\ x.block \in pending'
      BY <1>2, <2>1 DEF Inv, Handlers
    <2>2. ASSUME NEW b \in pending' PROVE \E w \in waiting' : w.block = b /\ w.live
      <3>1. PICK w \in waiting : w.block = b /\ w.live
        BY DEF Inv, Handlers
      <3> QED
        BY <1>2, <3>1
    <2>3. ASSUME NEW v \in waiting', NEW w \in waiting', v.live, w.live, v.block = w.block
          PROVE  v = w
      BY <2>1, <2>3 DEF Inv, Handlers
    <2> QED
      BY <2>1, <2>2, <2>3 DEF Handlers
  <1>7. Proposed'
    BY DEF Inv, Proposed, ProposedOnce, queues
  <1> QED
    BY <1>4, <1>5, <1>6, <1>7 DEF Inv

LEMMA RecvCleanInv ==
  ASSUME Inv, RecvClean
  PROVE  Inv'
  <1> DEFINE m   == Head(inner)
             old == {b \in pending : HeightOf[b] <= m.round}
  <1>1. /\ inner # <<>> /\ inner' = Tail(inner)
        /\ waiting' = Dropped(old) /\ pending' = pending \ old
        /\ requests' = [p \in DOMAIN requests |->
                          IF requests[p] <= m.round THEN None ELSE requests[p]]
        /\ UNCHANGED <<stored, queues, suspended, asked, loopBacks>>
    BY DEF RecvClean
  <1>2. requests' \in [Payload -> Nat \cup {None}]
    BY <1>1 DEF Inv, Types, TypeOK
  <1>3. loopBacks' \subseteq Block /\ LoopBackComplete'
    BY <1>1 DEF Inv, Types, TypeOK, LoopBackComplete
  <1> HIDE DEF old
  <1> QED
    BY <1>1, <1>2, <1>3, DropInv

\* A waiter ends, with a handler or without: its block has its payloads.
LEMMA WaiterDoneInv ==
  ASSUME Inv, NEW w \in waiting, WaiterDone(w)
  PROVE  Inv'
  <1> DEFINE bs == {w.block}
             dead == [w EXCEPT !.live = FALSE]
  <1>1. /\ w.missing \subseteq stored
        /\ waiting' = {x \in Dropped(bs) : x # dead}
        /\ pending' = pending \ bs
        /\ requests' = [p \in DOMAIN requests |->
                          IF p \in PayloadOf[w.block] THEN None ELSE requests[p]]
        /\ loopBacks' = loopBacks \cup {w.block}
        /\ UNCHANGED <<stored, queues, suspended, inner, asked>>
    BY DEF WaiterDone
  <1>2. requests' \in [Payload -> Nat \cup {None}]
    BY <1>1 DEF Inv, Types, TypeOK
  <1>3. w \in Waiter
    BY DEF Inv, Types, TypeOK, Waiter
  <1>4. loopBacks' \subseteq Block
    BY <1>1, <1>3 DEF Inv, Types, TypeOK, Waiter
  <1>5. LoopBackComplete'
    <2>1. PayloadOf[w.block] \subseteq stored
      BY <1>1 DEF Inv, Covered, Covers
    <2> QED
      BY <1>1, <2>1 DEF Inv, LoopBackComplete
  <1>6. ~dead.live
    BY <1>3 DEF Waiter
  <1>7. waiting' \subseteq Dropped(bs) /\ \A x \in Dropped(bs) : x.live => x \in waiting'
    <2> HIDE DEF dead, bs
    <2> QED
      BY <1>1, <1>6
  <1> HIDE DEF bs
  <1> QED
    BY <1>1, <1>2, <1>4, <1>5, <1>7, DropInv

LEMMA WaiterCancelledInv ==
  ASSUME Inv, NEW w \in waiting, WaiterCancelled(w)
  PROVE  Inv'
  <1>1. /\ ~w.live /\ waiting' = waiting \ {w}
        /\ UNCHANGED <<stored, queues, suspended, inner, pending, requests, asked, loopBacks>>
    BY DEF WaiterCancelled
  <1>2. Types' /\ Proposed' /\ LoopBackComplete'
    BY <1>1 DEF Inv, Types, TypeOK, Proposed, ProposedOnce, LoopBackComplete, queues
  <1>3. Covered'
    BY <1>1 DEF Inv, Covered, Covers
  <1>4. Handlers'
    BY <1>1 DEF Inv, Handlers
  <1> QED
    BY <1>2, <1>3, <1>4 DEF Inv

\* A waiter starts, unless its block is pending and has one.
LEMMA RecvSyncInv ==
  ASSUME Inv, RecvSync
  PROVE  Inv'
  <1> DEFINE m == Head(inner)
             w == [block |-> m.block, missing |-> m.missing, live |-> TRUE]
  <1>1. /\ inner # <<>> /\ m.type = "sync" /\ inner' = Tail(inner)
        /\ UNCHANGED <<stored, queues, suspended, loopBacks>>
    BY DEF RecvSync
  <1>2. inner \in Seq(SyncMessage \cup CleanMessage) /\ waiting \subseteq Waiter
    BY DEF Inv, Types, TypeOK, Waiter
  <1>3. /\ m \in SyncMessage /\ Covers(m.block, m.missing)
        /\ Tail(inner) \in Seq(SyncMessage \cup CleanMessage)
        /\ \A i \in 1 .. Len(Tail(inner)) :
             i + 1 \in 1 .. Len(inner) /\ Tail(inner)[i] = inner[i + 1]
    <2>1. /\ m \in SyncMessage \cup CleanMessage /\ 1 \in 1 .. Len(inner) /\ m = inner[1]
          /\ Tail(inner) \in Seq(SyncMessage \cup CleanMessage)
          /\ \A i \in 1 .. Len(Tail(inner)) :
               i + 1 \in 1 .. Len(inner) /\ Tail(inner)[i] = inner[i + 1]
      BY <1>1, <1>2, Channel
    <2>2. m \notin CleanMessage
      BY <1>1 DEF CleanMessage
    <2>3. Covers(m.block, m.missing)
      BY <1>1, <2>1 DEF Inv, Covered
    <2> QED
      BY <2>1, <2>2, <2>3
  <1>4. /\ inner' \in Seq(SyncMessage \cup CleanMessage)
        /\ \A i \in DOMAIN inner' : inner'[i] \in SyncMessage \cup CleanMessage
        /\ \A i \in 1 .. Len(inner') :
             inner'[i].type = "sync" => Covers(inner'[i].block, inner'[i].missing)
    BY <1>1, <1>3 DEF Inv, Covered
  <1>5. w \in Waiter /\ m.block \in Block /\ m.missing \subseteq Payload
    BY <1>3 DEF SyncMessage, Waiter
  <1>6. CASE m.block \in pending
    <2>1. UNCHANGED <<task, asked>>
      BY <1>6 DEF RecvSync
    <2>2. Types' /\ Proposed' /\ LoopBackComplete'
      BY <1>1, <1>4, <2>1 DEF Inv, Types, TypeOK, Proposed, ProposedOnce, LoopBackComplete, queues,
         task, SyncMessage, CleanMessage
    <2>3. Covered' /\ Handlers'
      BY <1>1, <1>4, <2>1 DEF Inv, Covered, Covers, Handlers, task
    <2> QED
      BY <2>2, <2>3 DEF Inv
  <1>7. CASE m.block \notin pending
    <2> DEFINE new == {p \in m.missing : requests[p] = None}
    <2>1. /\ pending' = pending \cup {m.block} /\ waiting' = waiting \cup {w}
          /\ requests' = [p \in DOMAIN requests |->
                            IF p \in new THEN HeightOf[m.block] ELSE requests[p]]
          /\ asked' = asked \cup new
      BY <1>7 DEF RecvSync
    <2>2. HeightOf[m.block] \in Nat
      BY <1>5, MempoolAssumption
    <2>3. requests' \in [Payload -> Nat \cup {None}] /\ asked' \subseteq Payload
      BY <1>5, <2>1, <2>2 DEF Inv, Types, TypeOK
    <2>4. w.block = m.block /\ w.missing = m.missing /\ w.live = TRUE
      OBVIOUS
    <2> HIDE DEF m, w, new
    <2>5. waiting' \subseteq Waiter /\ pending' \subseteq Block
      BY <1>2, <1>5, <2>1 DEF Inv, Types, TypeOK
    <2>6. Types'
      BY <1>1, <1>4, <2>3, <2>5 DEF Inv, Types, TypeOK, Waiter, queues, SyncMessage, CleanMessage
    <2>7. Proposed' /\ LoopBackComplete'
      BY <1>1 DEF Inv, Proposed, ProposedOnce, LoopBackComplete, queues
    <2>8. Covered'
      BY <1>1, <1>3, <1>4, <2>1, <2>4 DEF Inv, Covered, Covers
    <2>9. Handlers'
      <3>1. \A v \in waiting : v.live => v.block # w.block
        BY <1>7, <2>4 DEF Inv, Handlers
      <3> QED
        BY <2>1, <2>4, <3>1 DEF Inv, Handlers
    <2> QED
      BY <2>6, <2>7, <2>8, <2>9 DEF Inv
  <1> QED
    BY <1>6, <1>7
-----------------------------------------------------------------------------
LEMMA Invariant == Spec => []Inv
  <1>1. Init => Inv
    <2> SUFFICES ASSUME Init PROVE Inv
      OBVIOUS
    <2>1. Types
      BY DEF Init, Types, TypeOK, Payload
    <2> QED
      BY <2>1 DEF Init, Inv, Proposed, ProposedOnce, LoopBackComplete, Covered, Handlers
  <1>2. Inv /\ [Next]_vars => Inv'
    <2> SUFFICES ASSUME Inv, [Next]_vars PROVE Inv'
      OBVIOUS
    <2>1. CASE UNCHANGED vars
      BY <2>1 DEF vars, queues, task, Inv, Types, TypeOK, Proposed, ProposedOnce, LoopBackComplete,
         Covered, Covers, Handlers
    <2>2. ASSUME NEW p \in Others, OthersPayload(p) \/ Answer(p) PROVE Inv'
      BY <2>2, OthersPayloadInv DEF OthersPayload, Answer
    <2>3. ASSUME NEW b \in Block, Verify(b) \/ LoopBack(b) PROVE Inv'
      BY <2>3, VerifyInv, LoopBackInv
    <2> QED
      BY <2>1, <2>2, <2>3, OwnPayloadInv, GetMadeInv, RetryInv, GetQueuedInv, CleanupInv,
         RecvSyncInv, RecvCleanInv, WaiterDoneInv, WaiterCancelledInv DEF Next
  <1> QED
    BY <1>1, <1>2, PTL DEF Spec

\* Queues, channels, waiters and requests hold what they should.
THEOREM TypeCorrect == Spec => []TypeOK
  BY Invariant, PTL DEF Inv, Types

\* The own payloads that the mempool accepted are neither lost nor proposed
\* twice, those of the queue and those made on the spot for a block alike, and
\* a block carries only what its node has stored.
THEOREM OwnPayloadsProposedOnce == Spec => []ProposedOnce
  BY Invariant, PTL DEF Inv, Proposed

\* However waiters are cancelled, restarted and cleaned up, a block comes back
\* to the consensus core with all its payloads in the store.
THEOREM ResumedWithPayload == Spec => []LoopBackComplete
  BY Invariant, PTL DEF Inv

\* The task of the synchronizer never waits twice for a block, and Clean can
\* cancel each wait: a block is pending while it has a handler.
THEOREM PendingHasOneWaiter == Spec => []OneLiveWaiter
  BY Invariant, HandlersCount, PTL DEF Inv
=============================================================================
