------------------------- MODULE SynchronizerProofs -------------------------
(***************************************************************************)
(* Proofs about module Synchronizer, for a chain and channels of any       *)
(* length.  The inductive invariant is the conjunction of the types of the *)
(* variables the synchronizer shares with the core, OneWaiter, Demanded    *)
(* and ParentTracked: a second waiter for a digest would find its entry in *)
(* `demands' gone, and a digest without a waiter may only be one that the  *)
(* core has not asked for, or has.  The other variables of the core follow *)
(* in Rest, for which CommitStops says that a commit ends inside the chain.*)
(***************************************************************************)
EXTENDS Synchronizer, WellFoundedInduction, TLAPS

Requests == Seq([digest : Digest, block : Requester])

Types ==
  /\ stored \subseteq Digest
  /\ certified \subseteq Digest
  /\ inner \in Requests
  /\ waiting \in [Digest -> [Requester -> Nat]]
  /\ pending \subseteq Digest
  /\ demands \in [Digest -> SUBSET Digest]

Inv == Types /\ OneWaiter /\ Demanded /\ ParentTracked

\* Adding requests to the channel keeps those that are in it in their places.
LEMMA Appended ==
  ASSUME NEW s \in Requests, NEW r \in Requests
  PROVE  /\ s \o r \in Requests
         /\ \A i \in 1 .. Len(s) : i \in 1 .. Len(s \o r) /\ (s \o r)[i] = s[i]
         /\ \A i \in 1 .. Len(r) :
              Len(s) + i \in 1 .. Len(s \o r) /\ (s \o r)[Len(s) + i] = r[i]
  BY DEF Requests

\* What get_ancestors asks for is a block of the chain, and is the parent of
\* d when that is missing.
LEMMA Asks ==
  ASSUME NEW st \in SUBSET Digest, NEW d \in Digest
  PROVE  /\ get_ancestors(st, d) \in Requests
         /\ d - 1 \notin st \cup {0} =>
              /\ 1 \in 1 .. Len(get_ancestors(st, d))
              /\ get_ancestors(st, d)[1].digest = d - 1
  <1>1. Digest \subseteq Nat \ {0}
    BY SynchronizerAssumption DEF Digest
  <1>2. d - 1 \in Digest \cup {0}
    BY SynchronizerAssumption DEF Digest
  <1>3. d - 1 # 0 => d - 2 \in Digest \cup {0}
    BY SynchronizerAssumption DEF Digest
  <1>4. \A e \in Digest, b \in Requester : <<Request(e, b)>> \in Requests
    BY DEF Requests, Request
  <1>5. <<>> \in Requests
    BY DEF Requests
  <1>6. CASE d - 1 \notin st \cup {0}
    <2>1. get_ancestors(st, d) = <<Request(d - 1, d)>>
      BY <1>6 DEF get_ancestors
    <2> QED
      BY <2>1, <1>2, <1>4, <1>6 DEF Request, Requester
  <1>7. CASE d - 1 \in st \cup {0} /\ d - 1 # 0 /\ d - 2 \notin st \cup {0}
    <2>1. get_ancestors(st, d) = <<Request(d - 2, d - 1)>>
      BY <1>7 DEF get_ancestors
    <2> QED
      BY <2>1, <1>2, <1>3, <1>4, <1>7 DEF Requester
  <1>8. CASE d - 1 \in st \cup {0} /\ ~(d - 1 # 0 /\ d - 2 \notin st \cup {0})
    BY <1>5, <1>8 DEF get_ancestors
  <1> QED
    BY <1>6, <1>7, <1>8

\* commit_prev_block asks for certified blocks only.
LEMMA CommitAsks ==
  ASSUME NEW st, NEW cert \in SUBSET Digest, NEW h
  PROVE  commit_prev_block(st, cert, h) \in Requests
  <1> DEFINE k == CommittedTo(st, cert, h) + 1
  <1>1. commit_prev_block(st, cert, h) = IF k <= h /\ k \in cert \ st
                                         THEN <<Request(k, None)>> ELSE <<>>
    BY DEF commit_prev_block
  <1> HIDE DEF k
  <1>2. \A e \in Digest : <<Request(e, None)>> \in Requests
    BY DEF Requests, Request, Requester
  <1>3. <<>> \in Requests
    BY DEF Requests
  <1> QED
    BY <1>1, <1>2, <1>3

\* More requests in the channel, and a block in the store whose parent is
\* tracked, keep the invariant.
LEMMA Sent ==
  ASSUME Inv, NEW r \in Requests, inner' = inner \o r, UNCHANGED task,
         stored \subseteq stored', stored' \subseteq Digest,
         certified' \subseteq Digest,
         \A d \in stored' \ stored :
           d - 1 \notin stored' \cup {0} => 1 \in 1 .. Len(r) /\ r[1].digest = d - 1
  PROVE  Inv'
  <1>1. /\ inner \in Requests
        /\ pending' = pending /\ waiting' = waiting /\ demands' = demands
    BY DEF Inv, Types, task
  <1>2. /\ inner' \in Requests
        /\ \A i \in 1 .. Len(inner) : i \in 1 .. Len(inner') /\ inner'[i] = inner[i]
        /\ \A i \in 1 .. Len(r) : Len(inner) + i \in 1 .. Len(inner')
                                  /\ inner'[Len(inner) + i] = r[i]
    BY <1>1, Appended
  <1>3. Types'
    BY <1>1, <1>2 DEF Inv, Types
  <1>4. OneWaiter' /\ Demanded'
    BY <1>1 DEF Inv, OneWaiter, Demanded
  <1>5. ASSUME NEW d \in stored'
        PROVE  \/ d - 1 \in stored' \cup {0} \cup pending'
               \/ \E i \in 1 .. Len(inner') : inner'[i].digest = d - 1
    <2>1. CASE d \in stored
      BY <1>1, <1>2, <2>1 DEF Inv, ParentTracked
    <2>2. CASE d \notin stored
      BY <1>2, <2>2
    <2> QED
      BY <2>1, <2>2
  <1> QED
    BY <1>3, <1>4, <1>5 DEF Inv, ParentTracked

\* process_block, for a proposal, a SyncReply or a LoopBack.
LEMMA ProcessBlock ==
  ASSUME Inv, NEW d \in Digest, NEW cert \in SUBSET Digest, NEW room,
         process_block(d, cert, room)
  PROVE  Inv'
  <1> DEFINE st == stored \cup {d}
             asks == get_ancestors(st, d)
  <1>1. PICK h : inner' = inner \o (asks \o commit_prev_block(st, cert, h))
    BY DEF process_block, Send
  <1> DEFINE more == commit_prev_block(st, cert, h)
  <1>2. /\ stored' = st /\ certified' = cert /\ UNCHANGED task
        /\ st \in SUBSET Digest
    BY DEF process_block, Inv, Types
  <1>3. /\ asks \in Requests
        /\ d - 1 \notin st \cup {0} => 1 \in 1 .. Len(asks) /\ asks[1].digest = d - 1
    BY <1>2, Asks
  <1>4. more \in Requests
    BY CommitAsks
  <1>5. /\ asks \o more \in Requests
        /\ \A i \in 1 .. Len(asks) : i \in 1 .. Len(asks \o more)
                                     /\ (asks \o more)[i] = asks[i]
    BY <1>3, <1>4, Appended
  <1> HIDE DEF asks, more
  <1>6. d - 1 \notin stored' \cup {0} =>
          1 \in 1 .. Len(asks \o more) /\ (asks \o more)[1].digest = d - 1
    BY <1>2, <1>3, <1>5
  <1>7. \A e \in stored' \ stored : e = d
    BY <1>2
  <1>8. inner' = inner \o (asks \o more)
    BY <1>1 DEF asks, more
  <1> QED
    BY <1>2, <1>5, <1>6, <1>7, <1>8, Sent

\* A request leaves the channel: it is for a block in the store, for one that
\* is pending, or it makes one pending and gives it its only waiter.
LEMMA Received ==
  ASSUME Inv, Recv
  PROVE  Inv'
  <1> DEFINE d == Head(inner).digest
             b == Head(inner).block
  <1>1. /\ inner \in Requests /\ inner # <<>> /\ inner' = Tail(inner)
        /\ stored' = stored /\ certified' = certified
    BY DEF Inv, Types, Recv
  <1>2. /\ d \in Digest /\ b \in Requester
        /\ inner[1].digest = d
        /\ inner' \in Requests
        /\ \A i \in 1 .. Len(inner) :
             i # 1 => i - 1 \in 1 .. Len(inner') /\ inner'[i - 1] = inner[i]
    <2>1. /\ Head(inner) = inner[1]
          /\ Head(inner) \in [digest : Digest, block : Requester]
          /\ inner' \in Requests
      <3> DEFINE R == [digest : Digest, block : Requester]
      <3>1. inner \in Seq(R) /\ inner # <<>>
        BY <1>1 DEF Requests
      <3> HIDE DEF R
      <3>2. Head(inner) = inner[1] /\ Head(inner) \in R /\ Tail(inner) \in Seq(R)
        BY <3>1
      <3> QED
        BY <1>1, <3>2 DEF R, Requests
    <2>2. \A i \in 1 .. Len(inner) :
            i # 1 => i - 1 \in 1 .. Len(inner') /\ inner'[i - 1] = inner[i]
      <3>1. Len(inner) \in Nat /\ Len(inner') = Len(inner) - 1
        BY <1>1 DEF Requests
      <3>2. \A j \in 1 .. (Len(inner) - 1) : inner'[j] = inner[j + 1]
        BY <1>1 DEF Requests
      <3> QED
        BY <3>1, <3>2
    <2> QED
      BY <2>1, <2>2
  <1>3. d \in stored \cup pending' /\ pending \subseteq pending'
    BY DEF Recv, task
  <1>4. ParentTracked'
    <2>1. ASSUME NEW e \in stored
          PROVE  \/ e - 1 \in stored \cup {0} \cup pending'
                 \/ \E i \in 1 .. Len(inner') : inner'[i].digest = e - 1
      <3>1. CASE e - 1 \in stored \cup {0} \cup pending
        BY <1>3, <3>1
      <3>2. ASSUME NEW i \in 1 .. Len(inner), inner[i].digest = e - 1
            PROVE  \/ e - 1 \in stored \cup {0} \cup pending'
                   \/ \E j \in 1 .. Len(inner') : inner'[j].digest = e - 1
        <4>1. CASE i = 1
          BY <1>2, <1>3, <3>2, <4>1
        <4>2. CASE i # 1
          BY <1>2, <3>2, <4>2
        <4> QED
          BY <4>1, <4>2
      <3> QED
        BY <3>1, <3>2 DEF Inv, ParentTracked
    <2> QED
      BY <2>1, <1>1 DEF ParentTracked
  <1>5. CASE d \in stored \cup pending
    <2>1. UNCHANGED task
      BY <1>5 DEF Recv
    <2> QED
      BY <1>1, <1>2, <1>4, <2>1 DEF Inv, Types, OneWaiter, Demanded, task
  <1>6. CASE d \notin stored \cup pending
    <2>1. /\ waiting' = [waiting EXCEPT ![d][b] = @ + 1]
          /\ pending' = pending \cup {d}
          /\ demands' = IF b = None THEN demands
                        ELSE [demands EXCEPT ![b] = @ \cup {d}]
      BY <1>6 DEF Recv
    <2> HIDE DEF d, b
    <2>2. \A c \in Requester : waiting[d][c] = 0
      BY <1>2, <1>6 DEF Inv, Types, OneWaiter
    <2>3. /\ waiting' \in [Digest -> [Requester -> Nat]]
          /\ waiting'[d][b] = 1
          /\ \A c \in Requester \ {b} : waiting'[d][c] = 0
          /\ \A e \in Digest \ {d} : waiting'[e] = waiting[e]
      BY <1>2, <2>1, <2>2 DEF Inv, Types
    <2>4. b # None => b \in Digest
      BY <1>2 DEF Requester
    <2>5. /\ demands' \in [Digest -> SUBSET Digest]
          /\ \A e \in Digest : demands[e] \subseteq demands'[e]
          /\ b # None => d \in demands'[b]
      BY <1>2, <2>1, <2>4 DEF Inv, Types
    <2>6. Types'
      BY <1>1, <1>2, <2>1, <2>3, <2>5 DEF Inv, Types
    <2>7. OneWaiter'
      <3>1. \A e \in pending' : \E c \in Requester : waiting'[e][c] > 0
        BY <1>2, <2>1, <2>3 DEF Inv, Types, OneWaiter
      <3>2. ASSUME NEW e \in Digest, NEW c \in Requester, waiting'[e][c] > 0
            PROVE  /\ e \in pending'
                   /\ waiting'[e][c] = 1
                   /\ \A x \in Requester \ {c} : waiting'[e][x] = 0
        BY <1>2, <2>1, <2>3, <3>2 DEF Inv, Types, OneWaiter
      <3> QED
        BY <3>1, <3>2 DEF OneWaiter
    <2>8. Demanded'
      <3>1. ASSUME NEW e \in Digest, NEW c \in Digest, waiting'[e][c] > 0
            PROVE  e \in demands'[c]
        <4>1. c \in Requester /\ c # None
          BY SynchronizerAssumption DEF Requester, Digest, None
        <4>2. CASE e = d
          BY <2>3, <2>5, <3>1, <4>1, <4>2
        <4>3. CASE e # d
          BY <2>3, <2>5, <3>1, <4>3 DEF Inv, Demanded
        <4> QED
          BY <4>2, <4>3
      <3> QED
        BY <3>1 DEF Demanded
    <2> QED
      BY <1>4, <2>6, <2>7, <2>8 DEF Inv
  <1> QED
    BY <1>5, <1>6

\* A waiter completes: it was the only one for its digest.
LEMMA Completed ==
  ASSUME Inv, NEW d \in Digest, NEW b \in Requester, Complete(d, b)
  PROVE  Inv'
  <1>1. /\ waiting[d][b] > 0 /\ d \in stored
        /\ waiting' = [waiting EXCEPT ![d][b] = @ - 1]
        /\ pending' = pending \ {d}
        /\ stored' = stored /\ certified' = certified /\ inner' = inner
        /\ demands' = IF b = None THEN demands ELSE [demands EXCEPT ![b] = @ \ {d}]
    BY DEF Complete, core
  <1>2. waiting[d][b] = 1 /\ \A c \in Requester \ {b} : waiting[d][c] = 0
    BY <1>1 DEF Inv, OneWaiter
  <1>3. /\ waiting' \in [Digest -> [Requester -> Nat]]
        /\ \A c \in Requester : waiting'[d][c] = 0
        /\ \A e \in Digest \ {d} : waiting'[e] = waiting[e]
    BY <1>1, <1>2 DEF Inv, Types
  <1>4. /\ demands' \in [Digest -> SUBSET Digest]
        /\ \A c \in Digest : demands[c] \ {d} \subseteq demands'[c]
    BY <1>1 DEF Inv, Types, Requester
  <1>5. Types'
    BY <1>1, <1>3, <1>4 DEF Inv, Types
  <1>6. OneWaiter'
    BY <1>1, <1>3 DEF Inv, Types, OneWaiter
  <1>7. Demanded'
    <2>1. ASSUME NEW e \in Digest, NEW c \in Digest, waiting'[e][c] > 0
          PROVE  e \in demands'[c]
      <3>1. c \in Requester
        BY DEF Requester
      <3>2. e # d
        BY <1>3, <2>1, <3>1
      <3> QED
        BY <1>3, <1>4, <2>1, <3>2 DEF Inv, Demanded
    <2> QED
      BY <2>1 DEF Demanded
  <1>8. ParentTracked'
    BY <1>1 DEF Inv, ParentTracked
  <1> QED
    BY <1>5, <1>6, <1>7, <1>8 DEF Inv

LEMMA InitInv == Init => Inv
  <1> SUFFICES ASSUME Init PROVE Inv
    OBVIOUS
  <1>1. Types
    BY DEF Init, Types, Requests
  <1> QED
    BY <1>1 DEF Init, Inv, OneWaiter, Demanded, ParentTracked, Requester

\* The iterations of the core that only send requests.
LEMMA Output ==
  ASSUME Inv, NEW h \in Digest, OutputPhase(h)
  PROVE  Inv'
  <1>1. stored' = stored /\ certified' = certified /\ UNCHANGED task
    BY DEF OutputPhase
  <1>2. <<Request(h, None)>> \in Requests
    BY DEF Requests, Request, Requester
  <1>3. commit_prev_block(stored, certified, h) \in Requests
    BY CommitAsks DEF Inv, Types
  <1>4. \E r \in Requests : inner' = inner \o r
    BY <1>2, <1>3 DEF OutputPhase, Send
  <1>5. PICK r \in Requests : inner' = inner \o r
    BY <1>4
  <1> QED
    BY <1>1, <1>5, Sent DEF Inv, Types

\* A step that leaves the channel and the synchronizer alone, and the blocks.
LEMMA Same ==
  ASSUME Inv, UNCHANGED <<stored, inner, task>>, certified' \subseteq Digest
  PROVE  Inv'
  BY DEF Inv, Types, OneWaiter, Demanded, ParentTracked, task

LEMMA NextInv == Inv /\ [Next]_vars => Inv'
  <1> SUFFICES ASSUME Inv, [Next]_vars PROVE Inv'
    OBVIOUS
  <1>0. stored \subseteq Digest /\ certified \subseteq Digest
    BY DEF Inv, Types
  <1>1. CASE UNCHANGED vars
    BY <1>0, <1>1, Same DEF vars, core
  <1>2. CASE ViewChange
    BY <1>0, <1>2, Same DEF ViewChange
  <1>3. CASE Recv
    BY <1>3, Received
  <1>4. ASSUME NEW d \in Digest,
               HandleProposal(d) \/ SyncReply(d) \/ LoopBack(d)
        PROVE  Inv'
    <2>1. certified \cup ({d - 1} \ {0}) \in SUBSET Digest
      BY <1>0, SynchronizerAssumption DEF Digest
    <2>2. CASE HandleProposal(d)
      BY <2>1, <2>2, ProcessBlock DEF HandleProposal
    <2>3. CASE SyncReply(d)
      BY <2>1, <2>3, ProcessBlock DEF SyncReply
    <2>4. CASE LoopBack(d)
      BY <1>0, <2>4, ProcessBlock DEF LoopBack
    <2> QED
      BY <1>4, <2>2, <2>3, <2>4
  <1>5. ASSUME NEW d \in Digest, HandleTimeout(d)
        PROVE  Inv'
    BY <1>0, <1>5, Same DEF HandleTimeout
  <1>6. ASSUME NEW d \in Digest, OutputPhase(d)
        PROVE  Inv'
    BY <1>6, Output
  <1>7. ASSUME NEW d \in Digest, Retry(d) \/ Lose(d)
        PROVE  Inv'
    BY <1>0, <1>7, Same DEF Retry, Lose, core
  <1>8. ASSUME NEW d \in Digest, NEW b \in Requester, Complete(d, b)
        PROVE  Inv'
    BY <1>8, Completed
  <1> QED
    BY <1>1, <1>2, <1>3, <1>4, <1>5, <1>6, <1>7, <1>8 DEF Next

-----------------------------------------------------------------------------
\* The variables the synchronizer does not use.
Rest ==
  /\ mode \in {"epoch", "viewChange", "past"}
  /\ lastCommitted \in 0 .. MaxBlock
  /\ suspended \subseteq Digest
  /\ asked \subseteq Digest
  /\ loopBacks \subseteq Digest

LEMMA Smallest ==
  ASSUME NEW T \in SUBSET Nat, T # {}
  PROVE  \E x \in T : \A y \in T : x <= y
  <1>1. \E x \in T : \A y \in T : ~(<<y, x>> \in OpToRel(<, Nat))
    BY WFMin, NatLessThanWellFounded, Zenon
  <1>2. \E x \in T : \A y \in T : ~(y < x)
    BY <1>1, Zenon DEF OpToRel
  <1> QED
    BY <1>2

\* The blocks commit_prev_block commits follow the last committed one without
\* a gap, so there is one at which it stops.
LEMMA CommitStops ==
  ASSUME lastCommitted \in 0 .. MaxBlock, NEW st, NEW cert, NEW h \in 0 .. MaxBlock
  PROVE  CommittedTo(st, cert, h) \in lastCommitted .. MaxBlock
  <1> DEFINE from == lastCommitted + 1
             T == {k \in Nat : k >= lastCommitted /\ (k + 1) \notin Committed(st, cert, h)}
  <1>1. /\ lastCommitted \in Nat /\ MaxBlock \in Nat /\ from \in Nat
        /\ h \in Nat /\ h <= MaxBlock /\ lastCommitted <= MaxBlock
    BY SynchronizerAssumption
  <1>2. \A k : k \in Committed(st, cert, h) <=>
               k \in from .. h /\ (from .. k) \subseteq st \cap cert
    BY DEF Committed
  <1>3. MaxBlock \in T
    BY <1>1, <1>2
  <1>4. PICK k \in T : \A j \in T : k <= j
    BY <1>3, Smallest
  <1>5. k \in lastCommitted .. MaxBlock
    BY <1>1, <1>3, <1>4
  <1>6. Committed(st, cert, h) = from .. k
    <2>1. ASSUME NEW j \in from .. k
          PROVE  j \in Committed(st, cert, h)
      <3>1. j - 1 \in Nat /\ j - 1 >= lastCommitted /\ j - 1 < k
        BY <1>1, <1>5, <2>1
      <3>2. j - 1 \notin T
        BY <1>4, <1>5, <3>1
      <3> QED
        BY <3>1, <3>2
    <2>2. ASSUME NEW j \in Committed(st, cert, h)
          PROVE  j \in from .. k
      <3>1. j \in from .. h /\ (from .. j) \subseteq st \cap cert
        BY <1>2
      <3>2. SUFFICES ASSUME j > k PROVE FALSE
        BY <1>1, <1>5, <3>1
      <3>3. k + 1 \in from .. h /\ (from .. (k + 1)) \subseteq (from .. j)
        BY <1>1, <1>5, <3>1, <3>2
      <3>4. (from .. (k + 1)) \subseteq st \cap cert
        BY <3>1, <3>3
      <3>5. k + 1 \in Committed(st, cert, h)
        BY <1>2, <3>3, <3>4
      <3> QED
        BY <1>4, <3>5
    <2> QED
      BY <2>1, <2>2
  <1> HIDE DEF T
  <1> QED
    BY <1>5, <1>6 DEF CommittedTo

LEMMA ProcessBlockRest ==
  ASSUME Rest, NEW d \in Digest, NEW cert, NEW room, process_block(d, cert, room)
  PROVE  /\ mode' \in {"epoch", "viewChange", "past"}
         /\ lastCommitted' \in 0 .. MaxBlock
         /\ suspended' \subseteq Digest
  <1>1. PICK h \in 0 .. MaxBlock :
          lastCommitted' = CommittedTo(stored \cup {d}, cert, h)
    <2>1. d - 2 \in 0 .. MaxBlock \/ ~(d > 2)
      BY SynchronizerAssumption DEF Digest
    <2>2. 0 \in 0 .. MaxBlock
      BY SynchronizerAssumption
    <2> QED
      BY <2>1, <2>2 DEF process_block
  <1>2. lastCommitted' \in lastCommitted .. MaxBlock
    BY <1>1, CommitStops DEF Rest
  <1>3. mode' = mode /\ suspended' \subseteq suspended \cup {d}
    BY DEF process_block
  <1> QED
    BY <1>2, <1>3, SynchronizerAssumption DEF Rest

LEMMA NextRest == Inv /\ Rest /\ [Next]_vars => Rest'
  <1> SUFFICES ASSUME Inv, Rest, [Next]_vars PROVE Rest'
    OBVIOUS
  <1>1. CASE UNCHANGED vars
    BY <1>1 DEF Rest, vars, core
  <1>2. CASE ViewChange
    BY <1>2 DEF Rest, ViewChange
  <1>3. CASE Recv
    <2>1. Head(inner).digest \in Digest
      <3> DEFINE R == [digest : Digest, block : Requester]
      <3>1. inner \in Seq(R) /\ inner # <<>>
        BY <1>3 DEF Inv, Types, Requests, Recv
      <3> HIDE DEF R
      <3>2. Head(inner) \in R
        BY <3>1
      <3> QED
        BY <3>2 DEF R
    <2> QED
      BY <1>3, <2>1 DEF Rest, Recv
  <1>4. ASSUME NEW d \in Digest,
               HandleProposal(d) \/ SyncReply(d) \/ LoopBack(d)
        PROVE  Rest'
    <2>1. PICK cert, room : process_block(d, cert, room)
      BY <1>4 DEF HandleProposal, SyncReply, LoopBack
    <2>2. asked' \subseteq asked /\ loopBacks' \subseteq loopBacks
      BY <1>4 DEF HandleProposal, SyncReply, LoopBack
    <2> QED
      BY <2>1, <2>2, ProcessBlockRest DEF Rest
  <1>5. ASSUME NEW d \in Digest, HandleTimeout(d)
        PROVE  Rest'
    BY <1>5 DEF Rest, HandleTimeout
  <1>6. ASSUME NEW h \in Digest, OutputPhase(h)
        PROVE  Rest'
    <2>1. h \in 0 .. MaxBlock
      BY SynchronizerAssumption DEF Digest
    <2>2. CommittedTo(stored, certified, h) \in lastCommitted .. MaxBlock
      BY <2>1, CommitStops DEF Rest
    <2> QED
      BY <1>6, <2>2, SynchronizerAssumption DEF Rest, OutputPhase
  <1>7. ASSUME NEW d \in Digest, Retry(d) \/ Lose(d)
        PROVE  Rest'
    BY <1>7 DEF Rest, Retry, Lose, core
  <1>8. ASSUME NEW d \in Digest, NEW b \in Requester, Complete(d, b)
        PROVE  Rest'
    BY <1>8 DEF Rest, Complete, core, Requester
  <1> QED
    BY <1>1, <1>2, <1>3, <1>4, <1>5, <1>6, <1>7, <1>8 DEF Next

\* The synchronizer and the core are well typed: no request or LoopBack is for
\* a block that is not of the chain, and commit_prev_block ends inside it.
THEOREM TypeCorrect == Spec => []TypeOK
  <1>1. Init => Rest
    BY SynchronizerAssumption DEF Init, Rest
  <1>2. Inv /\ Rest => TypeOK
    BY DEF Inv, Types, Rest, TypeOK, Requests
  <1> QED
    BY <1>1, <1>2, InitInv, NextInv, NextRest, PTL DEF Spec

\* The unwrap of the entry in `demands' never panics.
THEOREM UnwrapSafe == Spec => []Demanded
  <1>1. Inv => Demanded
    BY DEF Inv
  <1> QED
    BY <1>1, InitInv, NextInv, PTL DEF Spec

\* No parent that a stored block misses is ever forgotten, though requests
\* are passed over and waiters complete in any order.
THEOREM ParentNeverForgotten == Spec => []ParentTracked
  <1>1. Inv => ParentTracked
    BY DEF Inv
  <1> QED
    BY <1>1, InitInv, NextInv, PTL DEF Spec

\* Each pending digest has exactly one waiter, and no other digest has any.
THEOREM OneWaiterEach == Spec => []OneWaiter
  <1>1. Inv => OneWaiter
    BY DEF Inv
  <1> QED
    BY <1>1, InitInv, NextInv, PTL DEF Spec
=============================================================================
