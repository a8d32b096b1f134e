------------------------------- MODULE Mempool -------------------------------
(***************************************************************************)
(* The mempool of one node: its core (mempool/src/core.rs), the task that  *)
(* fetches the payloads of blocks (mempool/src/synchronizer.rs), the       *)
(* payloads the node makes (mempool/src/payload.rs) and the calls of the   *)
(* consensus core (consensus/src/mempool.rs).                              *)
(*                                                                         *)
(* A payload is its digest; a block is a model value with the payloads it  *)
(* carries and its height, of whichever chain.  The payloads of the other  *)
(* nodes arrive at any time, again and again, or never; requests for them  *)
(* and the answers may be lost.                                            *)
(*                                                                         *)
(* The payloads a node makes are distinct: the transactions of a client    *)
(* are.                                                                    *)
(*                                                                         *)
(* OwnPayloadStored, handle_others_opt, RecvSyncTwice, RecvCleanAll and    *)
(* WaiterAny are not part of the specification: each is the definition     *)
(* after it with a mistake in it, to see which property notices.           *)
(***************************************************************************)
EXTENDS Integers, Sequences, FiniteSets, SequencesExt

CONSTANTS
  Block,           \* the blocks proposed to the node
  PayloadOf,       \* the payloads each block carries
  HeightOf,        \* the height of each block in its chain
  Committing,      \* the blocks the node may commit
  Own,             \* the payloads the node can make of its transactions
  Others,          \* the payloads of the other nodes
  queue_capacity,  \* how many own payloads may be queued
  MaxDigests,      \* how many digests fit in a block
  MaxInner         \* bound: the messages in the channel of the synchronizer

ASSUME MempoolAssumption ==
  /\ PayloadOf \in [Block -> SUBSET (Own \cup Others)]
  /\ HeightOf \in [Block -> Nat]
  /\ Committing \subseteq Block
  /\ Own \cap Others = {}
  /\ queue_capacity \in Nat /\ MaxDigests \in Nat \ {0} /\ MaxInner \in Nat

None == -1

VARIABLES
  stored,     \* the payloads in the store
  optQueue,   \* the own payloads to propose
  pesQueue,   \* the payloads of others to propose
  made,       \* the own payloads made so far
  handed,     \* the payloads handed to the consensus core for its blocks
  committed,  \* the payloads of the blocks committed so far
  suspended,  \* the blocks the consensus core has set aside
  inner,      \* the channel to the synchronizer
  waiting,    \* its waiters; a waiter is live while `pending' holds its handler
  pending,    \* the blocks it waits for
  requests,   \* the height for which each payload is requested, or None
  asked,      \* the payloads asked for, in requests that can be answered
  loopBacks   \* the LoopBacks in the channel of the consensus core

queues == <<optQueue, pesQueue, made, handed, committed>>
task == <<waiting, pending, requests>>
vars == <<stored, queues, suspended, inner, task, asked, loopBacks>>
-----------------------------------------------------------------------------
(***************************************************************************)
(* The core.                                                               *)
(***************************************************************************)
\* process_own_payload refuses a payload when a set is as full as the memory
\* it has, which is at least queue_capacity and grows with the set.
MayRefuse == Cardinality(optQueue) >= queue_capacity \/ Cardinality(pesQueue) >= queue_capacity

OwnPayloadStored(p) ==
  /\ p \notin made
  /\ made' = made \cup {p}
  /\ stored' = stored \cup {p}
  /\ \/ MayRefuse /\ UNCHANGED optQueue
     \/ /\ Cardinality(optQueue) < queue_capacity
        /\ optQueue' = optQueue \cup {p}
  /\ UNCHANGED <<pesQueue, handed, committed, suspended, inner, task, asked, loopBacks>>

\* handle_own_payload: a payload of the payload maker, which is dropped with
\* its transactions when the mempool is full.
OwnPayload(p) ==
  /\ p \notin made
  /\ made' = made \cup {p}
  /\ \/ /\ MayRefuse
        /\ UNCHANGED <<stored, optQueue>>
     \/ /\ Cardinality(optQueue) < queue_capacity
        /\ stored' = stored \cup {p}
        /\ optQueue' = optQueue \cup {p}
  /\ UNCHANGED <<pesQueue, handed, committed, suspended, inner, task, asked, loopBacks>>

handle_others_opt(p) ==
  /\ stored' = stored \cup {p}
  /\ optQueue' = optQueue \cup {p}
  /\ UNCHANGED <<pesQueue, made, handed, committed, suspended, inner, task, loopBacks>>

\* handle_others_payload stores the payload and queues it, new or not.
handle_others_payload(p) ==
  /\ stored' = stored \cup {p}
  /\ pesQueue' = pesQueue \cup {p}
  /\ UNCHANGED <<optQueue, made, handed, committed, suspended, inner, task, loopBacks>>

\* The payload another node shares, or its answer to a request.
OthersPayload(p) == handle_others_payload(p) /\ UNCHANGED asked

Answer(p) ==
  /\ p \in asked
  /\ handle_others_payload(p)
  /\ asked' = asked \ {p}

\* get_payload with something queued: own payloads first, then others, as
\* many as fit; which ones is up to the order of a hash set.
GetQueued(opt, pes) ==
  /\ opt \subseteq optQueue /\ pes \subseteq pesQueue
  /\ optQueue \cup pesQueue # {}
  /\ Cardinality(opt) <= MaxDigests
  /\ opt = optQueue \/ Cardinality(opt) = MaxDigests
  /\ Cardinality(opt) + Cardinality(pes) <= MaxDigests
  /\ pes = pesQueue \/ Cardinality(opt) + Cardinality(pes) = MaxDigests
  /\ optQueue' = optQueue \ opt
  /\ pesQueue' = pesQueue \ pes
  /\ handed' = handed \cup opt \cup pes
  /\ UNCHANGED <<stored, made, committed, suspended, inner, task, asked, loopBacks>>

\* get_payload with nothing queued: a payload is made on the spot of what
\* transactions there are, and goes straight into the block.  An empty queue
\* refuses it only if it was given no memory.
GetMade(p) ==
  /\ optQueue \cup pesQueue = {}
  /\ p \notin made
  /\ made' = made \cup {p}
  /\ IF queue_capacity = 0 THEN UNCHANGED <<stored, handed>>
     ELSE stored' = stored \cup {p} /\ handed' = handed \cup {p}
  /\ UNCHANGED <<optQueue, pesQueue, committed, suspended, inner, task, asked, loopBacks>>

\* verify_payload for a proposal: the block is set aside, and the synchronizer
\* told, when a payload is missing; else the consensus core goes on with it.
\* A payload of this node is in a block only after the node has shared it.
Verify(b) ==
  LET missing == PayloadOf[b] \ stored
  IN  /\ missing \cap Own = {}
      /\ IF missing = {} THEN UNCHANGED inner /\ suspended' = suspended \ {b}
         ELSE /\ Len(inner) < MaxInner
              /\ inner' = Append(inner, [type |-> "sync", block |-> b, missing |-> missing])
              /\ suspended' = suspended \cup {b}
      /\ UNCHANGED <<stored, queues, task, asked, loopBacks>>

\* cleanup for a block the consensus core commits.
Cleanup(b) ==
  /\ PayloadOf[b] \subseteq stored
  /\ Len(inner) < MaxInner
  /\ inner' = Append(inner, [type |-> "clean", round |-> HeightOf[b]])
  /\ optQueue' = optQueue \ PayloadOf[b]
  /\ pesQueue' = pesQueue \ PayloadOf[b]
  /\ committed' = committed \cup PayloadOf[b]
  /\ UNCHANGED <<stored, made, handed, suspended, task, asked, loopBacks>>

\* The consensus core resumes a block.
LoopBack(b) ==
  /\ b \in loopBacks
  /\ loopBacks' = loopBacks \ {b}
  /\ suspended' = suspended \ {b}
  /\ UNCHANGED <<stored, queues, inner, task, asked>>
-----------------------------------------------------------------------------
(***************************************************************************)
(* The task of the synchronizer.                                           *)
(***************************************************************************)
RecvSyncTwice ==
  LET m   == Head(inner)
      new == {p \in m.missing : requests[p] = None}
  IN  /\ inner # <<>> /\ m.type = "sync"
      /\ inner' = Tail(inner)
      /\ pending' = pending \cup {m.block}
      /\ waiting' = waiting \cup {[block |-> m.block, missing |-> m.missing, live |-> TRUE]}
      /\ requests' = [p \in DOMAIN requests |->
                        IF p \in new THEN HeightOf[m.block] ELSE requests[p]]
      /\ asked' = asked \cup new
      /\ UNCHANGED <<stored, queues, suspended, loopBacks>>

\* Sync: unless the block is pending, a waiter waits for its payloads, and
\* those not yet requested are asked of the author.
RecvSync ==
  LET m   == Head(inner)
      new == {p \in m.missing : requests[p] = None}
  IN  /\ inner # <<>> /\ m.type = "sync"
      /\ inner' = Tail(inner)
      /\ IF m.block \in pending THEN UNCHANGED <<task, asked>>
         ELSE /\ pending' = pending \cup {m.block}
              /\ waiting' = waiting \cup {[block |-> m.block, missing |-> m.missing,
                                           live |-> TRUE]}
              /\ requests' = [p \in DOMAIN requests |->
                                IF p \in new THEN HeightOf[m.block] ELSE requests[p]]
              /\ asked' = asked \cup new
      /\ UNCHANGED <<stored, queues, suspended, loopBacks>>

\* The waiters without the handlers of the blocks bs.
Dropped(bs) == {[w EXCEPT !.live = @ /\ w.block \notin bs] : w \in waiting}

RecvCleanAll ==
  LET m == Head(inner)
  IN  /\ inner # <<>> /\ m.type = "clean"
      /\ inner' = Tail(inner)
      /\ waiting' = Dropped(pending)
      /\ pending' = {}
      /\ requests' = [p \in DOMAIN requests |-> None]
      /\ UNCHANGED <<stored, queues, suspended, asked, loopBacks>>

\* Clean: what is at the round or below, in any chain, is given up.
RecvClean ==
  LET m   == Head(inner)
      old == {b \in pending : HeightOf[b] <= m.round}
  IN  /\ inner # <<>> /\ m.type = "clean"
      /\ inner' = Tail(inner)
      /\ waiting' = Dropped(old)
      /\ pending' = pending \ old
      /\ requests' = [p \in DOMAIN requests |->
                        IF requests[p] <= m.round THEN None ELSE requests[p]]
      /\ UNCHANGED <<stored, queues, suspended, asked, loopBacks>>

WaiterAny(w) ==
  /\ w.missing \cap stored # {}
  /\ waiting' = {x \in Dropped({w.block}) : x # [w EXCEPT !.live = FALSE]}
  /\ pending' = pending \ {w.block}
  /\ requests' = [p \in DOMAIN requests |->
                    IF p \in PayloadOf[w.block] THEN None ELSE requests[p]]
  /\ loopBacks' = loopBacks \cup {w.block}
  /\ UNCHANGED <<stored, queues, suspended, inner, asked>>

\* A waiter whose payloads are all in the store delivers its block, even when
\* its handler was dropped meanwhile; the entry of the block goes.
WaiterDone(w) ==
  /\ w.missing \subseteq stored
  /\ waiting' = {x \in Dropped({w.block}) : x # [w EXCEPT !.live = FALSE]}
  /\ pending' = pending \ {w.block}
  /\ requests' = [p \in DOMAIN requests |->
                    IF p \in PayloadOf[w.block] THEN None ELSE requests[p]]
  /\ loopBacks' = loopBacks \cup {w.block}
  /\ UNCHANGED <<stored, queues, suspended, inner, asked>>

\* A waiter that was cancelled ends.
WaiterCancelled(w) ==
  /\ ~w.live
  /\ waiting' = waiting \ {w}
  /\ UNCHANGED <<stored, queues, suspended, inner, pending, requests, asked, loopBacks>>

\* The timer: what has been requested for long is asked of everyone.
Retry(p) ==
  /\ requests[p] # None /\ p \notin asked
  /\ asked' = asked \cup {p}
  /\ UNCHANGED <<stored, queues, suspended, inner, task, loopBacks>>

\* The network loses a request or its answer.
Lose(p) ==
  /\ p \in asked
  /\ asked' = asked \ {p}
  /\ UNCHANGED <<stored, queues, suspended, inner, task, loopBacks>>
-----------------------------------------------------------------------------
Init ==
  /\ stored = {} /\ optQueue = {} /\ pesQueue = {} /\ made = {}
  /\ handed = {} /\ committed = {}
  /\ suspended = {} /\ inner = <<>> /\ waiting = {} /\ pending = {}
  /\ requests = [p \in Own \cup Others |-> None]
  /\ asked = {} /\ loopBacks = {}

Next ==
  \/ \E p \in Own : OwnPayload(p) \/ GetMade(p)
  \/ \E p \in Others : OthersPayload(p) \/ Answer(p) \/ Retry(p) \/ Lose(p)
  \/ \E opt \in SUBSET optQueue, pes \in SUBSET pesQueue : GetQueued(opt, pes)
  \/ \E b \in Block : Verify(b) \/ LoopBack(b)
  \/ \E b \in Committing : Cleanup(b)
  \/ RecvSync
  \/ RecvClean
  \/ \E w \in waiting : WaiterDone(w) \/ WaiterCancelled(w)

\* Both loops run; the timer fires again and again; a request repeated for
\* ever is answered, since a correct node that accepted the block has its
\* payloads.  Nothing is assumed of the other messages.
Fairness ==
  /\ WF_vars(RecvSync) /\ WF_vars(RecvClean)
  /\ \A p \in Others : WF_vars(Retry(p)) /\ SF_vars(Answer(p))
  /\ \A b \in Block :
       /\ WF_vars(LoopBack(b))
       /\ WF_vars(\E w \in waiting : w.block = b /\ w.live /\ WaiterDone(w))

Spec == Init /\ [][Next]_vars

FairSpec == Spec /\ Fairness
-----------------------------------------------------------------------------
(***************************************************************************)
(* Properties.                                                             *)
(***************************************************************************)
Payload == Own \cup Others

TypeOK ==
  /\ stored \subseteq Payload
  /\ optQueue \subseteq Own /\ pesQueue \subseteq Others
  /\ made \subseteq Own
  /\ handed \subseteq Payload /\ committed \subseteq Payload
  /\ suspended \subseteq Block
  /\ \A i \in DOMAIN inner :
       inner[i] \in [type : {"sync"}, block : Block, missing : SUBSET Payload]
                    \cup [type : {"clean"}, round : Nat]
  /\ waiting \subseteq [block : Block, missing : SUBSET Payload, live : BOOLEAN]
  /\ pending \subseteq Block
  /\ requests \in [Payload -> Nat \cup {None}]
  /\ asked \subseteq Payload
  /\ loopBacks \subseteq Block

\* A payload the mempool accepted of its own is neither lost nor proposed
\* twice: it is queued, or it went into a block, made on the spot or taken from
\* the queue, or a committed block carried it, and then it is not queued any
\* more.  Whatever is or may be in a block of the node, the node has stored and
\* can serve to the others.
ProposedOnce ==
  /\ Own \cap stored = optQueue \cup (Own \cap (handed \cup committed))
  /\ optQueue \cap (handed \cup committed) = {}
  /\ handed \cup pesQueue \subseteq stored

\* A block comes back to the consensus core only with its whole payload, even
\* when a cancelled waiter brings it.
LoopBackComplete == \A b \in loopBacks : PayloadOf[b] \subseteq stored

\* A pending block has one waiter that still has its handler, and no other
\* block has any: the handlers that Clean uses are those of the waiters.
OneLiveWaiter ==
  /\ \A w \in waiting : w.live => w.block \in pending
  /\ \A b \in pending : Cardinality({w \in waiting : w.block = b /\ w.live}) = 1

\* The cleanup of committed blocks may concern the block: it is not higher
\* than they are, or shares a payload with a block that is not.
Concerned(b) ==
  \E a \in Block, c \in Committing :
    /\ HeightOf[a] <= HeightOf[c]
    /\ a = b \/ PayloadOf[a] \cap PayloadOf[b] # {}

\* A block set aside for a missing payload is resumed, though requests and
\* answers are lost and other blocks are cleaned up meanwhile, unless the
\* cleanup concerns it.
Resumed ==
  \A b \in Block : Concerned(b) \/ (b \in suspended ~> b \notin suspended)
=============================================================================
