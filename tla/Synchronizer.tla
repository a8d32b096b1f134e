---------------------------- MODULE Synchronizer ----------------------------
(***************************************************************************)
(* How a node gets the ancestors of the blocks it receives: the block      *)
(* synchronizer (consensus/src/synchronizer.rs), the store it waits on     *)
(* (store/src/lib.rs) and the part of the core (consensus/src/core.rs)     *)
(* that calls it, at one node and for the chain of the leader of one       *)
(* epoch.  The core and the task of the synchronizer run side by side: the *)
(* core asks through the channel `inner' and never waits for the answer,   *)
(* the task answers with a LoopBack through the channel of the core.       *)
(*                                                                         *)
(* The blocks of the chain are 1 .. MaxBlock, the parent of block d being  *)
(* d - 1 and 0 the genesis block; a digest is the number of its block.     *)
(* Proposals arrive in any order or never.  A request or its answer may be *)
(* lost.  The payloads of the blocks are at hand (module Mempool), and the *)
(* store does not fail (module Store).                                     *)
(*                                                                         *)
(* get_ancestors_genesis, RecvTwice, CompleteStays, NoRetry and RetryOnce  *)
(* are not part of the specification: each is the definition after it with *)
(* a mistake in it, to see which property notices.                         *)
(***************************************************************************)
EXTENDS Integers, Sequences

CONSTANTS
  MaxBlock,   \* bound: the blocks of the chain
  MaxInner    \* bound: the requests proposals leave in the inner channel

ASSUME SynchronizerAssumption == MaxBlock \in Nat /\ MaxInner \in Nat

Digest == 1 .. MaxBlock

None == -1

\* What a request is made for: a block to resume, or nothing.
Requester == Digest \cup {None}

VARIABLES
  mode,          \* "epoch", "viewChange", or "past" once the chain restarts
  stored,        \* the blocks in the store
  certified,     \* the digests in height_to_digest
  lastCommitted, \* last_committed_height of the chain
  suspended,     \* the blocks whose processing stopped at a missing ancestor
  inner,         \* the channel from the core to the synchronizer
  waiting,       \* waiting[d][b]: the waiters for block d on behalf of b
  pending,       \* the digests being requested
  demands,       \* the digests each block waits for, {} when it has no entry
  asked,         \* the requests on the network that some peer can answer
  loopBacks      \* the LoopBacks in the channel of the core

core == <<mode, stored, certified, lastCommitted, suspended, inner>>
task == <<waiting, pending, demands>>
vars == <<core, task, asked, loopBacks>>
-----------------------------------------------------------------------------
(***************************************************************************)
(* The core.                                                               *)
(***************************************************************************)
Request(d, b) == [digest |-> d, block |-> b]

get_ancestors_genesis(st, d) ==
  IF d - 1 \notin st THEN <<Request(d - 1, d)>>
  ELSE IF d - 2 \notin st THEN <<Request(d - 2, d - 1)>>
  ELSE <<>>

\* get_ancestors: the requests it makes, none when both ancestors of d are in
\* the store.  The one it makes for the grandparent is on behalf of the parent.
get_ancestors(st, d) ==
  IF d - 1 \notin st \cup {0} THEN <<Request(d - 1, d)>>
  ELSE IF d - 1 # 0 /\ d - 2 \notin st \cup {0} THEN <<Request(d - 2, d - 1)>>
  ELSE <<>>

\* commit_prev_block up to height h: what it commits, and what it asks for
\* when it stops at a block it has the digest but not the block of.
Committed(st, cert, h) ==
  {k \in (lastCommitted + 1) .. h : (lastCommitted + 1) .. k \subseteq st \cap cert}

CommittedTo(st, cert, h) ==
  CHOOSE k \in lastCommitted .. MaxBlock : Committed(st, cert, h) = (lastCommitted + 1) .. k

commit_prev_block(st, cert, h) ==
  LET k == CommittedTo(st, cert, h) + 1
  IN  IF k <= h /\ k \in cert \ st THEN <<Request(k, None)>> ELSE <<>>

\* The requests of an iteration fit in the channel.  Proposals leave room in
\* it, so that the bound never keeps an answer from being handled.
Send(requests, room) ==
  /\ Len(inner) + Len(requests) <= room
  /\ inner' = inner \o requests

\* process_block: store the block; then, with both ancestors at hand, commit
\* the head of the 2-chain if the chain is still the leader's.
process_block(d, cert, room) ==
  LET st    == stored \cup {d}
      asks  == get_ancestors(st, d)
      heads == IF asks = <<>> /\ mode = "epoch" /\ d > 2 THEN d - 2 ELSE 0
  IN  /\ stored' = st
      /\ certified' = cert
      /\ suspended' = IF asks = <<>> THEN suspended \ {d} ELSE suspended \cup {d}
      /\ lastCommitted' = CommittedTo(st, cert, heads)
      /\ Send(asks \o commit_prev_block(st, cert, heads), room)
      /\ UNCHANGED <<mode, task>>

\* handle_proposal of a proposal of the author.
HandleProposal(d) ==
  /\ process_block(d, certified \cup ({d - 1} \ {0}), MaxInner)
  /\ UNCHANGED <<asked, loopBacks>>

\* A peer has the block and its SyncReply arrives, which is handled as a
\* proposal.
SyncReply(d) ==
  /\ d \in asked
  /\ process_block(d, certified \cup ({d - 1} \ {0}), 2 * MaxInner)
  /\ asked' = asked \ {d}
  /\ UNCHANGED loopBacks

LoopBack(d) ==
  /\ d \in loopBacks
  /\ process_block(d, certified, 2 * MaxInner)
  /\ loopBacks' = loopBacks \ {d}
  /\ UNCHANGED asked

\* process_qc of a timeout: the QC of a block that may not have arrived, which
\* is one of this chain (the code does not compare: module Chain).
HandleTimeout(d) ==
  /\ d \notin certified
  /\ certified' = certified \cup {d}
  /\ UNCHANGED <<mode, stored, lastCommitted, suspended, inner, task, asked, loopBacks>>

\* A TC: the epoch of the chain is ending.
ViewChange ==
  /\ mode = "epoch"
  /\ mode' = "viewChange"
  /\ UNCHANGED <<stored, certified, lastCommitted, suspended, inner, task, asked,
                 loopBacks>>

\* The output branch of update_aba_phase: every iteration asks for the block
\* of the output height until it is in the store, then commits it.
OutputPhase(h) ==
  /\ mode = "viewChange"
  /\ h \in certified
  /\ IF h \in stored
     THEN /\ mode' = "past"
          /\ lastCommitted' = CommittedTo(stored, certified, h)
          /\ Send(commit_prev_block(stored, certified, h), MaxInner)
     ELSE /\ Send(<<Request(h, None)>>, MaxInner)
          /\ UNCHANGED <<mode, lastCommitted>>
  /\ UNCHANGED <<stored, certified, suspended, task, asked, loopBacks>>
-----------------------------------------------------------------------------
(***************************************************************************)
(* The task of the synchronizer.                                           *)
(***************************************************************************)
RecvTwice ==
  LET d == Head(inner).digest
      b == Head(inner).block
  IN  /\ inner # <<>>
      /\ inner' = Tail(inner)
      /\ IF d \in stored THEN UNCHANGED <<task, asked>>
         ELSE /\ waiting' = [waiting EXCEPT ![d][b] = @ + 1]
              /\ pending' = pending \cup {d}
              /\ demands' = IF b = None THEN demands
                            ELSE [demands EXCEPT ![b] = @ \cup {d}]
              /\ asked' = IF b = None THEN asked ELSE asked \cup {d}
      /\ UNCHANGED <<mode, stored, certified, lastCommitted, suspended, loopBacks>>

\* A request of the core.  It is passed over when the block is in the store
\* by now and when it is already being requested, for whichever block that
\* was.  A request made for no block goes to the node itself, which has no
\* answer to give.
Recv ==
  LET d == Head(inner).digest
      b == Head(inner).block
  IN  /\ inner # <<>>
      /\ inner' = Tail(inner)
      /\ IF d \in stored \cup pending THEN UNCHANGED <<task, asked>>
         ELSE /\ waiting' = [waiting EXCEPT ![d][b] = @ + 1]
              /\ pending' = pending \cup {d}
              /\ demands' = IF b = None THEN demands
                            ELSE [demands EXCEPT ![b] = @ \cup {d}]
              /\ asked' = IF b = None THEN asked ELSE asked \cup {d}
      /\ UNCHANGED <<mode, stored, certified, lastCommitted, suspended, loopBacks>>

CompleteStays(d, b) ==
  /\ waiting[d][b] > 0
  /\ d \in stored
  /\ waiting' = [waiting EXCEPT ![d][b] = @ - 1]
  /\ IF b = None THEN UNCHANGED <<demands, loopBacks>>
     ELSE /\ demands' = [demands EXCEPT ![b] = @ \ {d}]
          /\ loopBacks' = IF demands[b] \subseteq {d} THEN loopBacks \cup {b}
                          ELSE loopBacks
  /\ UNCHANGED <<core, pending, asked>>

\* A waiter whose block d is in the store completes.  The code unwraps the
\* entry of b in `demands' (Demanded).  Only a failing store would make it
\* return an error, after which d would stay in `pending' without a waiter.
Complete(d, b) ==
  /\ waiting[d][b] > 0
  /\ d \in stored
  /\ waiting' = [waiting EXCEPT ![d][b] = @ - 1]
  /\ pending' = pending \ {d}
  /\ IF b = None THEN UNCHANGED <<demands, loopBacks>>
     ELSE /\ demands' = [demands EXCEPT ![b] = @ \ {d}]
          /\ loopBacks' = IF demands[b] \subseteq {d} THEN loopBacks \cup {b}
                          ELSE loopBacks
  /\ UNCHANGED <<core, asked>>

NoRetry(d) == FALSE /\ UNCHANGED vars

RetryOnce(d) ==
  /\ d \in pending \ asked
  /\ asked' = asked \cup {d}
  /\ pending' = pending \ {d}
  /\ UNCHANGED <<core, waiting, demands, loopBacks>>

\* The timer: a digest that has been pending for long is asked of everyone.
Retry(d) ==
  /\ d \in pending \ asked
  /\ asked' = asked \cup {d}
  /\ UNCHANGED <<core, task, loopBacks>>

\* The network loses a request or the answer.
Lose(d) ==
  /\ d \in asked
  /\ asked' = asked \ {d}
  /\ UNCHANGED <<core, task, loopBacks>>
-----------------------------------------------------------------------------
Init ==
  /\ mode = "epoch"
  /\ stored = {}
  /\ certified = {}
  /\ lastCommitted = 0
  /\ suspended = {}
  /\ inner = <<>>
  /\ waiting = [d \in Digest |-> [b \in Requester |-> 0]]
  /\ pending = {}
  /\ demands = [b \in Digest |-> {}]
  /\ asked = {}
  /\ loopBacks = {}

Next ==
  \/ ViewChange
  \/ Recv
  \/ \E d \in Digest : \/ HandleProposal(d)
                       \/ SyncReply(d)
                       \/ LoopBack(d)
                       \/ HandleTimeout(d)
                       \/ OutputPhase(d)
                       \/ Retry(d)
                       \/ Lose(d)
                       \/ \E b \in Requester : Complete(d, b)

\* Both loops run; the timer fires again and again; and a request repeated
\* for ever is answered, since a correct node that voted for a certified
\* block has it.
Fairness ==
  /\ WF_vars(Recv)
  /\ \A d \in Digest : /\ WF_vars(LoopBack(d))
                       /\ WF_vars(Retry(d))
                       /\ SF_vars(SyncReply(d))
                       /\ \A b \in Requester : WF_vars(Complete(d, b))

Spec == Init /\ [][Next]_vars

FairSpec == Spec /\ Fairness
-----------------------------------------------------------------------------
(***************************************************************************)
(* Properties.                                                             *)
(***************************************************************************)
TypeOK ==
  /\ mode \in {"epoch", "viewChange", "past"}
  /\ stored \subseteq Digest
  /\ certified \subseteq Digest
  /\ lastCommitted \in 0 .. MaxBlock
  /\ suspended \subseteq Digest
  /\ inner \in Seq([digest : Digest, block : Requester])
  /\ waiting \in [Digest -> [Requester -> Nat]]
  /\ pending \subseteq Digest
  /\ demands \in [Digest -> SUBSET Digest]
  /\ asked \subseteq Digest
  /\ loopBacks \subseteq Digest

\* When a waiter completes, the block it works for has its entry in
\* `demands', so the unwrap in the synchronizer never panics.
Demanded ==
  \A d, b \in Digest : waiting[d][b] > 0 => d \in demands[b]

\* No missing parent is forgotten: it is on its way to the synchronizer or
\* being requested, whatever requests were passed over or came in between.
ParentTracked ==
  \A d \in stored :
    \/ d - 1 \in stored \cup {0} \cup pending
    \/ \E i \in 1 .. Len(inner) : inner[i].digest = d - 1

\* A digest is pending exactly as long as one waiter waits for it, and there
\* is never a second one.  A digest that stayed pending without a waiter
\* would be passed over for ever.
OneWaiter ==
  /\ \A d \in pending : \E b \in Requester : waiting[d][b] > 0
  /\ \A d \in Digest, b \in Requester : waiting[d][b] > 0 =>
       /\ d \in pending
       /\ waiting[d][b] = 1
       /\ \A c \in Requester \ {b} : waiting[d][c] = 0

\* The store of a node ends up with every ancestor of every block in it, in
\* spite of lost requests and answers.
AncestorsFetched ==
  \A d \in Digest : d \in stored ~> (1 .. d) \subseteq stored

\* A block that stopped at a missing ancestor is resumed with its ancestors
\* (what the comment in process_block_prepare says of the synchronizer).
Resumed == \A d \in Digest : d \in suspended ~> d \notin suspended
=============================================================================
