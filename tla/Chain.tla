-------------------------------- MODULE Chain --------------------------------
(***************************************************************************)
(* The chain of the author that leads epoch 0, as every node replicates it *)
(* (struct Chain and the HotStuff half of Core, consensus/src/core.rs),    *)
(* from the first proposal through the view change to the epoch in which   *)
(* the chain restarts under another leader.                                *)
(*                                                                         *)
(* One action is one iteration of the loop of Core::run: the handler of a  *)
(* message, then update_aba_phase, then check_timeout.  A handler is an    *)
(* operator from the record of the node to its next record, and so are the *)
(* functions it calls.                                                     *)
(*                                                                         *)
(* A block is known by its digest: its index in the sequence `blocks', 0   *)
(* being the digest of the genesis block.  A QC is the digest it           *)
(* certifies.  Votes and timeouts are not in a message pool: they are what *)
(* their senders remember having sent, so they may be received late, out   *)
(* of order, or never.  The binary agreement (module TCVBA) appears only   *)
(* through the value it gives every node, that of a TC.                    *)
(*                                                                         *)
(* The other chains appear through the height of the longest one and       *)
(* through the blocks whose QCs a faulty authority attaches to a timeout   *)
(* or a block of this chain: the code accepts a valid QC whoever proposed  *)
(* what it certifies.  A block comes with its author for that reason.      *)
(*                                                                         *)
(* MayVoteTwice, MayVoteAnyView, commit_head and advance_epoch_below are   *)
(* not part of the specification: each is the definition after it with a   *)
(* mistake in it, to see which property notices.                           *)
(***************************************************************************)
EXTENDS Committee, Sequences

CONSTANTS
  Faulty,           \* the authorities that do not run this code
  Restarting,       \* bound: those that may crash and start again
  Author,           \* the author of the chain, leader of epoch 0
  LAMBDA_VAL,       \* how far another chain is ahead before a node times out
  NEXT_EPOCH_HEIGHT,\* how far past the decided height the chain restarts
  MaxHeight,        \* bound: no block above this height is proposed in epoch 0
  MaxBlocks,        \* bound: the number of blocks of the chain
  OtherHeights,     \* bound: the heights the longest other chain may reach
  OtherAuthors,     \* bound: the authors of other chains whose QCs are attached
  Impatient,        \* bound: the nodes that see another chain get ahead
  Starved           \* bound: the nodes whose mempool may miss a payload

None == -1

ASSUME ChainAssumption ==
  /\ Author \in Node
  /\ Faulty \subseteq Node
  /\ Restarting \subseteq Node
  /\ Cardinality(Faulty) <= MaxFaulty
  /\ LAMBDA_VAL \in Nat
  /\ NEXT_EPOCH_HEIGHT \in Nat /\ NEXT_EPOCH_HEIGHT >= 3
  /\ MaxHeight \in Nat
  /\ MaxBlocks \in Nat
  /\ OtherHeights \subseteq Nat
  /\ OtherAuthors \subseteq Node \ {Author}
  /\ Impatient \subseteq Node
  /\ Starved \subseteq Node

VARIABLES
  node,      \* the record of each node
  blocks,    \* the blocks of the chain, and of others, in the order they came
  decided,   \* the height the agreement outputs, once some node has it
  restarted  \* the nodes that have crashed and started again

vars == <<node, blocks, decided, restarted>>

Correct == Node \ Faulty

\* The correct nodes that have run from the start.
Steady == Correct \ restarted

Height(bs, d) == IF d = 0 THEN 0 ELSE bs[d].height

\* The state Core::new and Chain::new give a node.  `voted', `timeouts' (the
\* QCs of the timeouts sent) and `delivered' are what others have of it.
NewNode ==
  [epoch |-> 0, isViewChange |-> FALSE, height |-> 1, lastVoted |-> 0,
   lastCommitted |-> 0, highQC |-> 0, certified |-> {}, stored |-> {},
   suspended |-> {}, orphans |-> {}, voted |-> {}, qcVotes |-> {},
   timeouts |-> {}, others |-> 0, delivered |-> {}]

\* QC::verify: a quorum signed the digest, whoever proposed the block.  A
\* faulty authority signs anything; a block of another chain came with its QC.
Voters(d) == {n \in Node : d \in node[n].voted} \cup Faulty

ValidQC(d) == d # 0 /\ blocks[d].author = Author => Voters(d) \in Quorum
-----------------------------------------------------------------------------
(***************************************************************************)
(* Handlers and what they call.                                            *)
(***************************************************************************)
\* advance_height, Aggregator::cleanup and update_high_qc.  `certified' is
\* height_to_digest: inserting a digest replaces the one of the same height.
process_qc(bs, s, q) ==
  LET h == Height(bs, q) IN
  [s EXCEPT !.height    = IF h < @ THEN @ ELSE h + 1,
            !.qcVotes   = IF h < s.height THEN @
                          ELSE {v \in @ : Height(bs, v.hash) > h},
            !.highQC    = IF h > Height(bs, @) THEN q ELSE @,
            !.certified = {d \in @ : Height(bs, d) # h} \cup {q}]

\* make_vote and its guard in process_block_vote: block d is the next of the
\* chain, this chain is not in view change, and no vote was given as high.
IsNext(bs, s, d) ==
  LET b == bs[d] IN
  /\ b.height = s.height \/ b.qc = 0
  /\ s.epoch <= b.epoch
  /\ Height(bs, b.qc) + 1 = b.height \/ b.qc = 0

InViewChange(s) == s.isViewChange /\ s.epoch = 0    \* Author leads epoch 0 only

MayVoteTwice(bs, s, d) == IsNext(bs, s, d) /\ ~InViewChange(s)

MayVoteAnyView(bs, s, d) == IsNext(bs, s, d) /\ bs[d].height > s.lastVoted

MayVote(bs, s, d) ==
  IsNext(bs, s, d) /\ ~InViewChange(s) /\ bs[d].height > s.lastVoted

\* The heights a commit of height h adds: commit_prev_block stops at the
\* first one whose digest or block is missing (references: module Commit).
Committable(bs, s, h) ==
  {k \in (s.lastCommitted + 1) .. h :
     \A i \in (s.lastCommitted + 1) .. k :
       \E d \in s.certified \cap s.stored : Height(bs, d) = i}

commit_head(bs, s, h) ==
  [s EXCEPT !.lastCommitted = h,
            !.delivered = @ \cup {d \in s.certified \cap s.stored : Height(bs, d) = h}]

commit(bs, s, h) ==
  [s EXCEPT !.lastCommitted = @ + Cardinality(Committable(bs, s, h)),
            !.delivered = @ \cup {d \in s.certified \cap s.stored :
                                     Height(bs, d) \in Committable(bs, s, h)}]

\* get_ancestors finds both ancestors of d in the store.
HasAncestors(bs, s, d) ==
  LET b1 == bs[d].qc
  IN  b1 = 0 \/ (b1 \in s.stored /\ (bs[b1].qc = 0 \/ bs[b1].qc \in s.stored))

\* The block get_ancestors asks the synchronizer to resume: the one whose
\* parent is missing, d itself or the parent of d.
Orphans(bs, s, d) ==
  LET b1 == bs[d].qc
  IN  IF HasAncestors(bs, s, d) THEN {} ELSE IF b1 \in s.stored THEN {b1} ELSE {d}

\* process_block_commit: the 2-chain below d commits its head, a block of
\* the leader; what is between them may be of another author.
CommitsHead(bs, s, d) ==
  LET b1 == bs[d].qc IN
  /\ s.epoch = 0                            \* Author leads epoch 0 only
  /\ HasAncestors(bs, s, d)
  /\ ~s.isViewChange
  /\ bs[d].epoch <= s.epoch
  /\ b1 # 0
  /\ bs[b1].qc # 0                          \* the genesis block has no author
  /\ bs[bs[b1].qc].author = Author
  /\ Height(bs, bs[b1].qc) + 1 = Height(bs, b1)

\* handle_vote up to the QC: the vote is dropped below the chain's height
\* and when its author has already voted at its height.
AcceptsVote(bs, s, v) ==
  /\ Height(bs, v.hash) >= s.height
  /\ \A u \in s.qcVotes :
       ~(u.author = v.author /\ Height(bs, u.hash) = Height(bs, v.hash))

add_vote(bs, s, v) ==
  IF AcceptsVote(bs, s, v) THEN [s EXCEPT !.qcVotes = @ \cup {v}] ELSE s

\* QCMaker::append makes a QC: the votes of a height reach the quorum,
\* whatever digest each is for.
MakesQC(bs, s, v) ==
  /\ AcceptsVote(bs, s, v)
  /\ Cardinality({u \in s.qcVotes : Height(bs, u.hash) = Height(bs, v.hash)}) + 1
       >= quorum_threshold

\* process_block: store, commit, vote.  An author that votes for its own
\* block adds the vote to its aggregator (quorum_threshold > 1).
process_block(bs, n, s, d) ==
  LET s1 == [s EXCEPT !.stored = @ \cup {d}, !.orphans = @ \cup Orphans(bs, s, d)]
      s2 == IF CommitsHead(bs, s1, d)
            THEN commit(bs, s1, Height(bs, bs[bs[d].qc].qc))
            ELSE s1
      s3 == [s2 EXCEPT !.lastVoted = bs[d].height, !.voted = @ \cup {d}]
  IN  IF ~MayVote(bs, s2, d) THEN s2
      ELSE IF n = Author THEN add_vote(bs, s3, [author |-> n, hash |-> d])
      ELSE s3

\* handle_proposal; without the payload the mempool suspends the block.
handle_proposal(bs, n, s, d, payload) ==
  LET s1 == process_qc(bs, s, bs[d].qc)
  IN  IF payload THEN process_block(bs, n, s1, d)
      ELSE [s1 EXCEPT !.suspended = @ \cup {d}]

\* generate_proposal: the next block of the chain over certificate q.
NextBlock(s, q) ==
  [author |-> Author, height |-> s.height, epoch |-> s.epoch, qc |-> q]

\* handle_timeout: the QC; the TC is read off the timeouts sent (TCs).
handle_timeout(bs, s, q) == IF s.epoch # 0 THEN s ELSE process_qc(bs, s, q)

advance_epoch_below(bs, s, v) ==
  LET h == v - NEXT_EPOCH_HEIGHT
  IN  [s EXCEPT !.epoch = 1, !.height = h, !.lastCommitted = h - 1, !.highQC = 0,
                !.isViewChange = FALSE]

\* The output branch of update_aba_phase, up to the author's proposal, for a
\* node to which the agreement gives height v.
advance_epoch(bs, s, v) ==
  LET h == v + NEXT_EPOCH_HEIGHT
  IN  [commit(bs, s, v) EXCEPT
         !.epoch = 1, !.height = h, !.lastCommitted = h - 1, !.highQC = 0,
         !.certified = {d \in @ : Height(bs, d) > v}, !.isViewChange = FALSE]

\* check_timeout and local_timeout_round; `tc' when epoch 0 is in tc_cache.
check_timeout(bs, s, tc) ==
  LET s1 == [s EXCEPT !.isViewChange = TRUE,
                      !.lastVoted = IF @ < s.height THEN s.height ELSE @,
                      !.timeouts = @ \cup {s.highQC}]
  IN  IF s.epoch # 0 THEN s
      ELSE IF tc THEN [s EXCEPT !.isViewChange = TRUE]
      ELSE IF s.isViewChange \/ s.height + LAMBDA_VAL >= s.others THEN s
      ELSE handle_timeout(bs, s1, s.highQC)

\* An iteration whose handler leaves n in s and the chain at bs.
Iteration(n, bs, s, tc) ==
  /\ blocks' = bs
  /\ node' = [node EXCEPT ![n] = check_timeout(bs, s, tc)]
-----------------------------------------------------------------------------
Digest == 1 .. Len(blocks)

Heights == 1 .. MaxHeight

\* A proposal of the author, or a sync reply that carries it.
HandleProposal(n, d, payload) ==
  /\ n # Author
  /\ blocks[d].author = Author
  /\ payload \/ n \in Starved
  /\ ValidQC(blocks[d].qc)
  /\ Iteration(n, blocks, handle_proposal(blocks, n, node[n], d, payload), FALSE)
  /\ UNCHANGED <<decided, restarted>>

\* A block of another chain, whose height it may raise: it is stored.
StoreOther(n, d) ==
  LET h == Height(blocks, blocks[d].qc) + 1
  IN  /\ blocks[d].author # Author
      /\ Iteration(n, blocks,
                   [node[n] EXCEPT !.stored = @ \cup {d},
                                   !.others = IF @ < h THEN h ELSE @], FALSE)
      /\ UNCHANGED <<decided, restarted>>

\* The mempool or the synchronizer found what block d was waiting for (a
\* block of another author goes to its own chain).
LoopBack(n, d) ==
  /\ blocks[d].author = Author
  /\ \/ d \in node[n].suspended
     \/ d \in node[n].orphans /\ blocks[d].qc \in node[n].stored
  /\ Iteration(n, blocks,
               process_block(blocks, n, [node[n] EXCEPT !.suspended = @ \ {d},
                                                        !.orphans = @ \ {d}],
                             d), FALSE)
  /\ UNCHANGED <<decided, restarted>>

\* The author receives a vote; a quorum of them makes it propose.
HandleVote(m, d) ==
  LET s  == node[Author]
      v  == [author |-> m, hash |-> d]
      s1 == process_qc(blocks, add_vote(blocks, s, v), d)
      bs == Append(blocks, NextBlock(s1, s1.highQC))
  IN  /\ Author \in Correct
      /\ m # Author
      /\ blocks[d].author = Author
      /\ d \in node[m].voted \/ m \in Faulty
      /\ UNCHANGED <<decided, restarted>>
      /\ IF MakesQC(blocks, s, v)
         THEN /\ Len(blocks) < MaxBlocks
              /\ s1.epoch = 0 => s1.height <= MaxHeight
              /\ Iteration(Author, bs,
                           process_block(bs, Author, s1, Len(bs)), FALSE)
         ELSE Iteration(Author, blocks, add_vote(blocks, s, v), FALSE)

\* The values of the TCs that can be made of the timeouts sent so far: the
\* greatest height in a quorum of them.  TC::verify looks at no QC, so that a
\* faulty authority puts in any height; of a node that restarted, a TC has
\* one of its timeouts.
TCs ==
  LET sent == {Height(blocks, q) : q \in UNION {node[m].timeouts : m \in Correct}}
      any  == IF Faulty = {} THEN {} ELSE Heights \cup {0}
      upTo(v) == {m \in Correct : \E q \in node[m].timeouts : Height(blocks, q) <= v}
  IN  {v \in sent \cup any : upTo(v) \cup Faulty \in Quorum}

\* A timeout of epoch 0 reaches n.  A faulty authority may attach any QC, of a
\* block of another chain too.
\* If it completes a TC at n, that is a HandleTC of n, which may follow.
HandleTimeout(n, m, q) ==
  /\ n # m
  /\ m \in Correct => q \in node[m].timeouts
  /\ ValidQC(q)
  /\ Iteration(n, blocks, handle_timeout(blocks, node[n], q), FALSE)
  /\ UNCHANGED <<decided, restarted>>

\* handle_tc, or the timeout that completes a TC.
HandleTC(n) ==
  /\ TCs # {}
  /\ Iteration(n, blocks, node[n], TRUE)
  /\ UNCHANGED <<decided, restarted>>

\* A message of another chain, whose height it raises to h.  The height is
\* read only while check_timeout may still time out in epoch 0.
OtherMessage(n, h) ==
  /\ n \in Impatient
  /\ h > node[n].others
  /\ ~node[n].isViewChange
  /\ node[n].epoch = 0
  /\ Iteration(n, blocks, [node[n] EXCEPT !.others = h], FALSE)
  /\ UNCHANGED <<decided, restarted>>

\* An iteration in which n applies the output of the agreement: one value
\* for all nodes, the value of a TC.  It waits until n has a block there.
AdvanceEpoch(n, v) ==
  LET s  == node[n]
      s1 == advance_epoch(blocks, s, v)
      bs == Append(blocks, NextBlock(s1, 0))
  IN  /\ s.isViewChange
      /\ s.epoch = 0
      /\ UNCHANGED restarted
      /\ IF decided = None THEN v \in TCs ELSE v = decided
      /\ \E d \in s.certified \cap (s.stored \cup {0}) : Height(blocks, d) = v
      /\ decided' = v
      /\ IF n = Author
         THEN /\ Len(blocks) <= MaxBlocks
              /\ Iteration(n, bs, process_block(bs, n, s1, Len(bs)), FALSE)
         ELSE Iteration(n, blocks, s1, FALSE)

\* A faulty author proposes any block it has a QC for, of epoch 0 or, early or
\* late, of a later one, which are all alike to a node of epoch 0 or 1.
FaultyPropose(e, h, q) ==
  /\ Author \in Faulty
  /\ Len(blocks) < MaxBlocks
  /\ ValidQC(q)
  /\ blocks' = Append(blocks, [author |-> Author, height |-> h, epoch |-> e, qc |-> q])
  /\ UNCHANGED <<node, decided, restarted>>

\* A faulty authority takes the QC of a block of another chain to attach it in
\* this one: a block its voters accepted (make_vote) and the only one of its
\* height with a QC there (QCUnique of that chain).
OtherBlock(a, h, q) ==
  /\ Faulty # {}
  /\ Len(blocks) < MaxBlocks
  /\ ValidQC(q)
  /\ q = 0 \/ Height(blocks, q) + 1 = h
  /\ \A d \in Digest : ~(blocks[d].author = a /\ blocks[d].height = h)
  /\ blocks' = Append(blocks, [author |-> a, height |-> h, epoch |-> 0, qc |-> q])
  /\ UNCHANGED <<node, decided, restarted>>

\* The author proposes its first block before it enters the loop.
FirstBlock == [author |-> Author, height |-> 1, epoch |-> 0, qc |-> 0]

\* Node n crashes and starts again with nothing but its store: Core::new
\* reads neither the epoch nor the heights and votes from it, and the author
\* proposes a first block again (its payload is another one).
Restart(n) ==
  LET s  == [NewNode EXCEPT !.stored = node[n].stored, !.voted = node[n].voted,
                            !.timeouts = node[n].timeouts,
                            !.delivered = node[n].delivered]
      bs == Append(blocks, FirstBlock)
  IN  /\ n \in Restarting
      /\ Cardinality(Faulty \cup restarted \cup {n}) <= MaxFaulty
      /\ restarted' = restarted \cup {n}
      /\ UNCHANGED decided
      /\ \/ /\ n # Author
            /\ blocks' = blocks
            /\ node' = [node EXCEPT ![n] = s]
         \/ /\ n = Author
            /\ Len(blocks) < MaxBlocks
            /\ blocks' = bs
            /\ node' = [node EXCEPT ![n] = process_block(bs, n, s, Len(bs))]

Init ==
  /\ blocks = IF Author \in Correct THEN <<FirstBlock>> ELSE <<>>
  /\ node = [n \in Node |->
               IF n = Author /\ Author \in Correct
               THEN process_block(<<FirstBlock>>, n, NewNode, 1)
               ELSE NewNode]
  /\ decided = None
  /\ restarted = {}

NodeStep(n) ==
  \/ \E d \in Digest : \E payload \in BOOLEAN : HandleProposal(n, d, payload)
  \/ \E d \in Digest : LoopBack(n, d) \/ StoreOther(n, d)
  \/ \E m \in Node, q \in Digest \cup {0} : HandleTimeout(n, m, q)
  \/ HandleTC(n)
  \/ \E h \in OtherHeights : OtherMessage(n, h)
  \/ \E v \in Heights \cup {0} : AdvanceEpoch(n, v)
  \/ Restart(n)

Next ==
  \/ \E n \in Correct : NodeStep(n)
  \/ \E m \in Node, d \in Digest : HandleVote(m, d)
  \/ \E h \in Heights, q \in Digest \cup {0} :
       \/ \E e \in 0 .. 1 : FaultyPropose(e, h, q)
       \/ \E a \in OtherAuthors : OtherBlock(a, h, q)

Spec == Init /\ [][Next]_vars
-----------------------------------------------------------------------------
(***************************************************************************)
(* Properties.                                                             *)
(***************************************************************************)
\* A node that knows the first k blocks.
NodeState(k) ==
  [epoch : 0 .. 1, isViewChange : BOOLEAN, height : Nat \ {0}, lastVoted : Nat,
   lastCommitted : Nat, highQC : 0 .. k, certified : SUBSET (0 .. k),
   stored : SUBSET (1 .. k), suspended : SUBSET (1 .. k),
   orphans : SUBSET (1 .. k), voted : SUBSET (1 .. k),
   qcVotes : SUBSET [author : Node, hash : 1 .. k],
   timeouts : SUBSET (0 .. k), others : Nat, delivered : SUBSET (1 .. k)]

Block(k) == [author : Node, height : Nat \ {0}, epoch : 0 .. 1, qc : 0 .. k]

\* Types; in particular every digest a node or a block holds is the digest
\* of a block that was proposed.
TypeOK ==
  /\ blocks \in Seq(Block(Len(blocks)))
  /\ node \in [Node -> NodeState(Len(blocks))]
  /\ decided \in Nat \cup {None}
  /\ restarted \subseteq Correct

\* The blocks of the author.
Own == {d \in Digest : blocks[d].author = Author}

\* No faulty authority has attached the QC of another author's block in this
\* chain.  The code does not compare the two, and what follows from such a QC
\* in height_to_digest is beyond what the properties with this condition say.
OneChain == \A d \in Digest : blocks[d].author = Author

\* Besides, the author does not restart and, when it is faulty, sends no block
\* of a later epoch: a node still in epoch 0 would count it for its 2-chains.
Orderly ==
  /\ OneChain
  /\ Author \notin restarted
  /\ Author \in Faulty => \A d \in Digest : blocks[d].epoch = 0

\* A height of the chain has one certified block: no two QCs of the same
\* height, whatever a faulty author proposes and in whichever epoch (the
\* `contradicting blocks' of make_vote).
QCUnique ==
  \A d1, d2 \in Own :
    ValidQC(d1) /\ ValidQC(d2) /\ blocks[d1].height = blocks[d2].height => d1 = d2

\* The correct nodes, but for the author unless all is orderly.  One that has
\* restarted proposes heights it used before, may count votes for two of its
\* blocks of a height as one QC, and certifies what no other node will.
Observers == IF Orderly THEN Correct ELSE Correct \ {Author}

\* Correct nodes deliver the same block of the author at a height, through the
\* 2-chain rule of process_block_commit or through the output of the agreement.
DeliveredAgree ==
  \A n, m \in Observers :
    \A d1 \in node[n].delivered \cap Own, d2 \in node[m].delivered \cap Own :
      blocks[d1].height = blocks[d2].height => d1 = d2

\* What a node delivers of a correct author is one chain of parents, though
\* commit_prev_block follows height_to_digest and not the parent digests, as
\* long as no QC of another chain is put there.
DeliveredLinked ==
  OneChain /\ Author \in Correct =>
    \A n \in Observers : \A d \in node[n].delivered :
      \/ blocks[d].height = 1
      \/ /\ blocks[d].qc \in node[n].delivered
         /\ Height(blocks, blocks[d].qc) + 1 = blocks[d].height

\* No block of the leader's chain that a correct node committed is above the
\* height at which the view change ends the epoch: advance_epoch drops none.
CommittedSurvive ==
  Orderly /\ decided # None =>
    \A n \in Correct : \A d \in node[n].delivered : blocks[d].height <= decided

\* The height at which a steady author restarts its chain after the epoch
\* change is above every block it proposed before, so that nobody's
\* last_voted_height stands in the way of the new blocks.
RestartAboveVotes ==
  OneChain /\ Author \in Steady /\ decided # None =>
    \A d \in Digest :
      blocks[d].epoch = 0 => blocks[d].height < decided + NEXT_EPOCH_HEIGHT

\* A node that has sent its timeout does not vote for a block of the epoch it
\* wants to leave, so the QC in its timeout covers all its votes.
FrozenAfterTimeout ==
  [][\A n \in Steady' : node[n].timeouts # {} =>
       \A d \in node'[n].voted \ node[n].voted : blocks'[d].epoch = 1]_vars
=============================================================================
