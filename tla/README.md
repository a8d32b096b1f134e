# hotstuff-DAG-4: specification, model checking and proofs

This directory holds TLA+ modules that model the consensus core and the mempool
of the repository, the TLC configurations that check them on small instances,
and proofs that TLAPS checks. `PROJECT.json` maps every definition to the source
lines it models and lists the runs, the mutants, the findings, the hazards and
the theorems.

## 1. The system

Every authority runs a chain of blocks of its own and votes on the chains of the
others (HotStuff with a 2-chain commit rule). One chain at a time is the
leader's: committing one of its blocks also commits the blocks of the other
chains it references, which makes one total order of the DAG. When another chain
gets `LAMBDA_VAL` heights ahead of the leader's, the nodes time out, put the
greatest QC height they know of into a binary agreement (TCVBA) and end the epoch
at the height it outputs. The chain of the old leader restarts some heights above
it and the next authority leads.

| part | source | state | operations | hard behaviour |
|---|---|---|---|---|
| committee, leader | `consensus/src/config.rs`, `leader.rs` | stakes, keys | thresholds, `get_leader` | quorum intersection, rounding |
| chains, votes, view change | `consensus/src/core.rs` | per chain: `height`, `last_voted_height`, `last_committed_height`, `high_qc`, `height_to_digest`, `epoch`; per node: `epoch`, `is_view_change`, `tc_cache` | `handle_proposal`, `handle_vote`, `handle_timeout`, `handle_tc`, `check_timeout`, `update_aba_phase` | equivocation, votes racing timeouts, late QCs, epoch change at different moments |
| TCVBA | `consensus/src/core.rs` | `phase`, `aba_round`, `bin_values`, five caches, sent-once flags, output | `handle_aba_val`, `handle_coin_share`, `handle_aba_proof`, `process_aba_phase` | steps only when messages arrive, two decision rules, values that are heights but compared by parity |
| commit | `consensus/src/core.rs` | `last_committed_height` of all chains, `to_commit` | `commit`, `commit_prev_block` | stops half-way, works on copies of chains |
| aggregators | `consensus/src/aggregator.rs` | votes per height, per epoch, per value | `append` of four makers | made once, at exact weights |
| block synchronizer | `consensus/src/synchronizer.rs` | `pending`, `demands`, waiters | request, completion, timer | two tasks, lost messages, checks that are stale when used |
| mempool | `mempool/src/core.rs`, `synchronizer.rs`, `payload.rs`; `consensus/src/mempool.rs` | two queues, `pending`, `requests`, waiters | own and other payloads, `get`, `verify`, `cleanup` | cancelled waiters, cleanup across chains, full queues |
| store | `store/src/lib.rs` | database, command channel, obligations | `write`, `read`, `notify_read` | writes that return before they are made, lost wake-ups, callers that give up |
| network, filter | `network`, `consensus/src/filter.rs` | connections | send | loss when a connection fails, delay |

Parts interact through channels. A node's core loop takes one message, runs its
handler to the end, then `update_aba_phase`, then `check_timeout`. It calls the
mempool and waits for the answer; it asks the synchronizer and does not wait: the
answer is a `LoopBack` in its own channel. All tasks share the store.

What makes each part correct:

* chains: one certified block per height, the same block delivered at a height by
  all, what is delivered is a chain of parents, and the view change loses nothing
  that was committed;
* TCVBA: the outputs agree, are inputs, and come;
* commit: one order across epochs, nothing skipped, nothing twice;
* store: calls act as if at once, and nobody waits for what is there;
* synchronizers: no missing block or payload is forgotten, a suspended block comes
  back, complete, and the task never panics.

## 2. The modules

| module | models | checked by |
|---|---|---|
| `Committee` | thresholds and quorums | extended by `Chain`, `TCVBA` |
| `Chain` | the chain of the leader of epoch 0 at every node, to the restart in epoch 1, with nodes that crash and start again | `MCChain` and three configurations |
| `TCVBA` | one epoch of the agreement at every live node | `MCTCVBA` and three configurations |
| `Synchronizer` | core and synchronizer task of one node | two configurations |
| `Commit` | commit at one node for the chains of two leaders and the others, over two epochs | `MCCommit` and two configurations |
| `OrderedBlocks` | abstract: the application sees ever more of one sequence | implemented by `Commit` |
| `Mempool` | mempool core and payload synchronizer of one node | `MCMempool` |
| `Store` | the store task, its channel and its calls | `MCStore.cfg` |
| `AtomicStore` | abstract: a store whose calls act at once | implemented by `Store` |
| `CommitteeProofs`, `ChainProofs`, `DeliveryProofs`, `CommitProofs`, `SynchronizerProofs`, `StoreProofs`, `MempoolProofs`, `TCVBAProofs` | the theorems | TLAPS |

**Chain.** The state of a node is a record with the fields of `Chain` and the part of
`Core` they depend on. Each handler is an operator from record to record with the name
of the Rust function. An action is one iteration of the loop: the handler, the output
branch of `update_aba_phase` (`AdvanceEpoch`), `check_timeout`. A block is its index in
the sequence `blocks`, a QC the digest it certifies, and `height_to_digest` the set
`certified`. There is no message pool: a vote is in `voted` of its author and a timeout
in `timeouts`, so every message may arrive late, twice, out of order or never. Faulty
authorities (at most f) sign anything; a faulty author proposes any block whose QC
verifies, of epoch 0 or early of the next one, and its part of a TC names any height up
to `MaxHeight`. `QC::verify`, `Timeout::verify` and `Block::verify` check signatures and
compare neither the author of the certified block nor the epoch with the chain. So
`blocks` also holds blocks of `OtherAuthors` (`OtherBlock`), whose QCs faulty
authorities may attach to timeouts and to blocks of this chain; they enter `highQC` and
`certified` like any other, and a node may deliver the block (`StoreOther` puts it in
its store). `QCUnique` and `DeliveredAgree` speak of the author's own blocks and hold
all the same. `DeliveredLinked`, `CommittedSurvive` and `RestartAboveVotes` say in so
many words what they need beyond that: `OneChain`, that no such QC was attached, and
`Orderly`, that besides the author did not restart and, when faulty, sent no block of
the next epoch early. Without these conditions the code does not promise them. The votes
of a faulty authority name blocks that were proposed: one for an unknown digest would
only make the author assemble a QC nobody can verify (a hazard listed for
`aggregator.rs`). The agreement is assumed to give all nodes the height of one TC; this
is what `TCVBA` examines, and finding 1 says when it fails. After the epoch change only
the old leader's chain is followed, in epoch 1.

`Restart` is a crash and a new start. `Core::new` reads nothing back (the TODO
beside `make_vote`, `core.rs:223`), so the record of the node is that of a new one;
its store remains, and so does what others have of it: its votes, its timeouts and
what its application has seen. An author that restarts proposes height 1 again. A
restarted node can vote twice at a height, so it counts against the same f as the
faulty ones (the guard of `Restart`): if more than f nodes could restart, two blocks
of height 1 could both be certified, and `QCUnique` would be false. `Steady` are the
correct nodes that never restarted; `FrozenAfterTimeout` and `RestartAboveVotes` are
promises about them. An author that restarted may count votes for its old and its new
block of a height as one QC, certify it and deliver what nobody else will: such an
author is not among the `Observers`, the nodes whose deliveries must agree (the author
is one when the chain is `Orderly`).

**TCVBA.** The record of a node has the fields of `Core` that the agreement uses.
`sent` is its broadcasts in order; `handled[n][m]` counts those of m that n has
handled, since the sender keeps one connection per peer and the filter delays
proposals only. The coin of a round is a constant: the threshold signature makes
it the same for all, and unknown before f + 1 shares. Authorities outside `Active`
have crashed; a lying authority is not modelled. A height is a natural number,
and its parity is what the code compares with the coin.

**Synchronizer.** The blocks of one chain, `d - 1` being the parent of `d`. The
requests and LoopBacks are the two channels; `waiting[d][b]` counts the futures
that wait for `d` on behalf of `b`; `asked` holds what a peer may still answer.
`suspended` is the set of the blocks whose `process_block_prepare` returned `None`
last time. The store does not fail here, so the `Err` arm for a waiter
(`synchronizer.rs:103`), which would leave a digest in `pending` without a waiter, is
not taken. Like `Commit`, the module takes from a timeout only QCs of the leader's own
chain (`OneChain` of `Chain`).

**Commit.** A block is `<<chain, height>>` (Chain shows that a height has one
certified block). `decided` and `references` are chosen at the start: the height at
which epoch 0 ends, and what the blocks of the two leaders reference, among the
tables that `generate_proposal` can produce. The next leader may reference heights of
the ended chain that lie below its restart, because a late block of epoch 0 puts its
QC back into `high_qc`. `commit_ref` is the recursive call for one reference: it works
on a copy of the chain that is put back only on success. `order` is what the
references define, computed without any commit: before each block of a leader, chain
by chain, the blocks that it is the first to reference. Every node should send the
blocks in that order; `ImplementsOrdered` says that what this one sends is a growing
prefix of it. The one exception is in the code: the epoch advances even when the
commit at its end stopped half-way (`core.rs:1030`), and the node then skips blocks.
`cut` remembers how much had been sent by then, and the properties speak of that
part.

**Store.** A command is in the channel from the moment `send` returns. `obligations`
holds the notify_reads of each key, and `status` whether the caller still waits; one
that gives up (the cancelled waiter of the mempool) leaves its oneshot channel behind.
`Outcome` computes what a pending call will return from the commands that are before
and after it in the channel: this is the refinement mapping to `AtomicStore`, in
which a call takes effect when it is made. The other modules use the store that way,
as a set that grows. A failing `put` or `get` of the database is not modelled.

**Mempool.** Payloads are digests. A waiter carries whether `pending` still holds
its cancel handler; when that is dropped the waiter may still deliver, as the
`select!` in `waiter` allows. `handed` are the payloads that `get_payload` returned to
the consensus core, from the queues (`GetQueued`) or made on the spot (`GetMade`), and
`committed` those of the blocks cleaned up after. A payload made on the spot meets empty
queues, so it is refused only when `queue_capacity` is 0.

Definitions named in the head comment of a module as "not part of the
specification" are mistakes on purpose: `PROJECT.json` pairs each property with
one of them, and TLC must find the property violated with it.

## 3. Runs

| run | shows | states |
|---|---|---|
| `chain_view_change` | correct leader, one faulty voter, two impatient nodes: nothing committed is lost, the restart is above every old block, a timed-out node stops voting in the epoch | 587 thousand |
| `chain_equivocation` | faulty leader with two blocks of height 1 and the blocks that commit one of them, or with two blocks over the QC of another author's block: one QC per height, and the 2-chain of one node agrees with the end of the epoch at another | 364 thousand |
| `chain_loop_back` | the author or a starved node restarts, four blocks, ancestors and payloads missing: one QC per height, deliveries form a chain of parents | 418 thousand |
| `tcvba_rounds` | one crash, one node late in view change, contested TCs and two rounds with different coins: validity, the coin after the AUX quorum, and every live node outputs | 983 thousand |
| `tcvba_agreement` | four running nodes, TCs of two heights, two nodes that fall behind: agreement, with rounds that accept two values and nodes that miss the proof others decided with | 213 thousand |
| `sync_fetch` | three blocks, loss, view and epoch change: panic freedom, tracking, one waiter, and the store closed under ancestors in the end | 193 thousand |
| `commit_order` | three chains, two leaders, late blocks across the epoch change: one order, nothing skipped but what the agreement gives up | 1.6 million |
| `store` | two keys, two values, a read, two notify_reads, a channel of three: `AtomicStore` is implemented, no wake-up is lost, every call is answered | 614 thousand |
| `mempool` | three blocks sharing payloads, cleanup, loss, full queues: blocks come back, and with all their payloads; own payloads are neither lost nor proposed twice | 598 thousand |

Three runs end in a violation, each a disagreement between the code and what a
comment or test of the repository says (`findings`):

1. `tcvba_split` (`core.rs:892`): a round that accepted two values goes on with the
   bare coin, and the nodes may output a height (0 or 1) that nobody put in.
2. `sync_resume` (`synchronizer.rs:57`): a suspended block whose request is passed
   over never gets its `LoopBack`.
3. `commit_once` (`core.rs:248`): a commit that stops inside a reference sends
   blocks that a later commit sends again.

Finding 1 quotes the test of the agreement, which is commented out as a whole at this
commit; it is the only place that says what the agreement should do. For the same reason
another behaviour is a hazard (`core.rs:954`) and not a finding: with four running nodes
the AUX values may split two to two, and then there is no AUX proof, no coin share and no
output, though no node fails and every message arrives.

**Bounds.** `LAMBDA_VAL` and `NEXT_EPOCH_HEIGHT` are 10 in the code and 1 and 3 in the
runs. What matters of them is that the restart is above every block of the old epoch:
the leader's chain is at most two heights above the greatest QC of a quorum of timeouts,
hence 3. Four nodes and f = 1 give the smallest committee with a quorum intersection;
two blocks at one height, or three in a 2-chain with a commit, are the smallest
equivocation and commit, and `chain_equivocation` has both at once: four blocks, the
heights of which `Fork` (MCChain) fixes as 1, 1, 2, 3, in epoch 0. In its other half,
`Attach`, they are 1, 1, 2, 2, the second of another author and the last of epoch 1, and
the agreement outputs 2, the height that delivers most. Both let the faulty author
propose as early as it can, which only adds to what the nodes may receive, and a timeout
bring a QC only to a node that has timed out. `Impatient` and `Starved` restrict who
times out or misses a payload, `Restarting` who crashes; `InOrder` (MCChain) lets only
the nodes that starve or restart see blocks out of order. `Settled` (MCChain) follows a
node after its epoch change only through its votes; `Prompt`, `InStages` and `Staggered`
(MCTCVBA) fix part of the schedule. TCs are exchanged before values in `tcvba_rounds`.
`tcvba_split` explores some schedules only, which is enough for a counterexample. With
three of four authorities running every quorum is all of them, so `tcvba_rounds` says
nothing of two accepted values; that is the case of `tcvba_agreement`, in which all four
run, n1 and n2 take the messages kind by kind, and n3 and, for round 1, n2 may take
theirs late and in any order. States in which a node accepted both values, has left for
round 2 while others decided in round 1, or decides in round 2 are all reached; in none
of them do two nodes decide in different rounds. `MaxInner` bounds the channels (10000
in the code) and leaves room for the answers. In `Commit` the first leader has three
blocks, of which one is committed through the 2-chain and one or two by the agreement,
so that one or two are given up; the second has four, of which two are committed in
epoch 1; the third chain is referenced two heights at a time, so that a commit can stop
inside a reference. `InOrder` (MCCommit) delivers the second leader's blocks in order
and takes from timeouts only the QC that matters, that of the height decided. In `Store`
three commands are enough for a write, a call and a write of the same key to wait
together. Symmetry is used only in runs without liveness and between nodes that play the
same role. `CHECK_DEADLOCK FALSE` is given where the bound on blocks or rounds ends a
behaviour; the synchronizer and mempool runs check deadlock.

**Fairness.** `TCVBA`: connections between live nodes deliver, each live node
assembles its TC (its peers broadcast their timeouts), and the loop of each node is
driven again and again, because the other chains keep sending proposals and votes on
the same loop (`[]<>Idle(n)`: weak fairness of `OtherMessage(n)`, which changes
nothing exactly when the node is idle). `Store`: its task runs. `Synchronizer` and
`Mempool`: the loops of both tasks run (weak fairness), the timer fires again (weak
fairness of `Retry`), and a request that is repeated for ever is answered in the end
(strong fairness of the answer), since a certified block is in the store of at least
f + 1 correct nodes. Nothing is assumed of proposals, timeouts, loss or cleanup.

## 4. Proofs

TLAPS proves the following for every value of the constants that satisfies the
named assumptions.

* `QuorumIntersection` (`CommitteeAssumption`: N = 3f + 1, f >= 1): two quorums
  share more than f authorities.
* `TypeCorrect`: `Spec => []TypeOK` for `Chain`.
* `CertifiedUnique`: `Spec => []QCUnique`. `QCUnique` is not inductive: it says
  nothing of how votes are given. The inductive invariant adds that the blocks and
  records are well formed, that a correct node has voted for at most one block of a
  height, and that no vote of it is above its `last_voted_height`; with quorum
  intersection and at most f faulty or restarted authorities two QCs of a height share
  a steady voter, hence a block. A restarted node is excused from both facts, and the
  invariant carries the bound on how many there are. The theorem covers the epoch
  change and the timeouts, which raise `last_voted_height` without a vote, and QCs of
  other authors' blocks, which certify nothing of this author.
* `CommitsSurviveViewChange`, `RestartIsAbove`, `DeliveriesAgree` for `Chain`
  (`CommittedSurvive`, `RestartAboveVotes`, `DeliveredAgree`), for every
  `NEXT_EPOCH_HEIGHT >= 3`. The inductive invariant `Solid` says of every correct node
  that what it certified or delivered has a quorum of votes, and that what it delivered
  is below the decided height or below the parent of a certified block; of every
  node that never restarted that the QC in its timeout is not below the parent of a
  block it voted for. A certified block above the decided height would share a voter
  with the quorum of timeouts that ended the epoch (`EndedBounds`), and that voter's
  timeout contradicts it; hence the blocks of the epoch are at most two heights above
  the decided one (`EndedAbove`). `QCMakerSound` shows that counting votes by height is
  enough for an author whose blocks have distinct heights. `Solid` is about an author
  that does not restart: one that does proposes its first height again and may collect
  votes for two digests in one QC. It may be faulty, since the nodes verify its QCs, but
  the chain must be `Orderly`: with QCs of other authors or blocks of the next epoch in
  epoch 0, a block can be certified or committed without the quorum at its parent from
  which `EndedBounds` starts. The proof of a step assumes that the chain is orderly after
  it, since it was so before (`OrderlyBefore`). `CommittedSurvive` is a promise about an
  orderly chain, `RestartAboveVotes` about a steady author and `OneChain`.
  `DeliveredAgree` needs neither: `Certified`, a second invariant, says that what the
  nodes other than the author certify or deliver has a quorum of votes when it is a block
  of the author, whoever restarts and whatever is attached.
* `DeliveriesLinked`: `Spec => []DeliveredLinked`, in `DeliveryProofs`. Commit goes by
  heights, so the digests enter only at the end: `DeliveredLinked` says nothing of the
  blocks that wait, of the heights a node has not reached, or of the QCs it holds. The
  inductive invariant `Linked` has, for a correct author, that the heights a node
  delivered have no gap up to its `last_committed_height` (`Gapless`); that a block is
  one above the block of its QC, or has no QC and is the first of its epoch, and that
  those of epoch 1 are at least `NEXT_EPOCH_HEIGHT` above the end of epoch 0
  (`Joined`, `Above`); and that a node stores, holds back and votes for blocks with
  valid QCs only (`Stocked`). So the QC of a certified block is valid, since a steady
  voter other than the author checked it (`ParentValid`), and by `QCUnique` the block
  it names is the one delivered below. No commit crosses the epoch change, since no
  block two heights above the end of epoch 0 can be certified (`EpochGap`). The
  theorem holds whoever restarts, the author too, which is then excused itself, and
  whatever the faulty ones send but a QC of another author's block (`OneChain`).
* `TimeoutFreezesVotes`: `Spec => FrozenAfterTimeout`, for every author. A node that
  sent its timeout is in view change or in the next epoch, which each handler keeps.
  One lemma per step (`NextKeeps`) serves this theorem and `Certified`.
* `TypeCorrect`, `UnwrapSafe`, `ParentNeverForgotten`, `OneWaiterEach` for
  `Synchronizer`. The last three come from one inductive invariant: types, `OneWaiter`,
  `Demanded` and `ParentTracked` together. None is inductive alone: that an entry of
  `demands` is there when a waiter completes needs that the waiter is the only one,
  and that a parent stays tracked when its waiter completes needs that the waiter's
  block is in the store. The lemmas follow the operators: what is appended to the
  channel, what `get_ancestors` and the commit ask for, then one lemma per action.
  Types alone need that a commit which walks back over missing ancestors stops at a
  block of the chain (`CommitStops`).
* `TypeCorrect`, `OwnPayloadsProposedOnce`, `ResumedWithPayload`, `PendingHasOneWaiter`
  for `Mempool`. That an own payload is neither lost nor proposed twice needs that it is
  made before it is stored, so that it enters the queue or a block once. That a
  `LoopBack` brings a block whose payloads are all in the store is decided long before:
  the invariant follows what is missing of a block from the message of `Verify` to the
  waiter (`Covered`). That `pending` agrees with the
  waiters needs that a pending block has exactly one waiter whose handler lives, and
  that a live waiter is of a pending block (`Handlers`), whichever of the two the
  `select!` lets win when a handler is dropped.
* `TypeCorrect`, `InOrder`, `NothingSkipped` for `Commit`, for any number of chains of
  any height and any references (`CommitAssumption`). None is inductive: a commit
  works on heights, and whether what it sends follows what was sent depends on where
  the blocks are in the order. The proof names the places of the order: past a block of
  the leader and the blocks of the first few chains that its next block references
  (`LaidOut`, `Place`), each with the heights of the chains there (`Mark`) and how many
  blocks come before. Two facts carry it. First, at a place the order has exactly the
  blocks below the heights, each once (`EpochExact`), and the epoch change, which skips
  the heights that the agreement gives up, adds none (`ExactJumps`); so no block is in
  the order twice. Second, a commit that starts at a place puts in `to_commit` a part
  of the order that begins there, and leaves the heights at a place not past the end
  of that part, also when it stops inside a reference (`PrevArrives`). The inductive
  invariant `IInv` is then that the application has seen the start of the order, at
  least to the place at which `last_committed_height` is; what a stopped commit sent
  beyond that place is sent again later and keeps its place (`SendInOrder`). Only a
  stop in the commit that ends the epoch breaks this (`Broken`): the heights are then
  raised though the blocks were not sent, and from there on the code promises nothing.
  The order and the commits are folds. The provers have no induction over data, so
  `FoldExists` builds the function inside a fold once, by the least number for which
  there is none, and the lemmas about folds cite the values that it goes through.
* `CommitImplementsOrdered`: `Spec => ImplementsOrdered`. What the application has seen
  is the start of the order (`OrderedStarts`) and what a step leaves extends it
  (`OrderedGrows`), hence each step is `SeeMore` or a stutter.
* `TypeCorrect`, `CoinIsLate`, `AuxProofsAgree`, `Unanimity` for `TCVBA`, for any
  committee, heights and coins. The inductive invariant `Global` says of each node that
  it counts its own broadcasts, broadcasts one AUX value in a round and a coin share
  only with an AUX proof, and of the others that they hold no vote and no share that
  its author does not answer for. Hence the coin stays hidden until a quorum sent
  one AUX value; two AUX proofs of a round are of one value, since two quorums
  share a node; and, with the set of values cut down to one height, every output is
  that height, so that `Agreement` and `Validity` hold when all TCs carry the same
  height. `OneAuxValue` is no property of a run: among three live nodes of four only
  one value is ever accepted in a round, so no run of that size could see it fail.
* `AgreementWithCrashes` for `TCVBA`: `Spec => []Agreement` when the authorities that
  run are a bare quorum, for any committee, heights and coins: the case that the run
  `tcvba_agreement`, in which all run, leaves out. `Agreement` says nothing of why a
  node that has not decided will not decide otherwise. The inductive invariant
  `Decides` adds to `Global` that each node counts an AUX value once, since its
  connections deliver each broadcast once (`Delivered`); that it accepted its own AUX
  value and has an AUX proof as soon as it has the AUX values of all (`Tallies`); and
  that it left a round only with the AUX values of all, of the wrong parity, while
  outputs, proofs and coins are of rounds in which somebody has the AUX values of all
  (`Outcome`). With a bare quorum an AUX proof is made of the AUX values of all nodes
  (`ProofIsFull`), and whoever enters the phase of the coin has counted as many, so
  that it has the proof (`EnterPhasesLeads`) and accepted its value. So each node
  compares the same value with the coin: in the round in which the parities match all
  decide, and none has passed it (`DecidesAgree`).

* `TypeCorrect` and `NoLostWakeUp` for `Store`: both are inductive together. A
  notify_read unwraps the value it is sent, and never waits for a key that is there.
* `StoreImplementsAtomic`: `Spec => Implements`, the refinement of `AtomicStore`. Its
  invariant says where the calls are: the command of a call is in the channel at most
  once, a pending call is in the channel or in the obligations of its key and never in
  both. The rest is about the mapping, which reads the outcome of a call off the
  channel: a command appended to it changes only outcomes that are open, and only by a
  write of the key; a command served at its front changes none but that of the calls
  it answers. `StoreProofs` states this with the channel as a parameter (lemmas
  `AppendContent` to `WaitResolved`) and then has one lemma per action: a write is
  `Write`, a call is `Invoke`, a command served is `Return` of the calls it answers,
  of none when a notify_read moves to the obligations.

Only model-checked: liveness (`Termination`, `AncestorsFetched`, `Resumed`,
`Answered`), which is out of this prover's reach. `Validity` of `TCVBA` is proved when
all TCs carry one height and is false otherwise (finding 1). `Agreement` is proved in
that case and when f authorities have crashed. In between, with different heights and
more than 2f + 1 authorities running, it is not proved: an AUX proof then leaves out some
nodes, and such a node must have accepted the value of the proof before it goes on to the
next round. Because a round keeps only the last value with a proof (`cache1`, `cache2`),
that depends on how the connections interleave; `tcvba_agreement` checks it for four
nodes, two heights, two rounds and the schedules of `Staggered`.

`SentInOrder` follows from `ImplementsOrdered`; it is kept as the form one can read.
`Resumed` of `Mempool` leaves out the blocks that a cleanup concerns, for which the code
gives no such promise. `chain_loop_back` has no timeout and no faulty node: that QCs of
timeouts keep the chain of parents is in `DeliveriesLinked` alone.

## 5. Not modelled

Cryptography (ideal), the encoding of messages, the database, TCP, the client and the
front that accepts transactions, configuration and start-up, the benchmark scripts. A
node that restarts during the agreement: its state is lost as in `Chain`, but `TCVBA`
has only crashes. In `Commit` and `Synchronizer`, QCs of one chain that are attached in
another (`Chain` has them). A store that fails. What a node does after it ended an epoch
with a commit that stopped half-way. Stakes other than 1 and committees other than 3f +
1.

## 6. Plan

Done, in this order: `Committee`, `Chain`, `TCVBA`, `Synchronizer`, `Commit`,
`Mempool`, the proofs; then restarts in `Chain`, two epochs and the abstract `OrderedBlocks`
in `Commit`, `Store` and `AtomicStore`, and the proofs about both. Next:

1. several epochs of the agreement: a node that waits to apply its output drops the
   messages of the next epoch, and nodes still in view change refuse the restarted
   chain;
2. an abstract specification of the agreement, implemented by `TCVBA` for the inputs
   where it holds and used by `Chain`;
3. lying authorities in `TCVBA`;
4. the connections of the network, whose loss and reordering the modules assume;
5. the invariant that `Agreement` of `TCVBA` needs with more than 2f + 1 authorities
   running and different heights;
6. what a QC of another chain, or a block of the next epoch that comes early, does to
   the commits of all chains in `Commit`.
