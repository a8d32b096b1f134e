------------------------------- MODULE Commit -------------------------------
(***************************************************************************)
(* How one node orders the blocks of all chains (commit and                *)
(* commit_prev_block, consensus/src/core.rs).  Committing a block of the   *)
(* leader of the epoch first commits, chain by chain, the blocks that it   *)
(* references and everything below them, as far as the node has them.      *)
(*                                                                         *)
(* Block <<c, h>> is the block of chain c at height h; module Chain shows  *)
(* that a height has one certified block.  The blocks and the QCs in them  *)
(* arrive in any order, each QC in its own chain (OneChain in Chain).      *)
(* Two epochs are modelled, and the change between them: the chain of the  *)
(* first leader ends at the height `decided' and restarts above it, and    *)
(* the chain of the next leader gives the order.                           *)
(*                                                                         *)
(* commit_ref_keeping, commit_ref_ignoring, commit_reversed and            *)
(* AdvanceEpochBelow are not part of the specification: each is the        *)
(* definition after it with a mistake in it, to see which property notices.*)
(***************************************************************************)
EXTENDS Integers, SequencesExt

CONSTANTS
  Keys,              \* the chains, in the order of their keys
  NEXT_EPOCH_HEIGHT, \* how far past the decided height the chain restarts
  Top,               \* bound: the height each chain reaches in epoch 0
  Decisions,         \* bound: the heights that the agreement may decide
  MaxNext,           \* bound: the blocks of the first leader after its restart
  Referenced         \* bound: the heights of each chain that blocks reference

Chains == Range(Keys)

\* RandomLeaderElector::get_leader.
get_leader(e) == Keys[(e % Len(Keys)) + 1]

First == get_leader(0)
Second == get_leader(1)

\* The agreement decides no height below a block committed through the
\* 2-chain (CommittedSurvive in module Chain).
ASSUME CommitAssumption ==
  /\ Keys \in Seq(Chains) /\ IsInjective(Keys) /\ Len(Keys) >= 2
  /\ NEXT_EPOCH_HEIGHT \in Nat /\ NEXT_EPOCH_HEIGHT >= 3
  /\ Top \in [Chains -> Nat] /\ Top[First] >= 1 /\ Top[Second] >= 3
  /\ Decisions \subseteq 1 .. Top[First]
  /\ \A h \in Decisions : h >= Top[First] - 2
  /\ MaxNext \in Nat
  /\ Referenced \in [Chains -> SUBSET Nat]
  /\ \A c \in Chains : Referenced[c] \subseteq 1 .. (Top[c] - 1)

None == -1

VARIABLES
  decided,    \* the height at which the agreement ends the epoch
  references, \* references[e + 1][h][c]: the height of chain c that block h of
              \* the leader of epoch e references, 0 for none
  order,      \* the order that the references define: what every node should send
  epoch,
  isViewChange,
  stored,     \* the blocks in the store
  certified,  \* the blocks in the height_to_digest of their chains
  last,       \* last_committed_height of each chain
  sent,       \* the blocks sent to the application, in the order of the
              \* first time each was sent
  again,      \* the blocks sent more than once
  cut         \* how many had been sent when the epoch ended with a commit
              \* that stopped half-way, None if it did not

\* What the other nodes have done, or will do, and this one does not change.
fixed == <<decided, references, order>>

vars == <<fixed, epoch, isViewChange, stored, certified, last, sent, again, cut>>

\* The height at which the first leader restarts its chain in epoch 1.
Restart == decided + NEXT_EPOCH_HEIGHT

Block ==
  (UNION {{c} \X (1 .. Top[c]) : c \in Chains}) \cup
  ({First} \X (Restart .. (Restart + MaxNext - 1)))

\* The block certified by the QC in block b: none in the first of an epoch.
Parent(b) == IF b[2] \in {1, Restart} THEN {} ELSE {<<b[1], b[2] - 1>>}

\* The chains that a block of chain c may reference, in the order of their keys.
Others(c) == RemoveFirst(Keys, c)
-----------------------------------------------------------------------------
\* How far the heights of chain c above `from' follow one another up to `to'
\* without a missing digest or block, `have' being those that are at hand.
Available(have, c, from, to) ==
  CHOOSE k \in from .. to :
    /\ \A i \in (from + 1) .. k : <<c, i>> \in have
    /\ k = to \/ <<c, k + 1>> \notin have

Blocks(c, from, to) == [i \in 1 .. (to - from) |-> <<c, from + i>>]

\* A commit under way: s.last the heights committed, s.out what is in
\* to_commit, in the order it will be sent, and s.ok while nothing is missing.
Begin == [last |-> last, out |-> <<>>, ok |-> TRUE]

commit_ref_keeping(st, cert, b, s, c) ==
  LET r == references[epoch + 1][b[2]][c]
      k == Available(st \cap cert, c, s.last[c], r)
  IN  IF r = 0 \/ ~s.ok \/ (<<c, r>> \in st /\ s.last[c] >= r) THEN s
      ELSE IF <<c, r>> \notin st THEN [s EXCEPT !.ok = FALSE]
      ELSE [s EXCEPT !.out = @ \o Blocks(c, s.last[c], k), !.last[c] = r, !.ok = k = r]

commit_ref_ignoring(st, cert, b, s, c) ==
  LET r == references[epoch + 1][b[2]][c]
      k == Available(st \cap cert, c, s.last[c], r)
  IN  IF r = 0 \/ <<c, r>> \notin st \/ s.last[c] >= r THEN s
      ELSE [s EXCEPT !.out = @ \o Blocks(c, s.last[c], k), !.last[c] = k]

\* commit_prev_block of the block of chain c that block b of the leader
\* references.  It works on a copy of the chain, which is put back only if
\* nothing is missing, while what it added to to_commit stays there.
commit_ref(st, cert, b, s, c) ==
  LET r == references[epoch + 1][b[2]][c]
      k == Available(st \cap cert, c, s.last[c], r)
  IN  IF r = 0 \/ ~s.ok \/ (<<c, r>> \in st /\ s.last[c] >= r) THEN s
      ELSE IF <<c, r>> \notin st THEN [s EXCEPT !.ok = FALSE]
      ELSE IF k < r
      THEN [s EXCEPT !.out = @ \o Blocks(c, s.last[c], k), !.ok = FALSE]
      ELSE [s EXCEPT !.out = @ \o Blocks(c, s.last[c], r), !.last[c] = r]

\* An iteration of the loop of commit_prev_block for block b of the leader.
commit_next(st, cert, s, b) ==
  LET t == FoldLeft(LAMBDA u, c : commit_ref(st, cert, b, u, c), s, Others(b[1]))
  IN  IF ~s.ok THEN s
      ELSE IF b \notin st \cap cert THEN [s EXCEPT !.ok = FALSE]
      ELSE IF ~t.ok THEN t
      ELSE [t EXCEPT !.out = Append(@, b), !.last[b[1]] = b[2]]

commit_prev_block(st, cert, c, h) ==
  FoldLeft(LAMBDA s, b : commit_next(st, cert, s, b), Begin, Blocks(c, last[c], h))

\* A block that was sent before keeps its place.
AppendNew(s, b) == IF b \in Range(s) THEN s ELSE Append(s, b)

commit_reversed(out) ==
  /\ sent' = FoldLeft(AppendNew, sent, Reverse(out))
  /\ again' = again \cup (Range(out) \cap Range(sent))

\* commit, once commit_prev_block has put to_commit together: all of it is
\* sent, complete or not.
commit(out) ==
  /\ sent' = FoldLeft(AppendNew, sent, out)
  /\ again' = again \cup (Range(out) \cap Range(sent))
-----------------------------------------------------------------------------
\* process_block_commit: the third of three blocks in the store commits the
\* first, unless the epoch is ending or the block is of a later one.
CommitsHead(st, c, h) ==
  /\ ~isViewChange
  /\ c = get_leader(epoch)
  /\ h > 2 /\ (c = First => h <= Top[First])
  /\ {<<c, h - 1>>, <<c, h - 2>>} \subseteq st

\* handle_proposal of a block, which also arrives as a SyncReply or comes
\* back as a LoopBack.
HandleProposal(c, h) ==
  LET st   == stored \cup {<<c, h>>}
      cert == certified \cup Parent(<<c, h>>)
      s    == commit_prev_block(st, cert, c, h - 2)
  IN  /\ stored' = st
      /\ certified' = cert
      /\ IF CommitsHead(st, c, h) THEN last' = s.last /\ commit(s.out)
         ELSE UNCHANGED <<last, sent, again>>
      /\ UNCHANGED <<fixed, epoch, isViewChange, cut>>

\* A timeout brings a QC of the leader's chain (the code accepts one of any
\* chain: OneChain in Chain).
HandleTimeout(h) ==
  /\ epoch = 0
  /\ certified' = certified \cup {<<First, h>>}
  /\ UNCHANGED <<fixed, epoch, isViewChange, stored, last, sent, again, cut>>

\* A TC: the epoch is ending.
ViewChange ==
  /\ epoch = 0 /\ ~isViewChange
  /\ isViewChange' = TRUE
  /\ UNCHANGED <<fixed, epoch, stored, certified, last, sent, again, cut>>

\* The output branch of update_aba_phase: the leader's chain is committed to
\* the height decided, as far as it goes, and restarts at height h.
AdvanceTo(h) ==
  LET s == commit_prev_block(stored, certified, First, decided)
  IN  /\ epoch = 0 /\ isViewChange
      /\ <<First, decided>> \in stored \cap certified
      /\ epoch' = 1
      /\ isViewChange' = FALSE
      /\ commit(s.out)
      /\ last' = [s.last EXCEPT ![First] = h - 1]
      /\ certified' = {b \in certified : b[1] = First => b[2] > decided}
      /\ cut' = IF s.ok THEN None ELSE Len(sent')
      /\ UNCHANGED <<fixed, stored>>

AdvanceEpochBelow == AdvanceTo(decided - NEXT_EPOCH_HEIGHT)

AdvanceEpoch == AdvanceTo(Restart)

\* generate_proposal references the block of every other chain with the
\* highest QC it has.  That never goes down, but for the chain that ends: the
\* epoch change forgets its QC, and a late block of epoch 0 brings it back.
Rising(r, c) == \A h \in DOMAIN r \ {1} : r[h - 1][c] <= r[h][c]

References(e, heights, next) ==
  LET others == Chains \ {get_leader(e)}
      refs   == (UNION {Referenced[c] : c \in others}) \cup next \cup {0}
  IN  {r \in [heights -> [others -> refs]] :
         \A c \in others :
           /\ \A h \in heights :
                r[h][c] \in Referenced[c] \cup {0} \cup (IF c = First THEN next ELSE {})
           /\ c = First \/ Rising(r, c)}

\* The order that the references define.  The epoch e starts with the chains
\* at the heights of base and takes its leader to the height top: before each
\* block of the leader come the blocks it references that no earlier one does.
OrderOf(e, base, top) ==
  LET leader == get_leader(e)
      others == Others(leader)
      covers(h, d) ==
        Max({base[d]} \cup {references[e + 1][i][d] : i \in (base[leader] + 1) .. h})
      before(h) ==
        FlattenSeq([k \in DOMAIN others |->
          Blocks(others[k], covers(h - 1, others[k]), covers(h, others[k]))])
  IN  FlattenSeq([i \in 1 .. (top - base[leader]) |->
        before(base[leader] + i) \o << <<leader, base[leader] + i>> >>])

\* Where the chains stand when the epoch changes.
AtChange ==
  [c \in Chains |-> IF c = First THEN Restart - 1
                    ELSE Max({0} \cup {references[1][h][c] : h \in 1 .. decided})]

TotalOrder ==
  OrderOf(0, [c \in Chains |-> 0], decided) \o OrderOf(1, AtChange, Top[Second] - 2)

Init ==
  /\ decided \in Decisions
  /\ \E r \in References(0, 1 .. decided, {}),
        q \in References(1, 1 .. (Top[Second] - 2), {Restart}) : references = <<r, q>>
  /\ order = TotalOrder
  /\ epoch = 0
  /\ isViewChange = FALSE
  /\ stored = {}
  /\ certified = {}
  /\ last = [c \in Chains |-> 0]
  /\ sent = <<>>
  /\ again = {}
  /\ cut = None

Next ==
  \/ \E b \in Block : HandleProposal(b[1], b[2])
  \/ \E h \in 1 .. Top[First] : HandleTimeout(h)
  \/ ViewChange
  \/ AdvanceEpoch

Spec == Init /\ [][Next]_vars
-----------------------------------------------------------------------------
(***************************************************************************)
(* Properties.                                                             *)
(***************************************************************************)
TypeOK ==
  /\ decided \in Decisions
  /\ epoch \in {0, 1}
  /\ isViewChange \in BOOLEAN
  /\ stored \subseteq Block
  /\ certified \subseteq Block
  /\ last \in [Chains -> Nat]
  /\ sent \in Seq(Block)
  /\ again \subseteq Range(sent)
  /\ cut \in Nat \cup {None}

\* What was sent before the commit that ended the epoch half-way, if it did:
\* from there on the code promises nothing.
Ordered == IF cut = None THEN sent ELSE SubSeq(sent, 1, cut)

\* In whichever order the blocks arrive and however often commit_prev_block
\* stops half-way, the application first sees the blocks in the order the
\* references define, which is the same at every node, in both epochs.
SentInOrder == IsPrefix(Ordered, order)

\* last_committed_height does not run ahead of what the application has seen,
\* so no block is skipped but those the agreement gives up, above the height
\* it decides.
NoneSkipped ==
  cut = None =>
    \A b \in Block :
      b[2] <= last[b[1]] /\ ~(b[1] = First /\ b[2] > decided /\ b[2] < Restart)
        => b \in Range(sent)

\* A block is sent to the application once (commit sends `all the newly
\* committed blocks').
SentOnce == again = {}

\* The application sees ever more of one sequence, the one that the
\* references define: the promise of module OrderedBlocks.
Application == INSTANCE OrderedBlocks WITH seen <- Ordered

ImplementsOrdered == Application!Delivery
=============================================================================
