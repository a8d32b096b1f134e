----------------------------- MODULE ChainProofs -----------------------------
(***************************************************************************)
(* Theorems about module Chain, for every committee of 3f + 1 nodes and    *)
(* every choice of at most f faulty ones.  First what the handlers of a    *)
(* node preserve, and that a height has one certified block; then the view *)
(* change: what was committed before it survives it, and the chain         *)
(* restarts above what was proposed.                                       *)
(*                                                                         *)
(* The inductive invariant of the view change, Solid, holds as long as the *)
(* chain is Orderly: one author, which never restarted (it may be faulty)  *)
(* and, when faulty, sent no block of the next epoch early.  An author     *)
(* that restarts proposes heights it used before, and QCMaker counts votes *)
(* by height: it is as good as faulty.  What the other nodes certify is    *)
(* valid even when the chain is not Orderly (Certified).                   *)
(***************************************************************************)
EXTENDS Chain, CommitteeProofs

\* A sequence of blocks whose QCs are digests of its blocks.
WellFormed(bs) == bs \in Seq(Block(Len(bs)))

\* A node votes at increasing heights and last_voted_height bounds them all.
VotesOnce(bs, s) ==
  /\ \A d \in s.voted : bs[d].height <= s.lastVoted
  /\ \A d, e \in s.voted : bs[d].height = bs[e].height => d = e

\* What every handler preserves of the record s of a node.  A node that has
\* restarted has an excuse for voting twice at a height.
Sound(excuse, bs, s) ==
  s \in NodeState(Len(bs)) /\ (excuse = {} => VotesOnce(bs, s))

Excuse(n) == {n} \cap restarted

LEMMA HeightType ==
  ASSUME NEW bs, WellFormed(bs), NEW d \in 0 .. Len(bs)
  PROVE  /\ Len(bs) \in Nat
         /\ Height(bs, d) \in Nat
         /\ d # 0 => /\ bs[d] \in Block(Len(bs))
                     /\ bs[d].height \in Nat \ {0}
                     /\ bs[d].epoch \in 0 .. 1
                     /\ bs[d].qc \in 0 .. Len(bs)
<1>1. Len(bs) \in Nat
  BY DEF WellFormed
<1>2. ASSUME d # 0 PROVE bs[d] \in Block(Len(bs))
  BY <1>1, <1>2 DEF WellFormed
<1>3. ASSUME d # 0
      PROVE  bs[d].height \in Nat \ {0} /\ bs[d].epoch \in 0 .. 1 /\ bs[d].qc \in 0 .. Len(bs)
  BY <1>2, <1>3 DEF Block
<1> QED
  BY <1>1, <1>2, <1>3 DEF Height

\* The types of the fields of a node.
LEMMA Fields ==
  ASSUME NEW k \in Nat, NEW s \in NodeState(k)
  PROVE  /\ s.epoch \in 0 .. 1 /\ s.isViewChange \in BOOLEAN
         /\ s.height \in Nat \ {0} /\ s.lastVoted \in Nat /\ s.lastCommitted \in Nat
         /\ s.highQC \in 0 .. k /\ s.certified \in SUBSET (0 .. k)
         /\ s.stored \in SUBSET (1 .. k) /\ s.suspended \in SUBSET (1 .. k)
         /\ s.orphans \in SUBSET (1 .. k) /\ s.voted \in SUBSET (1 .. k)
         /\ s.qcVotes \in SUBSET [author : Node, hash : 1 .. k]
         /\ s.timeouts \in SUBSET (0 .. k) /\ s.others \in Nat
         /\ s.delivered \in SUBSET (1 .. k)
BY DEF NodeState

\* A handler that adds no vote and lowers no height keeps the votes sound.
LEMMA VotesKept ==
  ASSUME NEW x, NEW bs, WellFormed(bs), NEW s, Sound(x, bs, s), NEW t \in NodeState(Len(bs)),
         t.voted = s.voted, t.lastVoted >= s.lastVoted
  PROVE  Sound(x, bs, t)
<1>1. Len(bs) \in Nat
  BY DEF WellFormed
<1>2. /\ s.voted \in SUBSET (1 .. Len(bs)) /\ s.lastVoted \in Nat /\ t.lastVoted \in Nat
  BY <1>1, Fields DEF Sound
<1>3. \A d \in s.voted : bs[d].height \in Nat
  BY <1>1, <1>2, HeightType
<1> QED
  BY <1>2, <1>3 DEF Sound, VotesOnce

LEMMA ProcessQCSound ==
  ASSUME NEW x, NEW bs, WellFormed(bs), NEW s, Sound(x, bs, s), NEW q \in 0 .. Len(bs)
  PROVE  Sound(x, bs, process_qc(bs, s, q))
<1> DEFINE k == Len(bs)
           h == Height(bs, q)
           t == process_qc(bs, s, q)
<1>1. k \in Nat /\ h \in Nat
  BY HeightType
<1>2. s \in NodeState(k)
  BY DEF Sound
<1>3. /\ (IF h < s.height THEN s.height ELSE h + 1) \in Nat \ {0}
      /\ (IF h < s.height THEN s.qcVotes
          ELSE {v \in s.qcVotes : Height(bs, v.hash) > h})
           \in SUBSET [author : Node, hash : 1 .. k]
      /\ (IF h > Height(bs, s.highQC) THEN q ELSE s.highQC) \in 0 .. k
      /\ {d \in s.certified : Height(bs, d) # h} \cup {q} \in SUBSET (0 .. k)
  BY <1>1, <1>2, Fields
<1>4. t \in NodeState(k)
  BY ONLY <1>2, <1>3, Zenon DEF process_qc, NodeState
<1>5. t.voted = s.voted /\ t.lastVoted = s.lastVoted
  BY <1>2 DEF process_qc, NodeState
<1> QED
  BY <1>1, <1>2, <1>4, <1>5, VotesKept, Fields

LEMMA CommitSound ==
  ASSUME NEW x, NEW bs, WellFormed(bs), NEW s, Sound(x, bs, s), NEW h \in Nat
  PROVE  Sound(x, bs, commit(bs, s, h))
<1> DEFINE k == Len(bs)
           C == Committable(bs, s, h)
           t == commit(bs, s, h)
           D == {d \in s.certified \cap s.stored : Height(bs, d) \in C}
<1>1. k \in Nat
  BY DEF WellFormed
<1>2. s \in NodeState(k)
  BY DEF Sound
<1>3. Cardinality(C) \in Nat
  <2>1. s.lastCommitted + 1 \in Int
    BY <1>1, <1>2, Fields
  <2>2. IsFiniteSet((s.lastCommitted + 1) .. h)
    BY <2>1, FS_Interval
  <2>3. C \subseteq (s.lastCommitted + 1) .. h
    BY DEF Committable
  <2> QED
    BY <2>2, <2>3, FS_Subset, FS_CardinalityType
<1>4. /\ s.lastCommitted + Cardinality(C) \in Nat
      /\ s.delivered \cup D \in SUBSET (1 .. k)
  <2> HIDE DEF C
  <2> QED
    BY <1>1, <1>2, <1>3, Fields
<1>5. t = [s EXCEPT !.lastCommitted = s.lastCommitted + Cardinality(C),
                    !.delivered = s.delivered \cup D]
  BY DEF commit
<1> HIDE DEF t, C, D
<1>6. t \in NodeState(k)
  BY ONLY <1>2, <1>4, <1>5, Zenon DEF NodeState
<1>7. t.voted = s.voted /\ t.lastVoted = s.lastVoted
  BY <1>2, <1>5 DEF NodeState
<1>8. Sound(x, bs, t)
  BY <1>1, <1>2, <1>6, <1>7, VotesKept, Fields
<1> QED
  BY <1>8 DEF t

LEMMA AddVoteSound ==
  ASSUME NEW x, NEW bs, WellFormed(bs), NEW s, Sound(x, bs, s),
         NEW v \in [author : Node, hash : 1 .. Len(bs)]
  PROVE  Sound(x, bs, add_vote(bs, s, v))
<1>1. Len(bs) \in Nat /\ s \in NodeState(Len(bs))
  BY DEF WellFormed, Sound
<1>2. CASE AcceptsVote(bs, s, v)
  <2> DEFINE t == [s EXCEPT !.qcVotes = s.qcVotes \cup {v}]
  <2>1. s.qcVotes \cup {v} \in SUBSET [author : Node, hash : 1 .. Len(bs)]
    BY <1>1, Fields
  <2>2. t \in NodeState(Len(bs))
    BY ONLY <1>1, <2>1, Zenon DEF NodeState
  <2>3. t.voted = s.voted /\ t.lastVoted = s.lastVoted
    BY <1>1 DEF NodeState
  <2>4. t = add_vote(bs, s, v)
    BY <1>2 DEF add_vote
  <2> HIDE DEF t
  <2>5. Sound(x, bs, t)
    BY <1>1, <2>2, <2>3, VotesKept, Fields
  <2> QED
    BY <2>4, <2>5
<1>3. CASE ~AcceptsVote(bs, s, v)
  BY <1>3 DEF add_vote
<1> QED
  BY <1>2, <1>3

\* The block a node votes for is above all it voted for before.
LEMMA VoteSound ==
  ASSUME NEW x, NEW bs, WellFormed(bs), NEW s, Sound(x, bs, s), NEW d \in 1 .. Len(bs),
         bs[d].height > s.lastVoted
  PROVE  Sound(x, bs, [s EXCEPT !.lastVoted = bs[d].height, !.voted = @ \cup {d}])
<1> DEFINE k == Len(bs)
           t == [s EXCEPT !.lastVoted = bs[d].height, !.voted = s.voted \cup {d}]
<1>1. k \in Nat /\ s \in NodeState(k) /\ bs[d].height \in Nat
  BY HeightType DEF WellFormed, Sound
<1>2. s.voted \cup {d} \in SUBSET (1 .. k) /\ s.lastVoted \in Nat
  BY <1>1, Fields
<1>3. t \in NodeState(k)
  BY ONLY <1>1, <1>2, Zenon DEF NodeState
<1>4. t.voted = s.voted \cup {d} /\ t.lastVoted = bs[d].height
  BY <1>1 DEF NodeState
<1>5. \A e \in s.voted : bs[e].height \in Nat
  BY <1>1, <1>2, HeightType
<1> HIDE DEF t
<1>6. x = {} => VotesOnce(bs, t)
  BY <1>1, <1>2, <1>4, <1>5 DEF VotesOnce, Sound
<1>7. Sound(x, bs, t)
  BY <1>3, <1>6 DEF Sound
<1> QED
  BY <1>7 DEF t

LEMMA ProcessBlockSound ==
  ASSUME NEW x, NEW bs, WellFormed(bs), NEW n \in Node, NEW s, Sound(x, bs, s),
         NEW d \in 1 .. Len(bs)
  PROVE  Sound(x, bs, process_block(bs, n, s, d))
<1> DEFINE k  == Len(bs)
           s1 == [s EXCEPT !.stored = s.stored \cup {d},
                           !.orphans = s.orphans \cup Orphans(bs, s, d)]
           s2 == IF CommitsHead(bs, s1, d)
                 THEN commit(bs, s1, Height(bs, bs[bs[d].qc].qc))
                 ELSE s1
           s3 == [s2 EXCEPT !.lastVoted = bs[d].height, !.voted = @ \cup {d}]
<1>1. k \in Nat /\ s \in NodeState(k) /\ bs[d].qc \in 0 .. k /\ bs[d].height \in Nat
  BY HeightType DEF WellFormed, Sound
<1>2. Sound(x, bs, s1)
  <2>1. Orphans(bs, s, d) \in SUBSET (1 .. k)
    <3>1. s.stored \in SUBSET (1 .. k)
      BY <1>1, Fields
    <3> QED
      BY <1>1, <3>1 DEF Orphans
  <2>2. s.stored \cup {d} \in SUBSET (1 .. k) /\ s.orphans \cup Orphans(bs, s, d) \in SUBSET (1 .. k)
    BY <1>1, <2>1, Fields
  <2>3. s1 \in NodeState(k)
    BY ONLY <1>1, <2>2, Zenon DEF NodeState
  <2>4. s1.voted = s.voted /\ s1.lastVoted = s.lastVoted
    BY <1>1 DEF NodeState
  <2> HIDE DEF s1
  <2> QED
    BY <1>1, <2>3, <2>4, VotesKept, Fields
<1> HIDE DEF s1
<1>3. Sound(x, bs, s2)
  <2>1. CASE CommitsHead(bs, s1, d)
    <3>1. bs[d].qc # 0
      BY <2>1 DEF CommitsHead
    <3>2. bs[bs[d].qc].qc \in 0 .. k
      BY <1>1, <3>1, HeightType
    <3>3. Height(bs, bs[bs[d].qc].qc) \in Nat
      BY <3>2, HeightType
    <3> QED
      BY <1>2, <2>1, <3>3, CommitSound
  <2> QED
    BY <1>2, <2>1
<1> HIDE DEF s2
<1>4. CASE ~MayVote(bs, s2, d)
  BY <1>3, <1>4 DEF process_block, s1, s2
<1>5. CASE MayVote(bs, s2, d)
  <2>1. Sound(x, bs, s3)
    <3>1. bs[d].height > s2.lastVoted
      BY <1>5 DEF MayVote
    <3> QED
      BY <1>3, <3>1, VoteSound
  <2> HIDE DEF s3
  <2>2. CASE n = Author
    <3>1. Sound(x, bs, add_vote(bs, s3, [author |-> n, hash |-> d]))
      BY <2>1, AddVoteSound
    <3> QED
      BY <1>5, <2>2, <3>1 DEF process_block, s1, s2, s3
  <2>3. CASE n # Author
    BY <1>5, <2>1, <2>3 DEF process_block, s1, s2, s3
  <2> QED
    BY <2>2, <2>3
<1> QED
  BY <1>4, <1>5

LEMMA HandleProposalSound ==
  ASSUME NEW x, NEW bs, WellFormed(bs), NEW n \in Node, NEW s, Sound(x, bs, s),
         NEW d \in 1 .. Len(bs), NEW payload \in BOOLEAN
  PROVE  Sound(x, bs, handle_proposal(bs, n, s, d, payload))
<1> DEFINE s1 == process_qc(bs, s, bs[d].qc)
           t  == [s1 EXCEPT !.suspended = s1.suspended \cup {d}]
<1>1. Sound(x, bs, s1)
  BY HeightType, ProcessQCSound
<1>2. Len(bs) \in Nat /\ s1 \in NodeState(Len(bs))
  BY <1>1 DEF WellFormed, Sound
<1> HIDE DEF s1
<1>3. Sound(x, bs, t)
  <2>1. s1.suspended \cup {d} \in SUBSET (1 .. Len(bs))
    BY <1>2, Fields
  <2>2. t \in NodeState(Len(bs))
    BY ONLY <1>2, <2>1, Zenon DEF NodeState
  <2>3. t.voted = s1.voted /\ t.lastVoted = s1.lastVoted
    BY <1>2 DEF NodeState
  <2> HIDE DEF t
  <2> QED
    BY <1>1, <1>2, <2>2, <2>3, VotesKept, Fields
<1>4. CASE payload
  BY <1>1, <1>4, ProcessBlockSound DEF handle_proposal, s1
<1>5. CASE ~payload
  BY <1>3, <1>5 DEF handle_proposal, s1
<1> QED
  BY <1>4, <1>5

LEMMA HandleTimeoutSound ==
  ASSUME NEW x, NEW bs, WellFormed(bs), NEW s, Sound(x, bs, s), NEW q \in 0 .. Len(bs)
  PROVE  Sound(x, bs, handle_timeout(bs, s, q))
BY ProcessQCSound DEF handle_timeout

\* advance_epoch, which leaves last_voted_height as it is.
LEMMA AdvanceEpochSound ==
  ASSUME NEW x, NEW bs, WellFormed(bs), NEW s, Sound(x, bs, s), NEW v \in Nat
  PROVE  Sound(x, bs, advance_epoch(bs, s, v))
<1> DEFINE k == Len(bs)
           h == v + NEXT_EPOCH_HEIGHT
           c == commit(bs, s, v)
           t == [c EXCEPT !.epoch = 1, !.height = h, !.lastCommitted = h - 1,
                          !.highQC = 0,
                          !.certified = {d \in c.certified : Height(bs, d) > v},
                          !.isViewChange = FALSE]
<1>1. Sound(x, bs, c)
  BY CommitSound
<1>2. k \in Nat /\ c \in NodeState(k)
  BY <1>1 DEF WellFormed, Sound
<1> HIDE DEF c
<1>3. /\ 1 \in 0 .. 1 /\ h \in Nat \ {0} /\ h - 1 \in Nat /\ 0 \in 0 .. k
      /\ {d \in c.certified : Height(bs, d) > v} \in SUBSET (0 .. k)
      /\ FALSE \in BOOLEAN
  BY <1>2, Fields, ChainAssumption
<1>4. t \in NodeState(k)
  BY ONLY <1>2, <1>3, Zenon DEF NodeState
<1>5. t.voted = c.voted /\ t.lastVoted = c.lastVoted
  BY <1>2 DEF NodeState
<1>6. t = advance_epoch(bs, s, v)
  BY Zenon DEF advance_epoch, c
<1> HIDE DEF t
<1>7. Sound(x, bs, t)
  BY <1>1, <1>2, <1>4, <1>5, VotesKept, Fields
<1> QED
  BY <1>6, <1>7

LEMMA CheckTimeoutSound ==
  ASSUME NEW x, NEW bs, WellFormed(bs), NEW s, Sound(x, bs, s), NEW tc \in BOOLEAN
  PROVE  Sound(x, bs, check_timeout(bs, s, tc))
<1> DEFINE k  == Len(bs)
           lv == IF s.lastVoted < s.height THEN s.height ELSE s.lastVoted
           s1 == [s EXCEPT !.isViewChange = TRUE, !.lastVoted = lv,
                           !.timeouts = s.timeouts \cup {s.highQC}]
           t  == [s EXCEPT !.isViewChange = TRUE]
<1>1. k \in Nat /\ s \in NodeState(k)
  BY DEF WellFormed, Sound
<1>2. /\ TRUE \in BOOLEAN /\ lv \in Nat /\ s.timeouts \cup {s.highQC} \in SUBSET (0 .. k)
      /\ lv >= s.lastVoted
  BY <1>1, Fields
<1> HIDE DEF lv
<1>3. Sound(x, bs, s1)
  <2>1. s1 \in NodeState(k)
    BY ONLY <1>1, <1>2, Zenon DEF NodeState
  <2>2. s1.voted = s.voted /\ s1.lastVoted = lv
    BY <1>1 DEF NodeState
  <2> HIDE DEF s1
  <2> QED
    BY <1>2, <2>1, <2>2, VotesKept
<1>4. Sound(x, bs, t)
  <2>1. t \in NodeState(k)
    BY ONLY <1>1, <1>2, Zenon DEF NodeState
  <2>2. t.voted = s.voted /\ t.lastVoted = s.lastVoted
    BY <1>1 DEF NodeState
  <2> HIDE DEF t
  <2> QED
    BY <1>1, <2>1, <2>2, VotesKept, Fields
<1>5. Sound(x, bs, handle_timeout(bs, s1, s.highQC))
  <2>1. s.highQC \in 0 .. k
    BY <1>1, Fields
  <2> HIDE DEF s1
  <2> QED
    BY <1>3, <2>1, HandleTimeoutSound
<1>6. check_timeout(bs, s, tc) \in {s, t, handle_timeout(bs, s1, s.highQC)}
  BY DEF check_timeout, lv
<1> HIDE DEF t, s1
<1> QED
  BY <1>4, <1>5, <1>6

\* The chain only grows, and what held of a node still does.
LEMMA AppendSound ==
  ASSUME NEW bs, WellFormed(bs), NEW b \in Block(Len(bs))
  PROVE  /\ WellFormed(Append(bs, b))
         /\ Len(Append(bs, b)) = Len(bs) + 1
         /\ \A x, s : Sound(x, bs, s) => Sound(x, Append(bs, b), s)
<1> DEFINE k == Len(bs)
           cs == Append(bs, b)
<1>1. k \in Nat
  BY DEF WellFormed
<1>2. Block(k) \subseteq Block(k + 1) /\ NodeState(k) \subseteq NodeState(k + 1)
  <2>1. /\ 0 .. k \subseteq 0 .. (k + 1) /\ 1 .. k \subseteq 1 .. (k + 1)
    BY <1>1
  <2>2. SUBSET [author : Node, hash : 1 .. k] \subseteq SUBSET [author : Node, hash : 1 .. (k + 1)]
    BY <2>1
  <2>3. Block(k) \subseteq Block(k + 1)
    BY <2>1 DEF Block
  <2>4. SUBSET (0 .. k) \subseteq SUBSET (0 .. (k + 1)) /\ SUBSET (1 .. k) \subseteq SUBSET (1 .. (k + 1))
    BY <2>1
  <2>5. NodeState(k) \subseteq NodeState(k + 1)
    BY <2>1, <2>2, <2>4 DEF NodeState
  <2> QED
    BY <2>3, <2>5
<1>3. bs \in Seq(Block(k + 1)) /\ b \in Block(k + 1)
  BY <1>1, <1>2 DEF WellFormed
<1>4. cs \in Seq(Block(k + 1)) /\ Len(cs) = k + 1
  BY <1>1, <1>3
<1>5. \A d \in 1 .. k : cs[d] = bs[d]
  BY <1>1, <1>3
<1>6. ASSUME NEW x, NEW s, Sound(x, bs, s) PROVE Sound(x, cs, s)
  <2>1. s \in NodeState(k) /\ s \in NodeState(k + 1)
    BY <1>2, <1>6 DEF Sound
  <2>2. s.voted \subseteq 1 .. k
    BY <1>1, <2>1, Fields
  <2> HIDE DEF cs
  <2>3. x = {} => VotesOnce(cs, s)
    BY <1>5, <1>6, <2>2 DEF Sound, VotesOnce
  <2> QED
    BY <1>4, <2>1, <2>3 DEF Sound
<1> QED
  BY <1>4, <1>6 DEF WellFormed

\* The inductive invariant.
Inv ==
  /\ WellFormed(blocks)
  /\ node \in [Node -> NodeState(Len(blocks))]
  /\ decided \in Nat \cup {None}
  /\ \A n \in Node : n \notin restarted => VotesOnce(blocks, node[n])
  /\ restarted \subseteq Correct
  /\ Cardinality(Faulty \cup restarted) <= MaxFaulty

LEMMA IterationInv ==
  ASSUME Inv, decided' \in Nat \cup {None}, restarted' = restarted, NEW n \in Node, NEW bs, WellFormed(bs),
         \A m \in Node : Sound(Excuse(m), bs, node[m]),
         NEW s, Sound(Excuse(n), bs, s), NEW tc \in BOOLEAN, Iteration(n, bs, s, tc)
  PROVE  Inv'
<1> DEFINE t == check_timeout(bs, s, tc)
<1>1. Sound(Excuse(n), bs, t)
  BY CheckTimeoutSound
<1> HIDE DEF t
<1>2. blocks' = bs /\ node' = [node EXCEPT ![n] = t]
  BY DEF Iteration, t
<1>3. node \in [Node -> NodeState(Len(bs))]
  BY Zenon DEF Inv, Sound
<1>4. t \in NodeState(Len(bs)) /\ (n \notin restarted => VotesOnce(bs, t))
  BY <1>1 DEF Sound, Excuse
<1>5. node' \in [Node -> NodeState(Len(bs))]
  BY <1>2, <1>3, <1>4
<1>6. \A m \in Node : m \notin restarted => VotesOnce(bs, node'[m])
  <2> TAKE m \in Node
  <2>1. CASE m = n
    BY <1>2, <1>3, <1>4, <2>1
  <2>2. CASE m # n
    <3>1. node'[m] = node[m]
      BY <1>2, <1>3, <2>2
    <3> QED
      BY <3>1 DEF Sound, Excuse
  <2> QED
    BY <2>1, <2>2
<1> QED
  BY <1>2, <1>5, <1>6 DEF Inv

LEMMA NewNodeSound ==
  ASSUME NEW x, NEW bs, WellFormed(bs)
  PROVE  Sound(x, bs, NewNode)
<1>1. Len(bs) \in Nat
  BY DEF WellFormed
<1>2. NewNode \in NodeState(Len(bs))
  BY <1>1 DEF NewNode, NodeState
<1> QED
  BY <1>2 DEF Sound, VotesOnce, NewNode

LEMMA InitInv == Init => Inv
<1> SUFFICES ASSUME Init PROVE Inv
  OBVIOUS
<1>0. restarted = {} /\ Cardinality(Faulty \cup restarted) <= MaxFaulty
  BY ChainAssumption DEF Init
<1>1. WellFormed(<<>>) /\ WellFormed(<<FirstBlock>>)
  BY ChainAssumption DEF WellFormed, FirstBlock, Block
<1>2. CASE Author \in Correct
  <2>1. \A n \in Node : /\ Sound(Excuse(n), <<FirstBlock>>, NewNode)
                        /\ Sound(Excuse(n), <<FirstBlock>>, process_block(<<FirstBlock>>, n, NewNode, 1))
    BY <1>1, NewNodeSound, ProcessBlockSound
  <2>2. blocks = <<FirstBlock>> /\ DOMAIN node = Node /\ \A n \in Node : Sound(Excuse(n), blocks, node[n])
    BY <1>2, <2>1 DEF Init
  <2>3. node \in [Node -> NodeState(Len(blocks))]
    BY <1>2, <2>2 DEF Init, Sound
  <2> QED
    BY <1>0, <1>1, <2>2, <2>3 DEF Inv, Sound, Excuse, Init
<1>3. CASE Author \notin Correct
  <2>1. \A n \in Node : Sound(Excuse(n), <<>>, NewNode)
    BY <1>1, NewNodeSound
  <2>2. blocks = <<>> /\ node = [n \in Node |-> NewNode]
    BY <1>3 DEF Init
  <2> QED
    BY <1>0, <1>1, <2>1, <2>2 DEF Inv, Sound, Excuse, Init
<1> QED
  BY <1>2, <1>3

LEMMA NextBlockType ==
  ASSUME NEW k \in Nat, NEW s \in NodeState(k), NEW q \in 0 .. k
  PROVE  NextBlock(s, q) \in Block(k)
BY Fields, ChainAssumption DEF NextBlock, Block

\* A block of another author is stored, and may raise the height of its chain.
LEMMA StoreOtherFields ==
  ASSUME WellFormed(blocks), NEW n \in Node, node[n] \in NodeState(Len(blocks)),
         NEW d \in Digest, StoreOther(n, d)
  PROVE  \E t \in NodeState(Len(blocks)) :
           /\ t.epoch = node[n].epoch /\ t.isViewChange = node[n].isViewChange
           /\ t.voted = node[n].voted /\ t.lastVoted = node[n].lastVoted
           /\ t.timeouts = node[n].timeouts /\ t.height = node[n].height
           /\ t.certified = node[n].certified /\ t.highQC = node[n].highQC
           /\ t.delivered = node[n].delivered
           /\ Iteration(n, blocks, t, FALSE) /\ UNCHANGED <<decided, restarted>>
<1> DEFINE s == node[n]
           h == Height(blocks, blocks[d].qc) + 1
           o == IF s.others < h THEN h ELSE s.others
           t == [s EXCEPT !.stored = s.stored \cup {d}, !.others = o]
<1>1. d \in 1 .. Len(blocks) /\ Len(blocks) \in Nat
  BY DEF Digest, WellFormed
<1>2. s.stored \cup {d} \in SUBSET (1 .. Len(blocks)) /\ o \in Nat
  BY <1>1, HeightType, Fields
<1>3. Iteration(n, blocks, t, FALSE) /\ UNCHANGED <<decided, restarted>>
  BY Zenon DEF StoreOther
<1> HIDE DEF o
<1>4. t \in NodeState(Len(blocks))
  BY ONLY <1>2, node[n] \in NodeState(Len(blocks)), Zenon DEF NodeState
<1>5. /\ t.epoch = s.epoch /\ t.isViewChange = s.isViewChange
      /\ t.voted = s.voted /\ t.lastVoted = s.lastVoted
      /\ t.timeouts = s.timeouts /\ t.height = s.height
      /\ t.certified = s.certified /\ t.highQC = s.highQC
      /\ t.delivered = s.delivered
  BY DEF NodeState
<1> HIDE DEF t
<1> QED
  BY <1>3, <1>4, <1>5

LEMMA NextInv == Inv /\ [Next]_vars => Inv'
<1> SUFFICES ASSUME Inv, [Next]_vars PROVE Inv'
  OBVIOUS
<1> DEFINE k == Len(blocks)
<1>1. /\ WellFormed(blocks) /\ k \in Nat /\ Digest = 1 .. k
      /\ decided \in Nat \cup {None} /\ Correct \subseteq Node /\ Author \in Node
      /\ \A m \in Node : Sound(Excuse(m), blocks, node[m])
      /\ \A m \in Node : node[m] \in NodeState(k)
  BY ChainAssumption DEF Inv, WellFormed, Digest, Correct, Sound, Excuse
<1>2. CASE UNCHANGED vars
  BY <1>2 DEF Inv, vars
<1>3. ASSUME NEW n \in Correct, NEW d \in Digest, NEW payload \in BOOLEAN,
             HandleProposal(n, d, payload)
      PROVE  Inv'
  BY <1>1, <1>3, HandleProposalSound, IterationInv DEF HandleProposal
<1>4. ASSUME NEW n \in Correct, NEW d \in Digest, LoopBack(n, d)
      PROVE  Inv'
  <2> DEFINE s == node[n]
             t == [s EXCEPT !.suspended = s.suspended \ {d}, !.orphans = s.orphans \ {d}]
  <2>1. s \in NodeState(k) /\ s.suspended \ {d} \in SUBSET (1 .. k) /\ s.orphans \ {d} \in SUBSET (1 .. k)
    BY <1>1, Fields
  <2>2. t \in NodeState(k)
    BY ONLY <2>1, Zenon DEF NodeState
  <2>3. t.voted = s.voted /\ t.lastVoted = s.lastVoted
    BY <2>1 DEF NodeState
  <2>4. Iteration(n, blocks, process_block(blocks, n, t, d), FALSE) /\ UNCHANGED <<decided, restarted>>
    BY <1>4, Zenon DEF LoopBack
  <2> HIDE DEF t
  <2>5. Sound(Excuse(n), blocks, t)
    BY <1>1, <2>2, <2>3, VotesKept, Fields
  <2>6. Sound(Excuse(n), blocks, process_block(blocks, n, t, d))
    BY <1>1, <2>5, ProcessBlockSound
  <2> QED
    BY <1>1, <2>4, <2>6, IterationInv
<1>5. ASSUME NEW n \in Correct, NEW m \in Node, NEW q \in Digest \cup {0},
             HandleTimeout(n, m, q)
      PROVE  Inv'
  <2>1. q \in 0 .. k
    BY <1>1
  <2>2. Sound(Excuse(n), blocks, handle_timeout(blocks, node[n], q))
    BY <1>1, <2>1, HandleTimeoutSound
  <2> QED
    BY <1>1, <1>5, <2>2, IterationInv DEF HandleTimeout
<1>6. ASSUME NEW n \in Correct, HandleTC(n)
      PROVE  Inv'
  BY <1>1, <1>6, IterationInv DEF HandleTC
<1>7. ASSUME NEW n \in Correct, NEW h \in OtherHeights, OtherMessage(n, h)
      PROVE  Inv'
  <2> DEFINE s == node[n]
             t == [s EXCEPT !.others = h]
  <2>1. s \in NodeState(k) /\ h \in Nat
    BY <1>1, ChainAssumption
  <2>2. t \in NodeState(k)
    BY ONLY <2>1, Zenon DEF NodeState
  <2>3. t.voted = s.voted /\ t.lastVoted = s.lastVoted
    BY <2>1 DEF NodeState
  <2>4. Iteration(n, blocks, t, FALSE) /\ UNCHANGED <<decided, restarted>>
    BY <1>7 DEF OtherMessage
  <2> HIDE DEF t
  <2>5. Sound(Excuse(n), blocks, t)
    BY <1>1, <2>2, <2>3, VotesKept, Fields
  <2> QED
    BY <1>1, <2>4, <2>5, IterationInv
<1>8. ASSUME NEW n \in Correct, NEW v \in Heights \cup {0}, AdvanceEpoch(n, v)
      PROVE  Inv'
  <2> DEFINE s1 == advance_epoch(blocks, node[n], v)
             bs == Append(blocks, NextBlock(s1, 0))
  <2>1. v \in Nat /\ decided' \in Nat \cup {None} /\ restarted' = restarted
    BY <1>8 DEF AdvanceEpoch, Heights
  <2>2. Sound(Excuse(n), blocks, s1) /\ s1 \in NodeState(k)
    BY <1>1, <2>1, AdvanceEpochSound DEF Sound
  <2>3. NextBlock(s1, 0) \in Block(k)
    <3> HIDE DEF s1
    <3> QED
      BY <1>1, <2>2, NextBlockType
  <2>4. /\ WellFormed(bs) /\ Len(bs) \in 1 .. Len(bs) /\ Sound(Excuse(n), bs, s1)
        /\ \A m \in Node : Sound(Excuse(m), bs, node[m])
    <3> HIDE DEF s1
    <3> QED
      BY <1>1, <2>2, <2>3, AppendSound
  <2>5. \/ Iteration(n, bs, process_block(bs, n, s1, Len(bs)), FALSE)
        \/ Iteration(n, blocks, s1, FALSE)
    BY <1>8, Zenon DEF AdvanceEpoch
  <2> HIDE DEF s1, bs
  <2>6. Sound(Excuse(n), bs, process_block(bs, n, s1, Len(bs)))
    BY <1>1, <2>4, ProcessBlockSound
  <2> QED
    BY <1>1, <2>1, <2>2, <2>4, <2>5, <2>6, IterationInv
<1>9. ASSUME NEW m \in Node, NEW d \in Digest, HandleVote(m, d)
      PROVE  Inv'
  <2> DEFINE v  == [author |-> m, hash |-> d]
             s0 == add_vote(blocks, node[Author], v)
             s1 == process_qc(blocks, s0, d)
             bs == Append(blocks, NextBlock(s1, s1.highQC))
  <2>1. v \in [author : Node, hash : 1 .. k]
    BY <1>1
  <2> HIDE DEF v
  <2>2. Sound(Excuse(Author), blocks, s0)
    BY <1>1, <2>1, AddVoteSound
  <2> HIDE DEF s0
  <2>3. Sound(Excuse(Author), blocks, s1) /\ s1 \in NodeState(k)
    BY <1>1, <2>2, ProcessQCSound DEF Sound
  <2> HIDE DEF s1
  <2>4. NextBlock(s1, s1.highQC) \in Block(k)
    BY <1>1, <2>3, NextBlockType, Fields
  <2>5. /\ WellFormed(bs) /\ Len(bs) \in 1 .. Len(bs) /\ Sound(Excuse(Author), bs, s1)
        /\ \A l \in Node : Sound(Excuse(l), bs, node[l])
    BY <1>1, <2>3, <2>4, AppendSound
  <2>6. /\ UNCHANGED <<decided, restarted>>
        /\ \/ Iteration(Author, bs, process_block(bs, Author, s1, Len(bs)), FALSE)
           \/ Iteration(Author, blocks, s0, FALSE)
    BY <1>9, Zenon DEF HandleVote, s1, s0, v
  <2> HIDE DEF bs
  <2>7. Sound(Excuse(Author), bs, process_block(bs, Author, s1, Len(bs)))
    BY <1>1, <2>5, ProcessBlockSound
  <2> QED
    BY <1>1, <2>2, <2>5, <2>6, <2>7, IterationInv
<1>10. ASSUME NEW h \in Heights, NEW q \in Digest \cup {0},
              \/ \E e \in 0 .. 1 : FaultyPropose(e, h, q)
              \/ \E a \in OtherAuthors : OtherBlock(a, h, q)
       PROVE  Inv'
  <2>1. PICK b \in Block(k) : blocks' = Append(blocks, b) /\ UNCHANGED <<node, decided, restarted>>
    <3>1. h \in Nat \ {0} /\ q \in 0 .. k
      BY <1>1 DEF Heights
    <3>2. CASE \E e \in 0 .. 1 : FaultyPropose(e, h, q)
      <4>1. PICK e \in 0 .. 1 : FaultyPropose(e, h, q)
        BY <3>2
      <4>2. [author |-> Author, height |-> h, epoch |-> e, qc |-> q] \in Block(k)
        BY <1>1, <3>1 DEF Block
      <4> QED
        BY <4>1, <4>2 DEF FaultyPropose
    <3>3. CASE \E a \in OtherAuthors : OtherBlock(a, h, q)
      <4>1. PICK a \in OtherAuthors : OtherBlock(a, h, q)
        BY <3>3
      <4>2. [author |-> a, height |-> h, epoch |-> 0, qc |-> q] \in Block(k)
        BY <3>1, ChainAssumption DEF Block
      <4> QED
        BY <4>1, <4>2 DEF OtherBlock
    <3> QED
      BY <1>10, <3>2, <3>3
  <2>2. WellFormed(blocks') /\ \A m \in Node : Sound(Excuse(m), blocks', node'[m])
    BY <1>1, <2>1, AppendSound
  <2>3. \A m \in Node : node'[m] \in NodeState(Len(blocks')) /\
                        (m \notin restarted => VotesOnce(blocks', node'[m]))
    BY <2>2 DEF Sound, Excuse
  <2>4. node' \in [Node -> NodeState(Len(blocks'))]
    BY <2>1, <2>3 DEF Inv
  <2> QED
    BY <1>1, <2>1, <2>2, <2>3, <2>4 DEF Inv
<1>11. ASSUME NEW n \in Correct, NEW d \in Digest, StoreOther(n, d)
       PROVE  Inv'
  <2>1. PICK t \in NodeState(k) :
          /\ t.voted = node[n].voted /\ t.lastVoted = node[n].lastVoted
          /\ Iteration(n, blocks, t, FALSE) /\ UNCHANGED <<decided, restarted>>
    BY <1>1, <1>11, StoreOtherFields
  <2>2. Sound(Excuse(n), blocks, t)
    BY <1>1, <2>1, VotesKept, Fields
  <2> QED
    BY <1>1, <2>1, <2>2, IterationInv
<1>12. ASSUME NEW n \in Correct, Restart(n)
       PROVE  Inv'
  <2> DEFINE s  == [NewNode EXCEPT !.stored = node[n].stored, !.voted = node[n].voted,
                                   !.timeouts = node[n].timeouts,
                                   !.delivered = node[n].delivered]
             bs == Append(blocks, FirstBlock)
  <2>1. s \in NodeState(k)
    <3>1. NewNode \in NodeState(k)
      BY <1>1, NewNodeSound DEF Sound
    <3>2. /\ node[n].stored \in SUBSET (1 .. k) /\ node[n].voted \in SUBSET (1 .. k)
          /\ node[n].timeouts \in SUBSET (0 .. k) /\ node[n].delivered \in SUBSET (1 .. k)
      BY <1>1, Fields
    <3> QED
      BY ONLY <3>1, <3>2, Zenon DEF NodeState
  <2> HIDE DEF s
  <2>2. FirstBlock \in Block(k)
    BY <1>1 DEF FirstBlock, Block
  <2>3. /\ WellFormed(bs) /\ Len(bs) = k + 1
        /\ \A m \in Node : Sound(Excuse(m), bs, node[m])
    BY <1>1, <2>2, AppendSound
  <2>4. PICK t, cs : /\ node' = [node EXCEPT ![n] = t]
                     /\ blocks' = cs
                     /\ WellFormed(cs)
                     /\ \A m \in Node : Sound(Excuse(m), cs, node[m])
                     /\ t \in NodeState(Len(cs))
    <3>1. CASE n # Author
      BY <1>1, <1>12, <2>1, <3>1 DEF Restart, s
    <3>2. CASE n = Author
      <4>1. Sound({n}, blocks, s)
        BY <2>1 DEF Sound
      <4>2. Sound({n}, bs, s)
        BY <1>1, <2>2, <4>1, AppendSound
      <4>3. Sound({n}, bs, process_block(bs, n, s, Len(bs)))
        <5>1. Len(bs) \in 1 .. Len(bs) /\ n \in Node
          BY <1>1, <2>3
        <5> HIDE DEF bs
        <5> QED
          BY <2>3, <4>2, <5>1, ProcessBlockSound
      <4>4. node' = [node EXCEPT ![n] = process_block(bs, n, s, Len(bs))] /\ blocks' = bs
        BY <1>12, <3>2, Zenon DEF Restart, s
      <4> HIDE DEF bs
      <4> QED
        BY <2>3, <4>3, <4>4 DEF Sound
    <3> QED
      BY <3>1, <3>2
  <2>5. /\ restarted' = restarted \cup {n}
        /\ Cardinality(Faulty \cup restarted') <= MaxFaulty
        /\ UNCHANGED decided
    BY <1>12, Zenon DEF Restart
  <2>6. node \in [Node -> NodeState(Len(cs))]
    BY <2>4, Zenon DEF Inv, Sound
  <2>7. node' \in [Node -> NodeState(Len(cs))]
    BY <2>4, <2>6
  <2>8. \A m \in Node : m \notin restarted' => VotesOnce(cs, node'[m])
    BY <2>4, <2>5, <2>6 DEF Sound, Excuse
  <2> QED
    BY <2>4, <2>5, <2>7, <2>8 DEF Inv
<1> QED
  BY <1>2, <1>3, <1>4, <1>5, <1>6, <1>7, <1>8, <1>9, <1>10, <1>11, <1>12 DEF Next, NodeStep

\* Type correctness: in every run of a committee of any size, every digest
\* that a handler of core.rs records is the digest of a proposed block.
THEOREM TypeCorrect == Spec => []TypeOK
<1>1. Inv => TypeOK
  BY DEF Inv, TypeOK, WellFormed
<1> QED
  BY InitInv, NextInv, <1>1, PTL DEF Spec

\* The certified blocks of an author are unique at their height (QCUnique),
\* though QCMaker counts votes by height, a faulty author equivocates within
\* an epoch or over two, and QCs of other chains are attached: the guard on
\* last_voted_height in make_vote is all it takes.
THEOREM CertifiedUnique == Spec => []QCUnique
<1>1. ASSUME Inv PROVE QCUnique
  <2> SUFFICES ASSUME NEW d1 \in Own, NEW d2 \in Own, ValidQC(d1), ValidQC(d2),
                      blocks[d1].height = blocks[d2].height
               PROVE  d1 = d2
    BY DEF QCUnique
  <2>1. Voters(d1) \in Quorum /\ Voters(d2) \in Quorum
    BY DEF ValidQC, Own, Digest
  <2>2. PICK n \in Voters(d1) \cap Voters(d2) : n \notin Faulty \cup restarted
    <3>1. Faulty \cup restarted \subseteq Node /\ Cardinality(Faulty \cup restarted) <= MaxFaulty
      BY <1>1, ChainAssumption DEF Inv, Correct
    <3> QED
      BY <2>1, <3>1, QuorumIntersection
  <2>3. n \in Node /\ d1 \in node[n].voted /\ d2 \in node[n].voted
    BY <2>2 DEF Voters
  <2> QED
    BY <1>1, <2>2, <2>3 DEF Inv, VotesOnce
<1> QED
  BY InitInv, NextInv, <1>1, PTL DEF Spec
-----------------------------------------------------------------------------
(***************************************************************************)
(* The view change.                                                        *)
(***************************************************************************)
\* The digests of the chain that a quorum signed, and the votes cast.
Valid == {q \in 0 .. Len(blocks) : ValidQC(q)}

Cast == {u \in [author : Node, hash : Digest] :
           u.author \in Faulty \/ u.hash \in node[u.author].voted}

\* What holds of the record of any node: in epoch 0 the chain's height is
\* one more than that of the highest QC.
Climbing(bs, s) ==
  /\ s.orphans \subseteq s.stored
  /\ s.epoch = 0 => Height(bs, s.highQC) + 1 = s.height

\* What holds of the record of a node that never restarted: its highest QC,
\* and the one in its timeout, are not below the parent of a block it voted for.
Faithful(bs, s) ==
  /\ s.epoch = 0 =>
       \A d \in s.stored \cup s.suspended \cup s.voted :
         Height(bs, bs[d].qc) <= Height(bs, s.highQC)
  /\ \A d \in s.voted, q \in s.timeouts :
       bs[d].epoch = 0 => Height(bs, bs[d].qc) <= Height(bs, q)
  /\ s.timeouts # {} => s.isViewChange \/ s.epoch = 1

\* What a node certified or delivered has a quorum of votes, and what it
\* delivered is below the decided height or below a certified grandchild.
Backed(V, dec, bs, s) ==
  /\ s.certified \subseteq V /\ s.highQC \in V /\ s.delivered \subseteq V
  /\ \A d \in s.delivered :
       \/ dec # None /\ Height(bs, d) <= dec
       \/ \E b \in V \ {0} : bs[b].epoch = 0 /\ Height(bs, d) <= Height(bs, bs[b].qc)

\* The votes that node n collects as the author were cast.
Counted(n, W, s) ==
  s.qcVotes \subseteq W \cup {[author |-> n, hash |-> d] : d \in s.voted}

\* Every block is of the author and carries a valid QC, of a block of its epoch.
Chained(V, bs) ==
  \A d \in 1 .. Len(bs) :
    /\ bs[d].author = Author
    /\ bs[d].qc \in V
    /\ bs[d].epoch = 0 /\ bs[d].qc # 0 => bs[bs[d].qc].epoch = 0
    /\ Author \in Faulty => bs[d].epoch = 0

\* The chain of a correct author that never restarted, whose record is s: no
\* two of its blocks have the same height.
Authored(bs, s) ==
  /\ \A d \in 1 .. Len(bs) :
       /\ bs[d].height <= s.height
       /\ bs[d].epoch = 0 => bs[d].height = Height(bs, bs[d].qc) + 1
       /\ s.epoch = 0 => bs[d].epoch = 0
  /\ \A d, e \in 1 .. Len(bs) : bs[d].height = bs[e].height => d = e

\* A quorum has timed out with a QC no higher than v.
Ended(v) ==
  {m \in Correct : \E q \in node[m].timeouts : Height(blocks, q) <= v} \cup Faulty \in Quorum

Solid ==
  /\ Chained(Valid, blocks)
  /\ Author \in Correct => Authored(blocks, node[Author])
  /\ decided # None => Ended(decided)
  /\ \A n \in Correct :
       /\ Climbing(blocks, node[n])
       /\ n \notin restarted => Faithful(blocks, node[n])
       /\ Backed(Valid, decided, blocks, node[n])
       /\ Counted(n, Cast, node[n])

\* The inductive invariant of the view change, beside Inv.
VCInv == Orderly => Solid
-----------------------------------------------------------------------------
\* What holds of the record of node n, for the certified digests V, the votes
\* cast W and the height decided.
Good(x, n, V, W, dec, bs, s) ==
  /\ s \in NodeState(Len(bs))
  /\ Climbing(bs, s)
  /\ x = {} => Faithful(bs, s)
  /\ Backed(V, dec, bs, s)
  /\ Counted(n, W, s)

\* No handler takes these back.
Grows(s, t) ==
  /\ s.height <= t.height
  /\ s.voted \subseteq t.voted
  /\ s.timeouts \subseteq t.timeouts

\* A handler that stays in its epoch turns the good record s into t.
Handled(x, n, V, W, dec, bs, s, t) ==
  Good(x, n, V, W, dec, bs, t) /\ Grows(s, t) /\ t.epoch = s.epoch

LEMMA ProcessQCFields ==
  ASSUME NEW bs, WellFormed(bs), NEW s \in NodeState(Len(bs)), NEW q \in 0 .. Len(bs)
  PROVE  LET t == process_qc(bs, s, q)
         IN  /\ t.epoch = s.epoch /\ t.isViewChange = s.isViewChange
             /\ t.stored = s.stored /\ t.suspended = s.suspended /\ t.orphans = s.orphans
             /\ t.voted = s.voted /\ t.timeouts = s.timeouts /\ t.delivered = s.delivered
             /\ t.height = IF Height(bs, q) < s.height THEN s.height ELSE Height(bs, q) + 1
             /\ t.highQC = IF Height(bs, q) > Height(bs, s.highQC) THEN q ELSE s.highQC
             /\ t.certified \subseteq s.certified \cup {q}
             /\ t.qcVotes \subseteq s.qcVotes
  BY DEF process_qc, NodeState

LEMMA ProcessQCGood ==
  ASSUME NEW x, NEW n, NEW V, NEW W, NEW dec, NEW bs, WellFormed(bs), NEW s,
         Good(x, n, V, W, dec, bs, s), NEW q \in 0 .. Len(bs), q \in V
  PROVE  /\ Good(x, n, V, W, dec, bs, process_qc(bs, s, q))
         /\ Grows(s, process_qc(bs, s, q))
         /\ Height(bs, q) <= Height(bs, process_qc(bs, s, q).highQC)
  <1> DEFINE t == process_qc(bs, s, q)
  <1>1. s \in NodeState(Len(bs)) /\ Len(bs) \in Nat
    BY DEF Good, WellFormed
  <1>2. /\ t.epoch = s.epoch /\ t.isViewChange = s.isViewChange
        /\ t.stored = s.stored /\ t.suspended = s.suspended /\ t.orphans = s.orphans
        /\ t.voted = s.voted /\ t.timeouts = s.timeouts /\ t.delivered = s.delivered
        /\ t.height = IF Height(bs, q) < s.height THEN s.height ELSE Height(bs, q) + 1
        /\ t.highQC = IF Height(bs, q) > Height(bs, s.highQC) THEN q ELSE s.highQC
        /\ t.certified \subseteq s.certified \cup {q}
        /\ t.qcVotes \subseteq s.qcVotes
    BY <1>1, ProcessQCFields
  <1>3. t \in NodeState(Len(bs))
    <2>1. Sound({1}, bs, s)
      BY <1>1 DEF Sound
    <2>2. Sound({1}, bs, process_qc(bs, s, q))
      BY <2>1, ProcessQCSound
    <2> QED
      BY <2>2 DEF Sound
  <1>4. /\ s.highQC \in 0 .. Len(bs) /\ s.height \in Nat /\ s.stored \cup s.suspended \cup s.voted \subseteq 1 .. Len(bs)
        /\ Height(bs, s.highQC) \in Nat /\ Height(bs, q) \in Nat
    BY <1>1, Fields, HeightType
  <1> HIDE DEF t
  <1>5. /\ Height(bs, t.highQC) \in Nat
        /\ Height(bs, s.highQC) <= Height(bs, t.highQC)
        /\ Height(bs, q) <= Height(bs, t.highQC)
    BY <1>2, <1>4
  <1>6. Climbing(bs, t)
    BY <1>2, <1>4 DEF Good, Climbing
  <1>7. x = {} => Faithful(bs, t)
    <2>1. \A d \in s.stored \cup s.suspended \cup s.voted : Height(bs, bs[d].qc) \in Nat
      BY <1>4, HeightType
    <2> QED
      BY <1>2, <1>4, <1>5, <2>1 DEF Good, Faithful
  <1>8. Backed(V, dec, bs, t)
    BY <1>2 DEF Good, Backed
  <1>9. Counted(n, W, t)
    BY <1>2 DEF Good, Counted
  <1>10. Grows(s, t)
    BY <1>2, <1>4 DEF Grows
  <1> QED
    BY <1>3, <1>5, <1>6, <1>7, <1>8, <1>9, <1>10 DEF Good, t

\* What commit delivers is certified, and at most the height committed.
CommitEffect(bs, s, h, t) ==
  /\ t \in NodeState(Len(bs))
  /\ t.epoch = s.epoch /\ t.isViewChange = s.isViewChange
  /\ t.stored = s.stored /\ t.suspended = s.suspended /\ t.orphans = s.orphans
  /\ t.voted = s.voted /\ t.timeouts = s.timeouts
  /\ t.height = s.height /\ t.highQC = s.highQC /\ t.certified = s.certified
  /\ t.qcVotes = s.qcVotes /\ t.lastVoted = s.lastVoted
  /\ s.delivered \subseteq t.delivered
  /\ \A d \in t.delivered :
       d \in s.delivered \/ (d \in s.certified /\ Height(bs, d) <= h)

LEMMA CommitFields ==
  ASSUME NEW bs, WellFormed(bs), NEW s \in NodeState(Len(bs)), NEW h \in Nat,
         NEW t, t = commit(bs, s, h)
  PROVE  CommitEffect(bs, s, h, t)
  <1> DEFINE D == {d \in s.certified \cap s.stored : Height(bs, d) \in Committable(bs, s, h)}
  <1>1. t \in NodeState(Len(bs))
    <2>1. Sound({1}, bs, s)
      BY DEF Sound
    <2>2. Sound({1}, bs, commit(bs, s, h))
      BY <2>1, CommitSound
    <2> QED
      BY <2>2 DEF Sound
  <1>2. \A d \in D : d \in s.certified /\ Height(bs, d) <= h
    <2>1. \A i \in Committable(bs, s, h) : i \in (s.lastCommitted + 1) .. h
      BY DEF Committable
    <2>2. s.lastCommitted + 1 \in Int
      BY Fields DEF WellFormed
    <2> QED
      BY <2>1, <2>2
  <1>3. t = [s EXCEPT !.lastCommitted = s.lastCommitted + Cardinality(Committable(bs, s, h)),
                      !.delivered = s.delivered \cup D]
    BY DEF commit
  <1> HIDE DEF D
  <1>4. /\ t.epoch = s.epoch /\ t.isViewChange = s.isViewChange
        /\ t.stored = s.stored /\ t.suspended = s.suspended /\ t.orphans = s.orphans
        /\ t.voted = s.voted /\ t.timeouts = s.timeouts
        /\ t.height = s.height /\ t.highQC = s.highQC /\ t.certified = s.certified
        /\ t.qcVotes = s.qcVotes /\ t.lastVoted = s.lastVoted
        /\ t.delivered = s.delivered \cup D
    BY <1>3 DEF NodeState
  <1>5. /\ s.delivered \subseteq t.delivered
        /\ \A d \in t.delivered :
              d \in s.delivered \/ (d \in s.certified /\ Height(bs, d) <= h)
    BY <1>2, <1>4
  <1> QED
    BY <1>1, <1>4, <1>5 DEF CommitEffect

\* A commit up to a height that is known to survive keeps the record good.
LEMMA CommitGood ==
  ASSUME NEW x, NEW n, NEW V, NEW W, NEW dec, NEW bs, WellFormed(bs), NEW s,
         Good(x, n, V, W, dec, bs, s), NEW h \in Nat,
         \/ dec # None /\ h <= dec /\ dec \in Nat
         \/ \E b \in V \ {0} : /\ b \in 1 .. Len(bs) /\ bs[b].epoch = 0
                               /\ h <= Height(bs, bs[b].qc)
  PROVE  Good(x, n, V, W, dec, bs, commit(bs, s, h))
  <1> DEFINE t == commit(bs, s, h)
  <1>1. s \in NodeState(Len(bs)) /\ Len(bs) \in Nat
    BY DEF Good, WellFormed
  <1>2. /\ t \in NodeState(Len(bs))
        /\ t.epoch = s.epoch /\ t.isViewChange = s.isViewChange
        /\ t.stored = s.stored /\ t.suspended = s.suspended /\ t.orphans = s.orphans
        /\ t.voted = s.voted /\ t.timeouts = s.timeouts
        /\ t.height = s.height /\ t.highQC = s.highQC /\ t.certified = s.certified
        /\ t.qcVotes = s.qcVotes
        /\ s.delivered \subseteq t.delivered
        /\ \A d \in t.delivered :
              d \in s.delivered \/ (d \in s.certified /\ Height(bs, d) <= h)
    <2>1. CommitEffect(bs, s, h, t)
      BY <1>1, CommitFields
    <2> QED
      BY ONLY <2>1 DEF CommitEffect
  <1> HIDE DEF t
  <1>3. Climbing(bs, t) /\ (x = {} => Faithful(bs, t)) /\ Counted(n, W, t)
    BY <1>2 DEF Good, Climbing, Faithful, Counted
  <1>4. \A d \in t.delivered : Height(bs, d) \in Nat
    BY <1>1, <1>2, Fields, HeightType
  <1>5. \A b \in 1 .. Len(bs) : Height(bs, bs[b].qc) \in Nat
    BY <1>1, HeightType
  <1>6. \A d \in t.delivered :
          \/ dec # None /\ Height(bs, d) <= dec
          \/ \E b \in V \ {0} : bs[b].epoch = 0 /\ Height(bs, d) <= Height(bs, bs[b].qc)
    <2> TAKE d \in t.delivered
    <2>1. CASE d \in s.delivered
      BY <2>1 DEF Good, Backed
    <2>2. CASE d \notin s.delivered
      BY <1>2, <1>4, <1>5, <2>2
    <2> QED
      BY <2>1, <2>2
  <1>7. Backed(V, dec, bs, t)
    BY <1>2, <1>6 DEF Good, Backed
  <1> QED
    BY <1>2, <1>3, <1>7 DEF Good, t

\* A vote counted once per author and height.
LEMMA AddVoteGood ==
  ASSUME NEW x, NEW n, NEW V, NEW W, NEW dec, NEW bs, WellFormed(bs), NEW s,
         Good(x, n, V, W, dec, bs, s), NEW v \in [author : Node, hash : 1 .. Len(bs)],
         v \in W \/ (v.author = n /\ v.hash \in s.voted)
  PROVE  Handled(x, n, V, W, dec, bs, s, add_vote(bs, s, v))
  <1>1. s \in NodeState(Len(bs)) /\ Len(bs) \in Nat /\ s.height \in Nat
    BY Fields DEF Good, WellFormed
  <1>2. CASE ~AcceptsVote(bs, s, v)
    BY <1>1, <1>2 DEF add_vote, Grows, Handled
  <1>3. CASE AcceptsVote(bs, s, v)
    <2> DEFINE t == [s EXCEPT !.qcVotes = s.qcVotes \cup {v}]
    <2>1. t = add_vote(bs, s, v)
      BY <1>3 DEF add_vote
    <2>2. /\ t.epoch = s.epoch /\ t.isViewChange = s.isViewChange
          /\ t.stored = s.stored /\ t.suspended = s.suspended /\ t.orphans = s.orphans
          /\ t.voted = s.voted /\ t.timeouts = s.timeouts /\ t.delivered = s.delivered
          /\ t.height = s.height /\ t.highQC = s.highQC /\ t.certified = s.certified
          /\ t.qcVotes = s.qcVotes \cup {v}
      BY <1>1 DEF NodeState
    <2>3. t \in NodeState(Len(bs))
      <3>1. s.qcVotes \cup {v} \in SUBSET [author : Node, hash : 1 .. Len(bs)]
        BY <1>1, Fields
      <3> QED
        BY ONLY <1>1, <3>1, Zenon DEF NodeState
    <2> HIDE DEF t
    <2>4. Climbing(bs, t) /\ (x = {} => Faithful(bs, t)) /\ Backed(V, dec, bs, t)
      BY <2>2 DEF Good, Climbing, Faithful, Backed
    <2>5. Counted(n, W, t)
      <3>1. v \in W \cup {[author |-> n, hash |-> d] : d \in s.voted}
        OBVIOUS
      <3> QED
        BY <2>2, <3>1 DEF Good, Counted
    <2>6. Grows(s, t)
      BY <1>1, <2>2 DEF Grows
    <2> QED
      BY <2>1, <2>2, <2>3, <2>4, <2>5, <2>6 DEF Good, Handled
  <1> QED
    BY <1>2, <1>3

\* process_block of a block whose QC the node knows.
LEMMA ProcessBlockGood ==
  ASSUME NEW x, NEW n \in Node, NEW V, NEW W, NEW dec, NEW bs, WellFormed(bs), Chained(V, bs),
         NEW s, Good(x, n, V, W, dec, bs, s), NEW d \in 1 .. Len(bs),
         x = {} /\ s.epoch = 0 => Height(bs, bs[d].qc) <= Height(bs, s.highQC)
  PROVE  Handled(x, n, V, W, dec, bs, s, process_block(bs, n, s, d))
  <1> DEFINE k  == Len(bs)
             s1 == [s EXCEPT !.stored = s.stored \cup {d},
                             !.orphans = s.orphans \cup Orphans(bs, s, d)]
             s2 == IF CommitsHead(bs, s1, d)
                   THEN commit(bs, s1, Height(bs, bs[bs[d].qc].qc))
                   ELSE s1
             s3 == [s2 EXCEPT !.lastVoted = bs[d].height, !.voted = s2.voted \cup {d}]
             own == [author |-> n, hash |-> d]
  <1>1. k \in Nat /\ s \in NodeState(k) /\ bs[d].qc \in 0 .. k /\ bs[d].height \in Nat /\ bs[d].epoch \in 0 .. 1
    BY HeightType DEF WellFormed, Good
  <1>2. /\ Good(x, n, V, W, dec, bs, s1) /\ Grows(s, s1) /\ s1.epoch = s.epoch
        /\ s1.highQC = s.highQC /\ s1.voted = s.voted /\ s1.timeouts = s.timeouts
        /\ s1.height = s.height
    <2>1. Orphans(bs, s, d) \subseteq s.stored \cup {d} /\ s.stored \in SUBSET (1 .. k)
      BY <1>1, Fields DEF Orphans
    <2>2. s1 \in NodeState(k)
      <3>1. s.stored \cup {d} \in SUBSET (1 .. k) /\ s.orphans \cup Orphans(bs, s, d) \in SUBSET (1 .. k)
        BY <1>1, <2>1, Fields
      <3> QED
        BY ONLY <1>1, <3>1, Zenon DEF NodeState
    <2>3. /\ s1.epoch = s.epoch /\ s1.isViewChange = s.isViewChange
          /\ s1.stored = s.stored \cup {d} /\ s1.suspended = s.suspended
          /\ s1.orphans = s.orphans \cup Orphans(bs, s, d)
          /\ s1.voted = s.voted /\ s1.timeouts = s.timeouts /\ s1.delivered = s.delivered
          /\ s1.height = s.height /\ s1.highQC = s.highQC /\ s1.certified = s.certified
          /\ s1.qcVotes = s.qcVotes
      BY <1>1 DEF NodeState
    <2> HIDE DEF s1
    <2>4. Climbing(bs, s1) /\ Backed(V, dec, bs, s1) /\ Counted(n, W, s1)
      BY <2>1, <2>3 DEF Good, Climbing, Backed, Counted
    <2>5. x = {} => Faithful(bs, s1)
      BY <2>3 DEF Good, Faithful
    <2>6. Grows(s, s1)
      BY <1>1, <2>3, Fields DEF Grows
    <2> QED
      BY <2>2, <2>3, <2>4, <2>5, <2>6 DEF Good
  <1> HIDE DEF s1
  <1>3. /\ Good(x, n, V, W, dec, bs, s2)
        /\ s2.epoch = s.epoch /\ s2.height = s.height /\ s2.highQC = s.highQC
        /\ s2.voted = s.voted /\ s2.timeouts = s.timeouts
    <2>1. CASE CommitsHead(bs, s1, d)
      <3> DEFINE b1 == bs[d].qc
      <3>1. b1 # 0 /\ bs[b1].qc # 0 /\ bs[d].epoch = 0
        BY <1>1, <2>1 DEF CommitsHead
      <3>2. b1 \in 1 .. k /\ b1 \in V \ {0} /\ bs[b1].epoch = 0
        BY <1>1, <3>1 DEF Chained
      <3>3. bs[b1].qc \in 0 .. k
        BY <3>2, HeightType
      <3>4. Height(bs, bs[b1].qc) \in Nat
        BY <3>3, HeightType
      <3>5. s1 \in NodeState(k)
        BY <1>2 DEF Good
      <3> HIDE DEF b1
      <3>6. Good(x, n, V, W, dec, bs, commit(bs, s1, Height(bs, bs[b1].qc)))
        BY <1>2, <3>2, <3>4, CommitGood
      <3>7. s2 = commit(bs, s1, Height(bs, bs[b1].qc))
        BY <2>1 DEF b1
      <3>8. /\ s2.epoch = s1.epoch /\ s2.height = s1.height /\ s2.highQC = s1.highQC
            /\ s2.voted = s1.voted /\ s2.timeouts = s1.timeouts
        <4>1. CommitEffect(bs, s1, Height(bs, bs[b1].qc), s2)
          BY <3>4, <3>5, <3>7, CommitFields
        <4> QED
          BY ONLY <4>1 DEF CommitEffect
      <3> HIDE DEF s2
      <3> QED
        BY <1>2, <3>6, <3>7, <3>8
    <2>2. CASE ~CommitsHead(bs, s1, d)
      BY <1>2, <2>2
    <2> QED
      BY <2>1, <2>2
  <1> HIDE DEF s2
  <1>4. s2 \in NodeState(k)
    BY <1>3 DEF Good
  <1>5. CASE ~MayVote(bs, s2, d)
    <2>1. process_block(bs, n, s, d) = s2
      BY <1>5 DEF process_block, s1, s2
    <2>2. Grows(s, s2)
      BY <1>1, <1>3, Fields DEF Grows
    <2> QED
      BY <1>3, <2>1, <2>2 DEF Handled
  <1>6. CASE MayVote(bs, s2, d)
    <2>1. /\ s3.epoch = s2.epoch /\ s3.isViewChange = s2.isViewChange
          /\ s3.stored = s2.stored /\ s3.suspended = s2.suspended
          /\ s3.orphans = s2.orphans
          /\ s3.voted = s2.voted \cup {d} /\ s3.timeouts = s2.timeouts
          /\ s3.delivered = s2.delivered
          /\ s3.height = s2.height /\ s3.highQC = s2.highQC /\ s3.certified = s2.certified
          /\ s3.qcVotes = s2.qcVotes
      BY <1>4 DEF NodeState
    <2>2. s3 \in NodeState(k)
      <3>1. s2.voted \cup {d} \in SUBSET (1 .. k)
        BY <1>4, Fields
      <3> QED
        BY ONLY <1>1, <1>4, <3>1, Zenon DEF NodeState
    <2>3. ~(s2.isViewChange /\ s2.epoch = 0) /\ s2.epoch <= bs[d].epoch /\ s2.epoch \in 0 .. 1
      BY <1>4, <1>6, Fields DEF MayVote, IsNext, InViewChange
    <2> HIDE DEF s3
    <2>4. Climbing(bs, s3) /\ Backed(V, dec, bs, s3) /\ Counted(n, W, s3)
      BY <1>3, <2>1 DEF Good, Climbing, Backed, Counted
    <2>5. ASSUME x = {} PROVE Faithful(bs, s3)
      <3>1. Faithful(bs, s2)
        BY <1>3, <2>5 DEF Good
      <3>2. s3.epoch = 0 =>
              \A e \in s3.stored \cup s3.suspended \cup s3.voted :
                Height(bs, bs[e].qc) <= Height(bs, s3.highQC)
        BY <1>3, <2>1, <2>5, <3>1 DEF Faithful
      <3>3. \A e \in s3.voted, q \in s3.timeouts :
              bs[e].epoch = 0 => Height(bs, bs[e].qc) <= Height(bs, q)
        BY <1>1, <2>1, <2>3, <3>1 DEF Faithful
      <3> QED
        BY <2>1, <3>1, <3>2, <3>3 DEF Faithful
    <2>6. Good(x, n, V, W, dec, bs, s3)
      BY <2>2, <2>4, <2>5 DEF Good
    <2>7. Grows(s, s3) /\ s3.epoch = s.epoch
      BY <1>1, <1>3, <2>1, Fields DEF Grows
    <2>8. CASE n = Author
      <3>1. own \in [author : Node, hash : 1 .. k] /\ own.author = n /\ own.hash \in s3.voted
        BY <2>1
      <3>2. Handled(x, n, V, W, dec, bs, s3, add_vote(bs, s3, own))
        BY <2>6, <3>1, AddVoteGood
      <3>3. /\ Good(x, n, V, W, dec, bs, add_vote(bs, s3, own))
            /\ Grows(s3, add_vote(bs, s3, own))
            /\ add_vote(bs, s3, own).epoch = s3.epoch
        BY <3>2 DEF Handled
      <3>4. process_block(bs, n, s, d) = add_vote(bs, s3, own)
        BY <1>6, <2>8 DEF process_block, s1, s2, s3
      <3>5. /\ s.height \in Nat /\ s3.height \in Nat
            /\ add_vote(bs, s3, own).height \in Nat
        BY <1>1, <2>2, <3>3, Fields DEF Good
      <3>6. Grows(s, add_vote(bs, s3, own))
        BY <2>7, <3>3, <3>5 DEF Grows
      <3> QED
        BY <2>7, <3>3, <3>4, <3>6 DEF Handled
    <2>9. CASE n # Author
      <3>1. process_block(bs, n, s, d) = s3
        BY <1>6, <2>9 DEF process_block, s1, s2, s3
      <3> QED
        BY <2>6, <2>7, <3>1 DEF Handled
    <2> QED
      BY <2>8, <2>9
  <1> QED
    BY <1>5, <1>6

LEMMA HandleProposalGood ==
  ASSUME NEW x, NEW n \in Node, NEW V, NEW W, NEW dec, NEW bs, WellFormed(bs), Chained(V, bs),
         NEW s, Good(x, n, V, W, dec, bs, s), NEW d \in 1 .. Len(bs), NEW payload \in BOOLEAN
  PROVE  Handled(x, n, V, W, dec, bs, s, handle_proposal(bs, n, s, d, payload))
  <1> DEFINE q  == bs[d].qc
             s1 == process_qc(bs, s, q)
             t  == [s1 EXCEPT !.suspended = s1.suspended \cup {d}]
             p  == process_block(bs, n, s1, d)
  <1>1. q \in 0 .. Len(bs) /\ q \in V /\ Len(bs) \in Nat /\ s \in NodeState(Len(bs))
    BY HeightType DEF Chained, Good, WellFormed
  <1> HIDE DEF q
  <1>2. /\ Good(x, n, V, W, dec, bs, s1) /\ Grows(s, s1)
        /\ Height(bs, q) <= Height(bs, s1.highQC)
    BY <1>1, ProcessQCGood
  <1>3. s1.epoch = s.epoch /\ s1 \in NodeState(Len(bs))
    BY <1>1, <1>2, ProcessQCFields DEF Good
  <1>4. s.height \in Nat /\ s1.height \in Nat
    BY <1>1, <1>3, Fields
  <1> HIDE DEF s1
  <1>5. CASE payload
    <2>0. x = {} /\ s1.epoch = 0 => Height(bs, bs[d].qc) <= Height(bs, s1.highQC)
      BY <1>2 DEF q
    <2>1. Handled(x, n, V, W, dec, bs, s1, process_block(bs, n, s1, d))
      BY <1>2, <2>0, ProcessBlockGood
    <2>2. p = handle_proposal(bs, n, s, d, payload)
      BY <1>5 DEF handle_proposal, s1, q
    <2>3. Good(x, n, V, W, dec, bs, p) /\ Grows(s1, p) /\ p.epoch = s1.epoch
      BY <2>1 DEF Handled
    <2> HIDE DEF p
    <2>4. p.height \in Nat
      BY <1>1, <2>3, Fields DEF Good
    <2>5. Grows(s, p)
      BY <1>2, <1>4, <2>3, <2>4 DEF Grows
    <2> QED
      BY <1>3, <2>2, <2>3, <2>5 DEF Handled
  <1>6. CASE ~payload
    <2>1. /\ t.epoch = s1.epoch /\ t.isViewChange = s1.isViewChange
          /\ t.stored = s1.stored /\ t.suspended = s1.suspended \cup {d}
          /\ t.orphans = s1.orphans
          /\ t.voted = s1.voted /\ t.timeouts = s1.timeouts /\ t.delivered = s1.delivered
          /\ t.height = s1.height /\ t.highQC = s1.highQC /\ t.certified = s1.certified
          /\ t.qcVotes = s1.qcVotes
      BY <1>3 DEF NodeState
    <2>2. t \in NodeState(Len(bs))
      <3>1. s1.suspended \cup {d} \in SUBSET (1 .. Len(bs))
        BY <1>1, <1>3, Fields
      <3> QED
        BY ONLY <1>3, <3>1, Zenon DEF NodeState
    <2>3. t = handle_proposal(bs, n, s, d, payload)
      BY <1>6 DEF handle_proposal, s1, q
    <2> HIDE DEF t
    <2>4. Climbing(bs, t) /\ Backed(V, dec, bs, t) /\ Counted(n, W, t)
      BY <1>2, <2>1 DEF Good, Climbing, Backed, Counted
    <2>5. x = {} => Faithful(bs, t)
      BY <1>2, <2>1 DEF Good, Faithful, q
    <2>6. Grows(s, t)
      BY <1>2, <2>1 DEF Grows
    <2> QED
      BY <1>3, <2>1, <2>2, <2>3, <2>4, <2>5, <2>6 DEF Good, Handled
  <1> QED
    BY <1>5, <1>6

\* The good record s of a node becomes t when the node enters epoch 1.
Advanced(x, n, V, W, v, bs, s, t) ==
  /\ Good(x, n, V, W, v, bs, t)
  /\ t.epoch = 1 /\ t.height = v + NEXT_EPOCH_HEIGHT
  /\ t.voted = s.voted /\ t.timeouts = s.timeouts

\* The node changes epoch: what it delivers is not above the height decided.
LEMMA AdvanceEpochGood ==
  ASSUME NEW x, NEW n, NEW V, NEW W, NEW v \in Nat, NEW dec, dec = None \/ dec = v,
         NEW bs, WellFormed(bs), 0 \in V, NEW s, Good(x, n, V, W, dec, bs, s), s.epoch = 0
  PROVE  Advanced(x, n, V, W, v, bs, s, advance_epoch(bs, s, v))
  <1> DEFINE k == Len(bs)
             c == commit(bs, s, v)
             h == v + NEXT_EPOCH_HEIGHT
             p == h - 1
             w == {d \in c.certified : Height(bs, d) > v}
             t == [c EXCEPT !.epoch = 1, !.height = h, !.lastCommitted = p, !.highQC = 0,
                            !.certified = w, !.isViewChange = FALSE]
  <1>1. k \in Nat /\ s \in NodeState(k)
    BY DEF Good, WellFormed
  <1>2. Good(x, n, V, W, v, bs, s)
    <2>1. \A d \in s.delivered :
            \/ v # None /\ Height(bs, d) <= v
            \/ \E b \in V \ {0} : bs[b].epoch = 0 /\ Height(bs, d) <= Height(bs, bs[b].qc)
      BY DEF Good, Backed
    <2> QED
      BY <2>1 DEF Good, Backed
  <1>3. Good(x, n, V, W, v, bs, c)
    <2>1. v # None /\ v <= v
      BY DEF None
    <2> QED
      BY <1>2, <2>1, CommitGood
  <1>4. /\ c \in NodeState(k) /\ c.voted = s.voted /\ c.timeouts = s.timeouts
        /\ c.qcVotes = s.qcVotes /\ c.epoch = 0
    <2>1. CommitEffect(bs, s, v, c)
      BY <1>1, CommitFields
    <2> QED
      BY <2>1 DEF CommitEffect
  <1> HIDE DEF c
  <1>5. /\ 1 \in 0 .. 1 /\ h \in Nat \ {0} /\ h - 1 \in Nat /\ 0 \in 0 .. k
        /\ {d \in c.certified : Height(bs, d) > v} \in SUBSET (0 .. k)
        /\ FALSE \in BOOLEAN
    BY <1>1, <1>4, Fields, ChainAssumption
  <1>6. t \in NodeState(k)
    <2>1. /\ c \in NodeState(k) /\ 1 \in 0 .. 1 /\ h \in Nat \ {0} /\ p \in Nat
          /\ 0 \in 0 .. k /\ w \in SUBSET (0 .. k) /\ FALSE \in BOOLEAN
      BY ONLY <1>4, <1>5, Zenon
    <2> HIDE DEF h, k, p, w
    <2> QED
      BY ONLY <2>1, Zenon DEF NodeState
  <1>7. t = advance_epoch(bs, s, v)
    BY Zenon DEF advance_epoch, c
  <1>8. /\ t.epoch = 1 /\ t.isViewChange = FALSE
        /\ t.stored = c.stored /\ t.suspended = c.suspended /\ t.orphans = c.orphans
        /\ t.voted = c.voted /\ t.timeouts = c.timeouts /\ t.delivered = c.delivered
        /\ t.height = h /\ t.highQC = 0 /\ t.certified \subseteq c.certified
        /\ t.qcVotes = c.qcVotes
    BY <1>4 DEF NodeState
  <1> HIDE DEF t
  <1>9. Climbing(bs, t) /\ Backed(V, v, bs, t) /\ Counted(n, W, t)
    BY <1>3, <1>8 DEF Good, Climbing, Backed, Counted
  <1>10. x = {} => Faithful(bs, t)
    BY <1>3, <1>8 DEF Good, Faithful
  <1> QED
    BY <1>4, <1>6, <1>7, <1>8, <1>9, <1>10 DEF Good, Advanced

\* The timeout a node sends covers its votes.
LEMMA CheckTimeoutGood ==
  ASSUME NEW x, NEW n, NEW V, NEW W, NEW dec, NEW bs, WellFormed(bs), NEW s,
         Good(x, n, V, W, dec, bs, s), NEW tc \in BOOLEAN
  PROVE  Handled(x, n, V, W, dec, bs, s, check_timeout(bs, s, tc))
  <1> DEFINE k  == Len(bs)
             lv == IF s.lastVoted < s.height THEN s.height ELSE s.lastVoted
             s1 == [s EXCEPT !.isViewChange = TRUE, !.lastVoted = lv,
                             !.timeouts = s.timeouts \cup {s.highQC}]
             t  == [s EXCEPT !.isViewChange = TRUE]
             p  == process_qc(bs, s1, s.highQC)
  <1>1. k \in Nat /\ s \in NodeState(k) /\ s.height \in Nat /\ s.highQC \in 0 .. k
        /\ s.highQC \in V
    BY Fields DEF WellFormed, Good, Backed
  <1>2. lv \in Nat /\ s.timeouts \cup {s.highQC} \in SUBSET (0 .. k)
    BY <1>1, Fields
  <1> HIDE DEF lv
  <1>3. ASSUME s.epoch = 0
        PROVE  Good(x, n, V, W, dec, bs, t) /\ Grows(s, t) /\ t.epoch = s.epoch
    <2>1. t \in NodeState(k)
      BY ONLY <1>1, Zenon DEF NodeState
    <2>2. /\ t.epoch = s.epoch /\ t.isViewChange = TRUE
          /\ t.stored = s.stored /\ t.suspended = s.suspended /\ t.orphans = s.orphans
          /\ t.voted = s.voted /\ t.timeouts = s.timeouts /\ t.delivered = s.delivered
          /\ t.height = s.height /\ t.highQC = s.highQC /\ t.certified = s.certified
          /\ t.qcVotes = s.qcVotes
      BY <1>1 DEF NodeState
    <2> HIDE DEF t
    <2>3. Climbing(bs, t) /\ Backed(V, dec, bs, t) /\ Counted(n, W, t)
      BY <2>2 DEF Good, Climbing, Backed, Counted
    <2>4. x = {} => Faithful(bs, t)
      BY <2>2 DEF Good, Faithful
    <2> QED
      BY <1>1, <2>1, <2>2, <2>3, <2>4 DEF Good, Grows
  <1>4. ASSUME s.epoch = 0
        PROVE  Good(x, n, V, W, dec, bs, s1) /\ Grows(s, s1) /\ s1.epoch = s.epoch
    <2>1. s1 \in NodeState(k)
      BY ONLY <1>1, <1>2, Zenon DEF NodeState
    <2>2. /\ s1.epoch = s.epoch /\ s1.isViewChange = TRUE
          /\ s1.stored = s.stored /\ s1.suspended = s.suspended /\ s1.orphans = s.orphans
          /\ s1.voted = s.voted /\ s1.timeouts = s.timeouts \cup {s.highQC}
          /\ s1.delivered = s.delivered
          /\ s1.height = s.height /\ s1.highQC = s.highQC /\ s1.certified = s.certified
          /\ s1.qcVotes = s.qcVotes
      BY <1>1 DEF NodeState
    <2> HIDE DEF s1
    <2>3. Climbing(bs, s1) /\ Backed(V, dec, bs, s1) /\ Counted(n, W, s1)
      BY <2>2 DEF Good, Climbing, Backed, Counted
    <2>4. x = {} => Faithful(bs, s1)
      BY <1>4, <2>2 DEF Good, Faithful
    <2> QED
      BY <1>1, <2>1, <2>2, <2>3, <2>4 DEF Good, Grows
  <1>5. ASSUME s.epoch = 0
        PROVE  Good(x, n, V, W, dec, bs, p) /\ Grows(s, p) /\ p.epoch = s.epoch
    <2>1. Good(x, n, V, W, dec, bs, s1) /\ Grows(s, s1) /\ s1.epoch = s.epoch
      BY <1>4, <1>5
    <2> HIDE DEF s1
    <2>2. Good(x, n, V, W, dec, bs, p) /\ Grows(s1, p)
      BY <1>1, <2>1, ProcessQCGood
    <2>3. p.epoch = s1.epoch /\ s1.height \in Nat /\ p.height \in Nat
      BY <1>1, <2>1, <2>2, ProcessQCFields, Fields DEF Good
    <2>4. Grows(s, p)
      BY <1>1, <2>1, <2>2, <2>3 DEF Grows
    <2> QED
      BY <2>1, <2>2, <2>3, <2>4
  <1>6. Grows(s, s)
    BY <1>1 DEF Grows
  <1>7. \/ check_timeout(bs, s, tc) = s
        \/ s.epoch = 0 /\ check_timeout(bs, s, tc) = t
        \/ s.epoch = 0 /\ check_timeout(bs, s, tc) = p
    <2>1. s.epoch = 0 => s1.epoch = 0
      BY <1>1 DEF NodeState
    <2>2. s.epoch = 0 => handle_timeout(bs, s1, s.highQC) = p
      BY <2>1 DEF handle_timeout
    <2>3. check_timeout(bs, s, tc) =
            IF s.epoch # 0 THEN s
            ELSE IF tc THEN t
            ELSE IF s.isViewChange \/ s.height + LAMBDA_VAL >= s.others THEN s
            ELSE handle_timeout(bs, s1, s.highQC)
      BY DEF check_timeout, lv
    <2> HIDE DEF s1, t, p
    <2> QED
      BY <2>2, <2>3
  <1> HIDE DEF t, p
  <1> QED
    BY <1>3, <1>5, <1>6, <1>7 DEF Handled

\* The chain bs is the beginning of the chain cs.
Extends(bs, cs) ==
  Len(bs) <= Len(cs) /\ \A d \in 1 .. Len(bs) : cs[d] = bs[d]

LEMMA AppendExtends ==
  ASSUME NEW bs, WellFormed(bs), NEW b \in Block(Len(bs))
  PROVE  /\ WellFormed(Append(bs, b)) /\ Extends(bs, Append(bs, b))
         /\ Len(Append(bs, b)) = Len(bs) + 1 /\ Append(bs, b)[Len(bs) + 1] = b
  <1>1. bs \in Seq(Block(Len(bs))) /\ Len(bs) \in Nat
    BY DEF WellFormed
  <1>2. WellFormed(Append(bs, b)) /\ Len(Append(bs, b)) = Len(bs) + 1
    BY AppendSound
  <1>3. \A d \in 1 .. Len(bs) : Append(bs, b)[d] = bs[d]
    BY <1>1
  <1>4. Append(bs, b)[Len(bs) + 1] = b
    BY <1>1
  <1> QED
    BY <1>1, <1>2, <1>3, <1>4 DEF Extends

LEMMA SameHeights ==
  ASSUME NEW bs, WellFormed(bs), NEW cs, Extends(bs, cs)
  PROVE  /\ \A d \in 0 .. Len(bs) : Height(cs, d) = Height(bs, d)
         /\ \A d \in 1 .. Len(bs) : /\ cs[d] = bs[d]
                                    /\ Height(cs, cs[d].qc) = Height(bs, bs[d].qc)
  <1>1. \A d \in 0 .. Len(bs) : Height(cs, d) = Height(bs, d)
    BY DEF Extends, Height, WellFormed
  <1>2. \A d \in 1 .. Len(bs) : bs[d].qc \in 0 .. Len(bs)
    BY HeightType
  <1> QED
    BY <1>1, <1>2 DEF Extends

LEMMA NodeStateGrows ==
  ASSUME NEW j \in Nat, NEW k \in Nat, j <= k
  PROVE  NodeState(j) \subseteq NodeState(k)
  <1>1. 0 .. j \subseteq 0 .. k /\ 1 .. j \subseteq 1 .. k
    OBVIOUS
  <1>2. SUBSET [author : Node, hash : 1 .. j] \subseteq SUBSET [author : Node, hash : 1 .. k]
    BY <1>1
  <1>3. SUBSET (0 .. j) \subseteq SUBSET (0 .. k) /\ SUBSET (1 .. j) \subseteq SUBSET (1 .. k)
    BY <1>1
  <1> QED
    BY <1>1, <1>2, <1>3 DEF NodeState

\* More votes, more certificates and more blocks leave a good record good.
LEMMA GoodGrows ==
  ASSUME NEW x, NEW n, NEW V, NEW V2, V \subseteq V2, NEW W, NEW W2, W \subseteq W2,
         NEW dec, NEW dec2, dec = None \/ dec2 = dec,
         NEW bs, WellFormed(bs), V \subseteq 0 .. Len(bs),
         NEW cs, WellFormed(cs), Extends(bs, cs), NEW s, Good(x, n, V, W, dec, bs, s)
  PROVE  Good(x, n, V2, W2, dec2, cs, s)
  <1>1. /\ Len(bs) \in Nat /\ Len(cs) \in Nat /\ Len(bs) <= Len(cs)
        /\ s \in NodeState(Len(bs))
    BY DEF WellFormed, Extends, Good
  <1>2. s \in NodeState(Len(cs))
    BY <1>1, NodeStateGrows
  <1>3. /\ s.highQC \in 0 .. Len(bs) /\ s.timeouts \subseteq 0 .. Len(bs)
        /\ s.stored \cup s.suspended \cup s.voted \cup s.delivered \subseteq 1 .. Len(bs)
    BY <1>1, Fields
  <1>4. /\ \A d \in 0 .. Len(bs) : Height(cs, d) = Height(bs, d)
        /\ \A d \in 1 .. Len(bs) : /\ cs[d] = bs[d]
                                   /\ Height(cs, cs[d].qc) = Height(bs, bs[d].qc)
    BY SameHeights
  <1>5. Climbing(cs, s)
    BY <1>3, <1>4 DEF Good, Climbing
  <1>6. x = {} => Faithful(cs, s)
    BY <1>3, <1>4 DEF Good, Faithful
  <1>7. Backed(V2, dec2, cs, s)
    <2>1. Backed(V, dec, bs, s)
      BY DEF Good
    <2>2. s.certified \subseteq V2 /\ s.highQC \in V2 /\ s.delivered \subseteq V2
      BY <2>1 DEF Backed
    <2>3. ASSUME NEW d \in s.delivered
          PROVE  \/ dec2 # None /\ Height(cs, d) <= dec2
                 \/ \E b \in V2 \ {0} : cs[b].epoch = 0 /\ Height(cs, d) <= Height(cs, cs[b].qc)
      <3>1. Height(cs, d) = Height(bs, d)
        BY <1>1, <1>3, <1>4
      <3>2. CASE dec # None /\ Height(bs, d) <= dec
        BY <3>1, <3>2
      <3>3. CASE \E b \in V \ {0} : bs[b].epoch = 0 /\ Height(bs, d) <= Height(bs, bs[b].qc)
        <4>1. PICK b \in V \ {0} : bs[b].epoch = 0 /\ Height(bs, d) <= Height(bs, bs[b].qc)
          BY <3>3
        <4>2. b \in 1 .. Len(bs)
          BY <1>1, <4>1
        <4> QED
          BY <1>4, <3>1, <4>1, <4>2
      <3> QED
        BY <2>1, <3>2, <3>3 DEF Backed
    <2> QED
      BY <2>2, <2>3 DEF Backed
  <1>8. Counted(n, W2, s)
    BY DEF Good, Counted
  <1> QED
    BY <1>2, <1>5, <1>6, <1>7, <1>8 DEF Good

\* A vote or a timeout that was sent stays sent.
Remembered == \A m \in Node : /\ node[m].voted \subseteq node'[m].voted
                              /\ node[m].timeouts \subseteq node'[m].timeouts

LEMMA MoreVoters ==
  ASSUME NEW P \in Quorum, NEW Q \in SUBSET Node, P \subseteq Q
  PROVE  Q \in Quorum
  <1>1. IsFiniteSet(Q) /\ IsFiniteSet(P) /\ Cardinality(P) <= Cardinality(Q)
    BY CommitteeAssumption, FS_Subset
  <1>2. Cardinality(P) \in Nat /\ Cardinality(Q) \in Nat /\ quorum_threshold \in Nat
    BY <1>1, FS_CardinalityType, Thresholds
  <1> QED
    BY <1>1, <1>2 DEF Quorum

LEMMA StaysValid ==
  ASSUME Remembered, Len(blocks) \in Nat, Len(blocks') \in Nat, Extends(blocks, blocks')
  PROVE  Valid \subseteq Valid' /\ Cast \subseteq Cast'
  <1>1. Faulty \subseteq Node
    BY ChainAssumption
  <1>2. ASSUME NEW d \in Valid PROVE d \in Valid'
    <2>1. d \in 0 .. Len(blocks) /\ ValidQC(d)
      BY <1>2 DEF Valid
    <2>2. CASE d = 0 \/ blocks[d].author # Author
      <3>1. d = 0 \/ blocks'[d] = blocks[d]
        BY <2>1 DEF Extends
      <3>2. d \in 0 .. Len(blocks')
        BY <2>1 DEF Extends
      <3> QED
        BY <2>2, <3>1, <3>2 DEF Valid, ValidQC
    <2>3. CASE d # 0 /\ blocks[d].author = Author
      <3> DEFINE P == Voters(d)
                 Q == {n \in Node : d \in node'[n].voted} \cup Faulty
      <3>1. P \in Quorum
        BY <2>1, <2>3 DEF ValidQC
      <3>2. Q \in SUBSET Node /\ P \subseteq Q
        BY <1>1 DEF Voters, Remembered
      <3> HIDE DEF P, Q
      <3>3. Q \in Quorum
        BY <3>1, <3>2, MoreVoters
      <3> QED
        BY <2>1, <3>3 DEF Valid, ValidQC, Voters, Q, Extends
    <2> QED
      BY <2>2, <2>3
  <1>3. Cast \subseteq Cast'
    BY DEF Cast, Digest, Remembered, Extends
  <1> QED
    BY <1>2, <1>3

\* A quorum that timed out no higher than v leaves no room for a certified
\* block whose parent is higher: one of the quorum voted for the block.
LEMMA EndedParents ==
  ASSUME Inv, \A n \in Correct \ restarted : Faithful(blocks, node[n]),
         NEW v \in Nat, Ended(v), NEW b \in Valid \ {0}, blocks[b].epoch = 0,
         blocks[b].author = Author
  PROVE  b \in Digest /\ Height(blocks, blocks[b].qc) <= v
  <1> DEFINE Q == {m \in Correct : \E q \in node[m].timeouts : Height(blocks, q) <= v} \cup Faulty
  <1>1. WellFormed(blocks) /\ Len(blocks) \in Nat /\ b \in 1 .. Len(blocks)
    BY DEF Inv, WellFormed, Valid
  <1>2. Voters(b) \in Quorum /\ Q \in Quorum
    BY <1>1 DEF Valid, ValidQC, Ended
  <1>3. PICK n \in Voters(b) \cap Q : n \notin Faulty \cup restarted
    <2>1. Faulty \cup restarted \subseteq Node /\ Cardinality(Faulty \cup restarted) <= MaxFaulty
      BY ChainAssumption DEF Inv, Correct
    <2> QED
      BY <1>2, <2>1, QuorumIntersection
  <1>4. PICK q \in node[n].timeouts : Height(blocks, q) <= v
    BY <1>3
  <1>5. n \in Correct /\ n \in Node /\ b \in node[n].voted
    BY <1>3 DEF Voters, Correct
  <1>6. Height(blocks, blocks[b].qc) <= Height(blocks, q)
    BY <1>3, <1>4, <1>5 DEF Faithful
  <1>7. Height(blocks, blocks[b].qc) \in Nat /\ Height(blocks, q) \in Nat
    <2>1. node[n] \in NodeState(Len(blocks))
      BY <1>5 DEF Inv
    <2>2. q \in 0 .. Len(blocks)
      BY <1>1, <1>4, <2>1, Fields
    <2> QED
      BY <1>1, <2>2, HeightType
  <1> QED
    BY <1>1, <1>4, <1>6, <1>7 DEF Digest

LEMMA EndedBounds ==
  ASSUME Inv, Solid, NEW v \in Nat, Ended(v), NEW b \in Valid \ {0}, blocks[b].epoch = 0
  PROVE  b \in Digest /\ Height(blocks, blocks[b].qc) <= v
  <1>1. b \in 1 .. Len(blocks)
    BY DEF Valid
  <1>2. blocks[b].author = Author
    BY <1>1 DEF Solid, Chained
  <1> QED
    BY <1>2, EndedParents DEF Solid

LEMMA StaysEnded ==
  ASSUME Inv, Remembered, Extends(blocks, blocks'), NEW v, Ended(v)
  PROVE  Ended(v)'
  <1> DEFINE P == {m \in Correct : \E q \in node[m].timeouts : Height(blocks, q) <= v} \cup Faulty
             Q == {m \in Correct : \E q \in node'[m].timeouts : Height(blocks', q) <= v} \cup Faulty
  <1>1. P \in Quorum
    BY DEF Ended
  <1>2. Q \in SUBSET Node
    BY ChainAssumption DEF Correct
  <1>3. ASSUME NEW m \in Correct, NEW q \in node[m].timeouts, Height(blocks, q) <= v
        PROVE  q \in node'[m].timeouts /\ Height(blocks', q) <= v
    <2>1. m \in Node /\ node[m] \in NodeState(Len(blocks)) /\ WellFormed(blocks) /\ Len(blocks) \in Nat
      BY DEF Inv, Correct, WellFormed
    <2>2. q \in 0 .. Len(blocks)
      BY <2>1, Fields
    <2>3. Height(blocks', q) = Height(blocks, q)
      BY <2>1, <2>2, SameHeights
    <2> QED
      BY <1>3, <2>1, <2>3 DEF Remembered
  <1>4. P \subseteq Q
    BY <1>3
  <1> HIDE DEF P
  <1>5. Q \in Quorum
    <2> HIDE DEF Q
    <2> QED
      BY <1>1, <1>2, <1>4, MoreVoters
  <1> QED
    BY <1>5 DEF Ended, Correct

LEMMA SolidStep ==
  ASSUME Inv, Inv', Solid, Remembered, Extends(blocks, blocks'),
         NEW v, decided' = v, decided = None \/ v = decided, v # None => Ended(v),
         Chained(Valid, blocks'),
         Author \in Correct => Authored(blocks', node'[Author]),
         \A n \in Correct : Good({n} \cap restarted', n, Valid, Cast, v, blocks', node'[n])
  PROVE  Solid'
  <1>1. WellFormed(blocks') /\ Len(blocks) \in Nat /\ Len(blocks') \in Nat /\ Len(blocks) <= Len(blocks')
    BY DEF Inv, WellFormed, Extends
  <1>2. Valid \subseteq Valid' /\ Cast \subseteq Cast'
    BY <1>1, StaysValid
  <1>3. Chained(Valid', blocks')
    BY <1>2 DEF Chained
  <1>4. v # None => Ended(v)'
    BY StaysEnded
  <1>5. ASSUME NEW n \in Correct
        PROVE  /\ Climbing(blocks', node'[n])
               /\ n \notin restarted' => Faithful(blocks', node'[n])
               /\ Backed(Valid', decided', blocks', node'[n])
               /\ Counted(n, Cast', node'[n])
    <2> DEFINE x == {n} \cap restarted'
    <2>1. Valid \subseteq 0 .. Len(blocks') /\ Extends(blocks', blocks')
      BY <1>1 DEF Valid, Extends
    <2>2. Good(x, n, Valid, Cast, v, blocks', node'[n])
      OBVIOUS
    <2>3. n \notin restarted' => x = {}
      OBVIOUS
    <2> HIDE DEF x
    <2>4. Good(x, n, Valid', Cast', v, blocks', node'[n])
      BY <1>1, <1>2, <2>1, <2>2, GoodGrows
    <2> QED
      BY <2>3, <2>4 DEF Good
  <1> QED
    BY <1>3, <1>4, <1>5 DEF Solid, Correct

\* One iteration of the loop of node n, whose handler leaves it in s.
LEMMA IterationSolid ==
  ASSUME Inv, Inv', Solid, NEW n \in Correct, NEW bs, WellFormed(bs), Extends(blocks, bs),
         NEW s, NEW tc \in BOOLEAN, Iteration(n, bs, s, tc), restarted' = restarted,
         NEW v, decided' = v, decided = None \/ v = decided, v # None => Ended(v),
         Chained(Valid, bs), Good(Excuse(n), n, Valid, Cast, v, bs, s),
         node[n].voted \subseteq s.voted, node[n].timeouts \subseteq s.timeouts,
         Author \in Correct => Authored(bs, IF n = Author THEN s ELSE node[Author])
  PROVE  Solid'
  <1> DEFINE t == check_timeout(bs, s, tc)
  <1>1. Handled(Excuse(n), n, Valid, Cast, v, bs, s, t)
    BY CheckTimeoutGood
  <1>2. Good(Excuse(n), n, Valid, Cast, v, bs, t) /\ Grows(s, t) /\ t.epoch = s.epoch
    BY <1>1 DEF Handled
  <1>3. blocks' = bs /\ node' = [node EXCEPT ![n] = t]
    BY DEF Iteration
  <1>4. n \in Node /\ node'[n] = t /\ \A m \in Node \ {n} : node'[m] = node[m]
    BY <1>3 DEF Inv, Correct
  <1> HIDE DEF t
  <1>5. Remembered
    BY <1>2, <1>4 DEF Remembered, Grows
  <1>6. Author \in Correct => Authored(blocks', node'[Author])
    <2>1. CASE n = Author
      <3>1. /\ s.height \in Nat /\ t.height \in Nat /\ Len(bs) \in Nat
            /\ \A d \in 1 .. Len(bs) : bs[d].height \in Nat
        BY <1>2, HeightType, Fields DEF Good, WellFormed
      <3> QED
        BY <1>2, <1>3, <1>4, <2>1, <3>1 DEF Authored, Grows
    <2>2. CASE n # Author
      BY <1>3, <1>4, <2>2 DEF Correct
    <2> QED
      BY <2>1, <2>2
  <1>7. ASSUME NEW m \in Correct
        PROVE  Good({m} \cap restarted', m, Valid, Cast, v, blocks', node'[m])
    <2>1. CASE m = n
      BY <1>2, <1>3, <1>4, <2>1 DEF Excuse
    <2>2. CASE m # n
      <3> DEFINE x == {m} \cap restarted
      <3>1. m \in Node /\ node'[m] = node[m]
        BY <1>4, <2>2 DEF Correct
      <3>2. Good(x, m, Valid, Cast, decided, blocks, node[m])
        BY <3>1 DEF Inv, Solid, Good
      <3>3. WellFormed(blocks) /\ Valid \subseteq 0 .. Len(blocks)
        BY DEF Inv, Valid
      <3> HIDE DEF x
      <3>4. Good(x, m, Valid, Cast, v, bs, node[m])
        BY <3>2, <3>3, GoodGrows
      <3> QED
        BY <1>3, <3>1, <3>4 DEF x
    <2> QED
      BY <2>1, <2>2
  <1> QED
    BY <1>3, <1>5, <1>6, <1>7, SolidStep

LEMMA SolidFacts ==
  ASSUME Inv, Solid
  PROVE  /\ WellFormed(blocks) /\ Len(blocks) \in Nat /\ Digest = 1 .. Len(blocks)
         /\ Extends(blocks, blocks) /\ Chained(Valid, blocks)
         /\ Valid \subseteq 0 .. Len(blocks) /\ 0 \in Valid
         /\ Correct \subseteq Node /\ Author \in Node
         /\ decided # None => Ended(decided)
         /\ Author \in Correct => Authored(blocks, node[Author])
         /\ \A n \in Correct : /\ node[n] \in NodeState(Len(blocks))
                               /\ Good(Excuse(n), n, Valid, Cast, decided, blocks, node[n])
  <1>1. /\ WellFormed(blocks) /\ Len(blocks) \in Nat /\ Digest = 1 .. Len(blocks)
        /\ Extends(blocks, blocks) /\ Chained(Valid, blocks)
        /\ Valid \subseteq 0 .. Len(blocks) /\ 0 \in Valid
        /\ Correct \subseteq Node /\ Author \in Node
    BY ChainAssumption DEF Inv, Solid, WellFormed, Digest, Extends, Valid, ValidQC, Correct
  <1>2. \A n \in Correct : Good(Excuse(n), n, Valid, Cast, decided, blocks, node[n])
    BY <1>1 DEF Inv, Solid, Good, Excuse
  <1> QED
    BY <1>1, <1>2 DEF Solid, Good

\* An iteration in which the node stays in its epoch and proposes nothing.
LEMMA QuietIteration ==
  ASSUME Inv, Inv', Solid, NEW n \in Correct, NEW s, NEW tc \in BOOLEAN,
         Iteration(n, blocks, s, tc), UNCHANGED <<decided, restarted>>,
         Handled(Excuse(n), n, Valid, Cast, decided, blocks, node[n], s)
  PROVE  Solid'
  <1>1. /\ Good(Excuse(n), n, Valid, Cast, decided, blocks, s)
        /\ node[n].voted \subseteq s.voted /\ node[n].timeouts \subseteq s.timeouts
        /\ node[n].height <= s.height /\ s.epoch = node[n].epoch
    BY DEF Handled, Grows
  <1>2. Author \in Correct => Authored(blocks, IF n = Author THEN s ELSE node[Author])
    <2>1. /\ s.height \in Nat /\ node[n].height \in Nat
          /\ \A d \in 1 .. Len(blocks) : blocks[d].height \in Nat
      BY <1>1, SolidFacts, HeightType, Fields DEF Good
    <2> QED
      BY <1>1, <2>1, SolidFacts DEF Authored
  <1> DEFINE v == decided
  <1>3. decided' = v /\ v = decided /\ (v # None => Ended(v)) /\ restarted' = restarted
    BY SolidFacts
  <1>4. Good(Excuse(n), n, Valid, Cast, v, blocks, s)
    BY <1>1
  <1> HIDE DEF v
  <1> QED
    BY <1>1, <1>2, <1>3, <1>4, SolidFacts, IterationSolid

LEMMA HandleProposalSolid ==
  ASSUME Inv, Inv', Solid, NEW n \in Correct, NEW d \in Digest, NEW payload \in BOOLEAN,
         HandleProposal(n, d, payload)
  PROVE  Solid'
  <1> DEFINE s == handle_proposal(blocks, n, node[n], d, payload)
  <1>1. Handled(Excuse(n), n, Valid, Cast, decided, blocks, node[n], s)
    BY SolidFacts, HandleProposalGood
  <1>2. Iteration(n, blocks, s, FALSE) /\ UNCHANGED <<decided, restarted>>
    BY DEF HandleProposal
  <1> HIDE DEF s
  <1> QED
    BY <1>1, <1>2, QuietIteration

LEMMA LoopBackSolid ==
  ASSUME Inv, Inv', Solid, NEW n \in Correct, NEW d \in Digest, LoopBack(n, d)
  PROVE  Solid'
  <1> DEFINE k == Len(blocks)
             s == node[n]
             t == [s EXCEPT !.suspended = s.suspended \ {d}, !.orphans = s.orphans \ {d}]
             p == process_block(blocks, n, t, d)
  <1>1. s \in NodeState(k) /\ k \in Nat /\ d \in 1 .. k /\ n \in Node
    BY SolidFacts
  <1>2. t \in NodeState(k)
    <2>1. s.suspended \ {d} \in SUBSET (1 .. k) /\ s.orphans \ {d} \in SUBSET (1 .. k)
      BY <1>1, Fields
    <2> QED
      BY ONLY <1>1, <2>1, Zenon DEF NodeState
  <1>3. /\ t.epoch = s.epoch /\ t.isViewChange = s.isViewChange
        /\ t.stored = s.stored /\ t.suspended \subseteq s.suspended
        /\ t.orphans \subseteq s.orphans
        /\ t.voted = s.voted /\ t.timeouts = s.timeouts /\ t.delivered = s.delivered
        /\ t.height = s.height /\ t.highQC = s.highQC /\ t.certified = s.certified
        /\ t.qcVotes = s.qcVotes
    BY <1>1 DEF NodeState
  <1>4. Iteration(n, blocks, p, FALSE) /\ UNCHANGED <<decided, restarted>>
    BY Zenon DEF LoopBack
  <1>5. d \in s.suspended \cup s.orphans
    BY DEF LoopBack
  <1> HIDE DEF t
  <1>6. Good(Excuse(n), n, Valid, Cast, decided, blocks, s)
    BY SolidFacts
  <1>7. Good(Excuse(n), n, Valid, Cast, decided, blocks, t)
    <2>1. Climbing(blocks, t) /\ Backed(Valid, decided, blocks, t) /\ Counted(n, Cast, t)
      BY <1>3, <1>6 DEF Good, Climbing, Backed, Counted
    <2>2. Excuse(n) = {} => Faithful(blocks, t)
      BY <1>3, <1>6 DEF Good, Faithful
    <2> QED
      BY <1>2, <2>1, <2>2 DEF Good
  <1>8. Excuse(n) = {} /\ t.epoch = 0 =>
          Height(blocks, blocks[d].qc) <= Height(blocks, t.highQC)
    BY <1>3, <1>5, <1>6 DEF Good, Climbing, Faithful
  <1>9. Handled(Excuse(n), n, Valid, Cast, decided, blocks, t, p)
    <2> DEFINE x == Excuse(n)
    <2>1. Good(x, n, Valid, Cast, decided, blocks, t)
      BY <1>7
    <2>2. x = {} /\ t.epoch = 0 => Height(blocks, blocks[d].qc) <= Height(blocks, t.highQC)
      BY <1>8
    <2> HIDE DEF x
    <2>3. Handled(x, n, Valid, Cast, decided, blocks, t, process_block(blocks, n, t, d))
      BY <1>1, <2>1, <2>2, SolidFacts, ProcessBlockGood
    <2> QED
      BY <2>3 DEF x
  <1>10. Handled(Excuse(n), n, Valid, Cast, decided, blocks, s, p)
    BY <1>3, <1>9 DEF Handled, Grows
  <1> HIDE DEF p, s
  <1> QED
    BY <1>4, <1>10, QuietIteration DEF s

LEMMA HandleTimeoutSolid ==
  ASSUME Inv, Inv', Solid, NEW n \in Correct, NEW m, NEW q \in Digest \cup {0},
         HandleTimeout(n, m, q)
  PROVE  Solid'
  <1> DEFINE s == node[n]
             t == handle_timeout(blocks, s, q)
             p == process_qc(blocks, s, q)
  <1>1. q \in 0 .. Len(blocks) /\ q \in Valid
    BY SolidFacts DEF HandleTimeout, Valid
  <1>2. s \in NodeState(Len(blocks)) /\ Len(blocks) \in Nat /\ s.height \in Nat
    BY SolidFacts, Fields
  <1>3. Good(Excuse(n), n, Valid, Cast, decided, blocks, s)
    BY SolidFacts
  <1>4. Good(Excuse(n), n, Valid, Cast, decided, blocks, p) /\ Grows(s, p)
    BY <1>1, <1>3, SolidFacts, ProcessQCGood
  <1>5. p.epoch = s.epoch
    BY <1>1, <1>2, SolidFacts, ProcessQCFields
  <1>6. t = s \/ t = p
    BY DEF handle_timeout
  <1>7. Iteration(n, blocks, t, FALSE) /\ UNCHANGED <<decided, restarted>>
    BY DEF HandleTimeout
  <1>8. Handled(Excuse(n), n, Valid, Cast, decided, blocks, s, s)
    BY <1>2, <1>3 DEF Handled, Grows
  <1>9. Handled(Excuse(n), n, Valid, Cast, decided, blocks, s, p)
    BY <1>4, <1>5 DEF Handled
  <1> HIDE DEF t, p
  <1> QED
    BY <1>6, <1>7, <1>8, <1>9, QuietIteration

LEMMA HandleTCSolid ==
  ASSUME Inv, Inv', Solid, NEW n \in Correct, HandleTC(n)
  PROVE  Solid'
  <1>1. node[n].height \in Nat
    BY SolidFacts, Fields
  <1>2. Handled(Excuse(n), n, Valid, Cast, decided, blocks, node[n], node[n])
    BY <1>1, SolidFacts DEF Handled, Grows
  <1> QED
    BY <1>2, QuietIteration DEF HandleTC

LEMMA OtherMessageSolid ==
  ASSUME Inv, Inv', Solid, NEW n \in Correct, NEW h \in OtherHeights, OtherMessage(n, h)
  PROVE  Solid'
  <1> DEFINE s == node[n]
             t == [s EXCEPT !.others = h]
  <1>1. s \in NodeState(Len(blocks)) /\ h \in Nat /\ s.height \in Nat
    BY SolidFacts, ChainAssumption, Fields
  <1>2. t \in NodeState(Len(blocks))
    BY ONLY <1>1, Zenon DEF NodeState
  <1>3. /\ t.epoch = s.epoch /\ t.isViewChange = s.isViewChange
        /\ t.stored = s.stored /\ t.suspended = s.suspended /\ t.orphans = s.orphans
        /\ t.voted = s.voted /\ t.timeouts = s.timeouts /\ t.delivered = s.delivered
        /\ t.height = s.height /\ t.highQC = s.highQC /\ t.certified = s.certified
        /\ t.qcVotes = s.qcVotes
    BY <1>1 DEF NodeState
  <1>4. Iteration(n, blocks, t, FALSE) /\ UNCHANGED <<decided, restarted>>
    BY DEF OtherMessage
  <1> HIDE DEF t
  <1>5. Good(Excuse(n), n, Valid, Cast, decided, blocks, s)
    BY SolidFacts
  <1>6. Climbing(blocks, t) /\ Backed(Valid, decided, blocks, t) /\ Counted(n, Cast, t)
    BY <1>3, <1>5 DEF Good, Climbing, Backed, Counted
  <1>7. Excuse(n) = {} => Faithful(blocks, t)
    BY <1>3, <1>5 DEF Good, Faithful
  <1>8. Handled(Excuse(n), n, Valid, Cast, decided, blocks, s, t)
    BY <1>1, <1>2, <1>3, <1>6, <1>7 DEF Handled, Good, Grows
  <1> QED
    BY <1>4, <1>8, QuietIteration

\* The height an epoch ends at is at most two below any block of the epoch.
LEMMA EndedAbove ==
  ASSUME Inv, Solid, Author \in Correct, NEW v \in Nat, Ended(v),
         NEW d \in Digest, blocks[d].epoch = 0
  PROVE  blocks[d].height <= v + 2
  <1> DEFINE q == blocks[d].qc
  <1>1. /\ d \in 1 .. Len(blocks) /\ WellFormed(blocks) /\ Chained(Valid, blocks)
        /\ Authored(blocks, node[Author])
    BY SolidFacts
  <1>2. q \in Valid /\ blocks[d].height = Height(blocks, q) + 1
    BY <1>1 DEF Chained, Authored
  <1>3. CASE q = 0
    BY <1>2, <1>3 DEF Height
  <1>4. CASE q # 0
    <2>1. q \in Valid \ {0} /\ blocks[q].epoch = 0
      BY <1>1, <1>2, <1>4 DEF Chained
    <2>2. q \in 1 .. Len(blocks) /\ Height(blocks, blocks[q].qc) <= v
      <3> HIDE DEF q
      <3> QED
        BY <2>1, EndedBounds, SolidFacts
    <2>3. Height(blocks, q) = Height(blocks, blocks[q].qc) + 1
      BY <1>1, <2>1, <2>2 DEF Authored, Height
    <2>4. Height(blocks, blocks[q].qc) \in Nat
      BY <1>1, <2>2, HeightType
    <2> QED
      BY <1>2, <2>2, <2>3, <2>4
  <1> QED
    BY <1>3, <1>4

LEMMA AuthoredKept ==
  ASSUME NEW bs, WellFormed(bs), NEW s, NEW t, Authored(bs, s), s.height \in Nat,
         t.height \in Nat, s.height <= t.height, t.epoch = s.epoch
  PROVE  Authored(bs, t)
  <1>1. \A d \in 1 .. Len(bs) : bs[d].height \in Nat
    BY HeightType
  <1> QED
    BY <1>1 DEF Authored

\* An iteration in which a steady author proposes: its block is above all
\* the blocks of the chain.
LEMMA ProposeSolid ==
  ASSUME Inv, Inv', Solid, Author \in Correct, NEW s, NEW q \in Valid, NEW bs,
         bs = Append(blocks, NextBlock(s, q)),
         Iteration(Author, bs, process_block(bs, Author, s, Len(bs)), FALSE),
         NEW v, decided' = v, decided = None \/ v = decided, v # None => Ended(v),
         restarted' = restarted, Good(Excuse(Author), Author, Valid, Cast, v, blocks, s),
         node[Author].voted \subseteq s.voted, node[Author].timeouts \subseteq s.timeouts,
         s.epoch = 0 => q = s.highQC /\ node[Author].epoch = 0,
         \A d \in Digest : blocks[d].height < s.height
  PROVE  Solid'
  <1> DEFINE k == Len(blocks)
             b == NextBlock(s, q)
             x == Excuse(Author)
             p == process_block(bs, Author, s, Len(bs))
  <1>1. /\ WellFormed(blocks) /\ k \in Nat /\ Digest = 1 .. k /\ Chained(Valid, blocks)
        /\ Valid \subseteq 0 .. k /\ Author \in Node /\ Authored(blocks, node[Author])
    BY SolidFacts
  <1>2. s \in NodeState(k) /\ s.height \in Nat /\ s.epoch \in 0 .. 1 /\ q \in 0 .. k
    BY <1>1, Fields DEF Good
  <1>3. /\ b \in Block(k) /\ b.author = Author
        /\ b.height = s.height /\ b.epoch = s.epoch /\ b.qc = q
    BY <1>1, <1>2, NextBlockType DEF NextBlock
  <1> HIDE DEF b
  <1>4. bs = Append(blocks, b)
    BY DEF b
  <1>5. WellFormed(bs) /\ Extends(blocks, bs) /\ Len(bs) = k + 1 /\ bs[k + 1] = b
    BY <1>1, <1>3, <1>4, AppendExtends
  <1>6. /\ \A d \in 0 .. k : Height(bs, d) = Height(blocks, d)
        /\ \A d \in 1 .. k : bs[d] = blocks[d] /\ Height(bs, bs[d].qc) = Height(blocks, blocks[d].qc)
    BY <1>1, <1>5, SameHeights
  <1>7. \A d \in 1 .. Len(bs) : d = k + 1 \/ d \in 1 .. k
    BY <1>1, <1>5
  <1>8. s.epoch = 0 => \A d \in 1 .. k : blocks[d].epoch = 0
    BY <1>1 DEF Authored
  <1>9. Chained(Valid, bs)
    <2>1. \A d \in 1 .. k : blocks[d].qc \in 0 .. k
      BY <1>1, HeightType
    <2>2. q # 0 => bs[q] = blocks[q] /\ q \in 1 .. k
      BY <1>1, <1>2, <1>6
    <2> SUFFICES ASSUME NEW d \in 1 .. Len(bs)
                 PROVE  /\ bs[d].author = Author
                        /\ bs[d].qc \in Valid
                        /\ bs[d].epoch = 0 /\ bs[d].qc # 0 => bs[bs[d].qc].epoch = 0
      BY DEF Chained, Correct
    <2>3. CASE d = k + 1
      BY <1>3, <1>5, <1>8, <2>2, <2>3
    <2>4. CASE d \in 1 .. k
      <3>1. bs[d] = blocks[d] /\ (blocks[d].qc # 0 => bs[blocks[d].qc] = blocks[blocks[d].qc])
        BY <1>1, <1>6, <2>1, <2>4
      <3> QED
        BY <1>1, <2>4, <3>1 DEF Chained
    <2> QED
      BY <1>7, <2>3, <2>4
  <1>10. Authored(bs, s)
    <2>1. \A d \in 1 .. k : blocks[d].height \in Nat
      BY <1>1, HeightType
    <2>2. s.epoch = 0 => b.height = Height(bs, q) + 1
      BY <1>2, <1>3, <1>6 DEF Good, Climbing
    <2>3. ASSUME NEW d \in 1 .. Len(bs)
          PROVE  /\ bs[d].height <= s.height
                 /\ bs[d].epoch = 0 => bs[d].height = Height(bs, bs[d].qc) + 1
                 /\ s.epoch = 0 => bs[d].epoch = 0
      <3>1. CASE d = k + 1
        BY <1>2, <1>3, <1>5, <2>2, <3>1
      <3>2. CASE d \in 1 .. k
        <4>1. blocks[d].height < s.height /\ blocks[d].height \in Nat
          BY <1>1, <2>1, <3>2
        <4> QED
          BY <1>1, <1>2, <1>6, <1>8, <3>2, <4>1 DEF Authored
      <3> QED
        BY <1>7, <3>1, <3>2
    <2>4. ASSUME NEW d \in 1 .. Len(bs), NEW e \in 1 .. Len(bs), bs[d].height = bs[e].height
          PROVE  d = e
      <3>1. \A i \in 1 .. k : bs[i].height = blocks[i].height /\ blocks[i].height < s.height
        BY <1>1, <1>6
      <3>2. bs[k + 1].height = s.height
        BY <1>3, <1>5
      <3> QED
        BY <1>1, <1>2, <1>7, <2>1, <2>4, <3>1, <3>2 DEF Authored
    <2> QED
      BY <2>3, <2>4 DEF Authored
  <1>11. Good(x, Author, Valid, Cast, v, bs, s)
    <2>1. Good(x, Author, Valid, Cast, v, blocks, s)
      OBVIOUS
    <2> HIDE DEF x
    <2> QED
      BY <1>1, <1>5, <2>1, GoodGrows
  <1>12. Handled(x, Author, Valid, Cast, v, bs, s, p)
    <2>1. Len(bs) \in 1 .. Len(bs) /\ bs[Len(bs)].qc = q /\ q \in 0 .. Len(bs)
      BY <1>1, <1>2, <1>3, <1>5
    <2>2. Height(bs, q) \in Nat
      BY <1>5, <2>1, HeightType
    <2>3. x = {} /\ s.epoch = 0 => Height(bs, bs[Len(bs)].qc) <= Height(bs, s.highQC)
      BY <2>1, <2>2
    <2> HIDE DEF x
    <2> QED
      BY <1>1, <1>5, <1>9, <1>11, <2>1, <2>3, ProcessBlockGood
  <1>13. Good(x, Author, Valid, Cast, v, bs, p) /\ Grows(s, p) /\ p.epoch = s.epoch
    BY <1>12 DEF Handled
  <1> HIDE DEF p
  <1>14. Authored(bs, p)
    <2>1. p.height \in Nat
      BY <1>5, <1>13, Fields DEF Good, WellFormed
    <2> QED
      BY <1>2, <1>5, <1>10, <1>13, <2>1, AuthoredKept DEF Grows
  <1>15. node[Author].voted \subseteq p.voted /\ node[Author].timeouts \subseteq p.timeouts
    BY <1>13 DEF Grows
  <1>16. Iteration(Author, bs, p, FALSE)
    BY DEF p
  <1> QED
    BY <1>5, <1>9, <1>13, <1>14, <1>15, <1>16, IterationSolid

LEMMA AdvanceEpochSolid ==
  ASSUME Inv, Inv', Solid, NEW n \in Correct, NEW v \in Heights \cup {0}, AdvanceEpoch(n, v)
  PROVE  Solid'
  <1> DEFINE s  == node[n]
             s1 == advance_epoch(blocks, s, v)
             bs == Append(blocks, NextBlock(s1, 0))
  <1>1. /\ v \in Nat /\ v # None /\ s.epoch = 0 /\ decided' = v /\ restarted' = restarted
        /\ decided = None \/ v = decided
        /\ decided = None => v \in TCs
    BY DEF AdvanceEpoch, Heights, None
  <1>2. /\ WellFormed(blocks) /\ Len(blocks) \in Nat /\ Chained(Valid, blocks) /\ 0 \in Valid
        /\ Extends(blocks, blocks) /\ Digest = 1 .. Len(blocks)
        /\ Author \in Correct => Authored(blocks, node[Author])
    BY SolidFacts
  <1>3. Ended(v)
    <2>1. CASE decided = None
      BY <1>1, <2>1 DEF TCs, Ended
    <2>2. CASE decided # None
      BY <1>1, <2>2, SolidFacts
    <2> QED
      BY <2>1, <2>2
  <1>4. Advanced(Excuse(n), n, Valid, Cast, v, blocks, s, s1)
    <2> DEFINE dec == decided
    <2>1. Good(Excuse(n), n, Valid, Cast, dec, blocks, s)
      BY SolidFacts
    <2>2. dec = None \/ dec = v
      BY <1>1
    <2> HIDE DEF dec, s
    <2> QED
      BY <1>1, <1>2, <2>1, <2>2, AdvanceEpochGood
  <1>5. /\ Good(Excuse(n), n, Valid, Cast, v, blocks, s1)
        /\ s1.epoch = 1 /\ s1.height = v + NEXT_EPOCH_HEIGHT
        /\ s1.voted = s.voted /\ s1.timeouts = s.timeouts
    BY <1>4 DEF Advanced
  <1>6. CASE n # Author
    <2>1. Iteration(n, blocks, s1, FALSE)
      BY <1>6, Zenon DEF AdvanceEpoch
    <2> HIDE DEF s1
    <2>2. Author \in Correct => Authored(blocks, IF n = Author THEN s1 ELSE node[Author])
      BY <1>2, <1>6
    <2> QED
      BY <1>1, <1>2, <1>3, <1>5, <2>1, <2>2, IterationSolid
  <1>7. CASE n = Author
    <2>1. Iteration(Author, bs, process_block(bs, Author, s1, Len(bs)), FALSE)
      BY <1>7, Zenon DEF AdvanceEpoch
    <2>2. \A d \in Digest : blocks[d].height < s1.height
      <3> HIDE DEF s1
      <3> TAKE d \in Digest
      <3>1. blocks[d].epoch = 0
        BY <1>1, <1>2, <1>7 DEF Authored
      <3>2. blocks[d].height <= v + 2
        BY <1>1, <1>3, <1>7, <3>1, EndedAbove
      <3>3. blocks[d].height \in Nat
        BY <1>2, HeightType
      <3> QED
        BY <1>1, <1>5, <3>2, <3>3, ChainAssumption
    <2>3. v # None => Ended(v)
      BY <1>3
    <2>4. s1.epoch = 0 => 0 = s1.highQC /\ node[Author].epoch = 0
      BY <1>5
    <2> HIDE DEF s1, bs
    <2>5. bs = Append(blocks, NextBlock(s1, 0))
      BY DEF bs
    <2> QED
      BY <1>1, <1>2, <1>5, <1>7, <2>1, <2>2, <2>3, <2>4, <2>5, ProposeSolid
  <1> QED
    BY <1>6, <1>7

\* Votes at one height of a steady author's chain are for one block, so a
\* quorum of them at the author is a quorum of voters of that block.
LEMMA QCMakerSound ==
  ASSUME Inv, Solid, Author \in Correct, NEW m \in Node, NEW d \in Digest,
         d \in node[m].voted \/ m \in Faulty,
         MakesQC(blocks, node[Author], [author |-> m, hash |-> d])
  PROVE  d \in Valid
  <1> DEFINE v == [author |-> m, hash |-> d]
             s == node[Author]
             U == {u \in s.qcVotes : Height(blocks, u.hash) = Height(blocks, d)}
             T == U \cup {v}
             f == [u \in T |-> u.author]
  <1>1. /\ WellFormed(blocks) /\ Len(blocks) \in Nat /\ Digest = 1 .. Len(blocks)
        /\ Authored(blocks, s) /\ s \in NodeState(Len(blocks))
        /\ Counted(Author, Cast, s) /\ Author \in Node
    BY SolidFacts DEF Good
  <1>2. s.qcVotes \subseteq [author : Node, hash : 1 .. Len(blocks)]
    BY <1>1, Fields
  <1>3. v \notin U /\ Cardinality(U) + 1 >= quorum_threshold
    BY DEF MakesQC, AcceptsVote
  <1>4. \A u \in T : u \in [author : Node, hash : {d}]
    <2>1. \A u \in U : u.hash \in 1 .. Len(blocks) /\ blocks[u.hash].height = blocks[d].height
      BY <1>1, <1>2 DEF Height
    <2>2. \A u \in U : u.hash = d
      BY <1>1, <2>1 DEF Authored
    <2> QED
      BY <1>2, <2>2
  <1>5. \A u \in T : u.author \in Voters(d)
    <2>1. \A u \in U : u \in Cast \/ (u.author = Author /\ u.hash \in s.voted)
      BY <1>1 DEF Counted
    <2>2. \A u \in U : u.author \in Node /\ u.hash = d
      BY <1>4
    <2> QED
      BY <1>1, <2>1, <2>2 DEF Cast, Voters
  <1>6. IsFiniteSet(Node) /\ IsFiniteSet(Voters(d)) /\ Voters(d) \subseteq Node
    BY CommitteeAssumption, ChainAssumption, FS_Subset DEF Voters
  <1>7. f \in Injection(T, Voters(d))
    <2>1. f \in [T -> Voters(d)]
      BY <1>5
    <2>2. \A u, w \in T : u.author = w.author => u = w
      BY <1>4
    <2> QED
      BY <2>1, <2>2 DEF Injection, IsInjective
  <1>8. IsFiniteSet(T) /\ Cardinality(T) <= Cardinality(Voters(d))
    BY <1>6, <1>7, FS_Injection
  <1> HIDE DEF U, f
  <1>9. IsFiniteSet(U) /\ Cardinality(T) = Cardinality(U) + 1
    <2>1. IsFiniteSet(U)
      BY <1>8, FS_Subset
    <2> QED
      BY <1>3, <2>1, FS_AddElement
  <1>10. Cardinality(U) \in Nat /\ Cardinality(Voters(d)) \in Nat /\ quorum_threshold \in Nat
    BY <1>6, <1>9, FS_CardinalityType, Thresholds
  <1>11. Cardinality(Voters(d)) >= quorum_threshold
    BY <1>3, <1>8, <1>9, <1>10
  <1> QED
    BY <1>1, <1>6, <1>11 DEF Valid, ValidQC, Quorum

LEMMA HandleVoteSolid ==
  ASSUME Inv, Inv', Solid, NEW m \in Node, NEW d \in Digest, HandleVote(m, d)
  PROVE  Solid'
  <1> DEFINE n  == Author
             s  == node[Author]
             v  == [author |-> m, hash |-> d]
             s0 == add_vote(blocks, s, v)
             s1 == process_qc(blocks, s0, d)
             bs == Append(blocks, NextBlock(s1, s1.highQC))
  <1>1. /\ Author \in Correct
        /\ d \in node[m].voted \/ m \in Faulty
        /\ decided' = decided /\ restarted' = restarted
    BY Zenon DEF HandleVote
  <1>2. /\ WellFormed(blocks) /\ Len(blocks) \in Nat /\ Digest = 1 .. Len(blocks)
        /\ Authored(blocks, s) /\ s \in NodeState(Len(blocks))
        /\ Good(Excuse(n), n, Valid, Cast, decided, blocks, s)
    BY <1>1, SolidFacts
  <1>3. v \in [author : Node, hash : 1 .. Len(blocks)] /\ v \in Cast
    BY <1>1, <1>2 DEF Cast
  <1>4. Handled(Excuse(n), n, Valid, Cast, decided, blocks, s, s0)
    <2> HIDE DEF v
    <2> QED
      BY <1>2, <1>3, AddVoteGood
  <1>5. /\ Good(Excuse(n), n, Valid, Cast, decided, blocks, s0)
        /\ Grows(s, s0) /\ s0.epoch = s.epoch /\ s0.height = s.height
    BY <1>2, <1>4 DEF Handled, add_vote, NodeState
  <1>6. CASE ~MakesQC(blocks, s, v)
    <2>1. Iteration(Author, blocks, s0, FALSE)
      BY <1>6, Zenon DEF HandleVote
    <2> HIDE DEF s0
    <2> QED
      BY <1>1, <1>4, <2>1, QuietIteration
  <1>7. CASE MakesQC(blocks, s, v)
    <2>1. d \in Valid
      BY <1>1, <1>7, QCMakerSound
    <2>2. Iteration(Author, bs, process_block(bs, Author, s1, Len(bs)), FALSE)
      BY <1>7, Zenon DEF HandleVote
    <2>3. s0 \in NodeState(Len(blocks)) /\ s0.height \in Nat
      BY <1>2, <1>5, Fields DEF Good
    <2>4. blocks[d].height = s.height
      <3>1. Height(blocks, d) >= s.height
        BY <1>7 DEF MakesQC, AcceptsVote
      <3>2. blocks[d].height <= s.height /\ blocks[d].height \in Nat /\ s.height \in Nat
        BY <1>2, HeightType, Fields DEF Authored
      <3> QED
        BY <1>2, <3>1, <3>2 DEF Height
    <2> HIDE DEF s0
    <2>5. /\ Good(Excuse(n), n, Valid, Cast, decided, blocks, s1) /\ Grows(s0, s1)
      BY <1>2, <1>5, <2>1, ProcessQCGood
    <2>6. s1.epoch = s0.epoch /\ s1.height = s.height + 1
      <3>1. /\ s1.epoch = s0.epoch
            /\ s1.height = IF Height(blocks, d) < s0.height THEN s0.height ELSE Height(blocks, d) + 1
        BY <1>2, <2>3, ProcessQCFields
      <3>2. Height(blocks, d) = s.height
        BY <1>2, <2>4 DEF Height
      <3> HIDE DEF s1
      <3> QED
        BY <1>5, <2>3, <3>1, <3>2
    <2> HIDE DEF s1
    <2>7. \A e \in Digest : blocks[e].height < s1.height
      BY <1>2, <1>5, <2>3, <2>6, HeightType DEF Authored
    <2>8. node[Author].voted \subseteq s1.voted /\ node[Author].timeouts \subseteq s1.timeouts
      BY <1>5, <2>5 DEF Grows
    <2>9. s1.highQC \in Valid
      BY <2>5 DEF Good, Backed
    <2>10. s1.epoch = 0 => s1.highQC = s1.highQC /\ node[Author].epoch = 0
      BY <1>5, <2>6
    <2>11. decided # None => Ended(decided)
      BY SolidFacts
    <2>12. bs = Append(blocks, NextBlock(s1, s1.highQC))
      OBVIOUS
    <2> DEFINE w == decided
               q == s1.highQC
    <2>13. /\ decided' = w
           /\ decided = None \/ w = decided
           /\ w # None => Ended(w)
           /\ Good(Excuse(Author), Author, Valid, Cast, w, blocks, s1)
           /\ bs = Append(blocks, NextBlock(s1, q)) /\ q \in Valid
           /\ s1.epoch = 0 => q = s1.highQC /\ node[Author].epoch = 0
      BY <1>1, <2>5, <2>9, <2>10, <2>11, <2>12
    <2> HIDE DEF w, q, bs
    <2> QED
      BY <1>1, <2>2, <2>7, <2>8, <2>13, ProposeSolid
  <1> QED
    BY <1>6, <1>7

LEMMA FaultyProposeSolid ==
  ASSUME Inv, Inv', Solid, NEW h \in Heights, NEW q \in Digest \cup {0}, FaultyPropose(0, h, q)
  PROVE  Solid'
  <1> DEFINE k == Len(blocks)
             b == [author |-> Author, height |-> h, epoch |-> 0, qc |-> q]
             v == decided
  <1>1. /\ Author \in Faulty /\ ValidQC(q) /\ blocks' = Append(blocks, b)
        /\ UNCHANGED <<node, decided, restarted>>
    BY DEF FaultyPropose
  <1>2. /\ WellFormed(blocks) /\ k \in Nat /\ Digest = 1 .. k /\ Chained(Valid, blocks)
        /\ Valid \subseteq 0 .. k
        /\ v # None => Ended(v)
    BY SolidFacts
  <1>3. q \in Valid /\ q \in 0 .. k /\ b \in Block(k)
    BY <1>1, <1>2, ChainAssumption DEF Valid, Block, Heights
  <1>4. b.author = Author /\ b.epoch = 0 /\ b.qc = q
    OBVIOUS
  <1> HIDE DEF b
  <1>5. WellFormed(blocks') /\ Extends(blocks, blocks') /\ Len(blocks') = k + 1 /\ blocks'[k + 1] = b
    BY <1>1, <1>2, <1>3, AppendExtends
  <1>6. \A d \in 1 .. k : blocks'[d] = blocks[d] /\ blocks[d].qc \in 0 .. k
    BY <1>2, <1>5, HeightType DEF Extends
  <1>7. Chained(Valid, blocks')
    <2> SUFFICES ASSUME NEW d \in 1 .. Len(blocks')
                 PROVE  /\ blocks'[d].author = Author
                        /\ blocks'[d].qc \in Valid
                        /\ blocks'[d].qc # 0 => blocks'[blocks'[d].qc].epoch = 0
                        /\ blocks'[d].epoch = 0
      BY DEF Chained
    <2>1. \A e \in 1 .. k : blocks'[e].epoch = 0
      BY <1>1, <1>2, <1>6 DEF Chained
    <2>2. CASE d = k + 1
      BY <1>2, <1>3, <1>4, <1>5, <2>1, <2>2
    <2>3. CASE d \in 1 .. k
      <3>1. /\ blocks[d].author = Author
            /\ blocks[d].qc \in Valid /\ blocks[d].qc \in 0 .. k
        BY <1>2, <1>6, <2>3 DEF Chained
      <3> QED
        BY <1>2, <1>6, <2>1, <2>3, <3>1
    <2> QED
      BY <1>2, <1>5, <2>2, <2>3
  <1>8. ASSUME NEW n \in Correct
        PROVE  Good({n} \cap restarted', n, Valid, Cast, v, blocks', node'[n])
    <2>1. Good(Excuse(n), n, Valid, Cast, v, blocks, node[n])
      BY SolidFacts
    <2> HIDE DEF v
    <2>2. Good(Excuse(n), n, Valid, Cast, v, blocks', node[n])
      BY <1>2, <1>5, <2>1, GoodGrows
    <2> QED
      BY <1>1, <2>2 DEF Excuse
  <1>9. Remembered
    BY <1>1 DEF Remembered
  <1>10. decided' = v /\ (decided = None \/ v = decided)
    BY <1>1
  <1> HIDE DEF v
  <1>11. Author \in Correct => Authored(blocks', node'[Author])
    BY <1>1 DEF Correct
  <1> QED
    BY <1>2, <1>5, <1>7, <1>8, <1>9, <1>10, <1>11, SolidStep

\* A node that starts again keeps its votes and forgets its certificates.
LEMMA RestartSolid ==
  ASSUME Inv, Inv', Solid, NEW n \in Correct, Restart(n), n # Author
  PROVE  Solid'
  <1> DEFINE k == Len(blocks)
             t == [NewNode EXCEPT !.stored = node[n].stored, !.voted = node[n].voted,
                                  !.timeouts = node[n].timeouts,
                                  !.delivered = node[n].delivered]
             v == decided
  <1>1. /\ blocks' = blocks /\ node' = [node EXCEPT ![n] = t]
        /\ decided' = v /\ restarted' = restarted \cup {n}
    BY DEF Restart
  <1>2. /\ n \in Node /\ node'[n] = t
        /\ \A m \in Node \ {n} : node'[m] = node[m]
    BY <1>1 DEF Inv, Correct
  <1>3. /\ t.epoch = 0 /\ t.orphans = {} /\ t.highQC = 0 /\ t.height = 1
        /\ t.certified = {} /\ t.qcVotes = {} /\ t.delivered = node[n].delivered
        /\ t.voted = node[n].voted /\ t.timeouts = node[n].timeouts
    BY DEF NewNode
  <1> HIDE DEF t
  <1>4. Good({n} \cap restarted', n, Valid, Cast, v, blocks', node'[n])
    <2>1. t \in NodeState(k)
      BY <1>1, <1>2 DEF Inv
    <2>2. Climbing(blocks, t)
      BY <1>3 DEF Climbing, Height
    <2>3. Backed(Valid, v, blocks, t)
      <3>1. Good(Excuse(n), n, Valid, Cast, v, blocks, node[n]) /\ 0 \in Valid
        BY SolidFacts
      <3> HIDE DEF v
      <3> QED
        BY <1>3, <3>1 DEF Good, Backed
    <2>4. Counted(n, Cast, t)
      BY <1>3 DEF Counted
    <2> QED
      BY <1>1, <1>2, <2>1, <2>2, <2>3, <2>4 DEF Good
  <1>5. ASSUME NEW m \in Correct, m # n
        PROVE  Good({m} \cap restarted', m, Valid, Cast, v, blocks', node'[m])
    <2>1. Good(Excuse(m), m, Valid, Cast, v, blocks, node[m]) /\ m \in Node
      BY SolidFacts
    <2>2. {m} \cap restarted' = Excuse(m)
      BY <1>1, <1>5 DEF Excuse
    <2> QED
      BY <1>1, <1>2, <1>5, <2>1, <2>2
  <1>6. \A m \in Correct : Good({m} \cap restarted', m, Valid, Cast, v, blocks', node'[m])
    BY <1>4, <1>5
  <1>7. Remembered
    BY <1>2, <1>3 DEF Remembered
  <1>8. /\ Chained(Valid, blocks') /\ Extends(blocks, blocks')
        /\ v # None => Ended(v)
    BY <1>1, SolidFacts
  <1>9. Author \in Correct => Authored(blocks', node'[Author])
    BY <1>1, <1>2, SolidFacts DEF Correct
  <1>10. decided = None \/ v = decided
    OBVIOUS
  <1> HIDE DEF v
  <1> QED
    BY <1>1, <1>6, <1>7, <1>8, <1>9, <1>10, SolidStep

LEMMA NewNodeGood ==
  ASSUME NEW x, NEW n, NEW V, 0 \in V, NEW W, NEW dec, NEW bs, WellFormed(bs)
  PROVE  Good(x, n, V, W, dec, bs, NewNode)
  <1>1. NewNode \in NodeState(Len(bs))
    <2>1. Sound({1}, bs, NewNode)
      BY NewNodeSound
    <2> QED
      BY <2>1 DEF Sound
  <1>2. /\ NewNode.epoch = 0 /\ NewNode.height = 1 /\ NewNode.highQC = 0
        /\ NewNode.certified = {} /\ NewNode.stored = {} /\ NewNode.suspended = {}
        /\ NewNode.orphans = {} /\ NewNode.voted = {} /\ NewNode.qcVotes = {}
        /\ NewNode.timeouts = {} /\ NewNode.delivered = {}
    BY DEF NewNode
  <1>3. Climbing(bs, NewNode)
    BY <1>2 DEF Climbing, Height
  <1>4. Faithful(bs, NewNode)
    BY <1>2 DEF Faithful
  <1>5. Backed(V, dec, bs, NewNode)
    BY <1>2 DEF Backed
  <1>6. Counted(n, W, NewNode)
    BY <1>2 DEF Counted
  <1> QED
    BY <1>1, <1>3, <1>4, <1>5, <1>6 DEF Good

LEMMA InitSolid == Init => Solid
  <1> SUFFICES ASSUME Init PROVE Solid
    OBVIOUS
  <1>1. Inv /\ 0 \in Valid /\ decided = None /\ restarted = {}
    BY InitInv DEF Init, Inv, WellFormed, Valid, ValidQC
  <1>2. WellFormed(blocks) /\ Author \in Node /\ Correct \subseteq Node
    BY <1>1, ChainAssumption DEF Inv, Correct
  <1>3. \A n \in Node : Good({}, n, Valid, Cast, decided, blocks, NewNode)
    BY <1>1, <1>2, NewNodeGood
  <1>4. CASE Author \in Correct
    <2> DEFINE p == process_block(blocks, Author, NewNode, 1)
    <2>1. /\ blocks = <<FirstBlock>> /\ Len(blocks) = 1 /\ blocks[1] = FirstBlock
          /\ node[Author] = p
          /\ \A n \in Node \ {Author} : node[n] = NewNode
      BY <1>2, <1>4 DEF Init
    <2>2. /\ blocks[1].author = Author
          /\ blocks[1].height = 1 /\ blocks[1].epoch = 0 /\ blocks[1].qc = 0
          /\ 1 \in 1 .. Len(blocks) /\ \A d \in 1 .. Len(blocks) : d = 1
      BY <2>1 DEF FirstBlock
    <2>3. Chained(Valid, blocks)
      BY <1>1, <1>4, <2>2 DEF Chained, Correct
    <2>4. Handled({}, Author, Valid, Cast, decided, blocks, NewNode, p)
      <3>1. Height(blocks, blocks[1].qc) <= Height(blocks, NewNode.highQC)
        BY <2>2 DEF Height, NewNode
      <3> QED
        BY <1>2, <1>3, <2>2, <2>3, <3>1, ProcessBlockGood
    <2>5. Good({}, Author, Valid, Cast, decided, blocks, p) /\ 1 <= p.height /\ p.epoch = 0
      BY <2>4 DEF Handled, Grows, NewNode
    <2> HIDE DEF p
    <2>6. Authored(blocks, node[Author])
      BY <2>1, <2>2, <2>5 DEF Authored, Height
    <2>7. \A n \in Correct : Good({}, n, Valid, Cast, decided, blocks, node[n])
      BY <1>2, <1>3, <2>1, <2>5
    <2> QED
      BY <1>1, <2>3, <2>6, <2>7 DEF Solid, Good
  <1>5. CASE Author \notin Correct
    <2>1. blocks = <<>> /\ \A n \in Node : node[n] = NewNode
      BY <1>5 DEF Init
    <2>2. \A n \in Correct : Good({}, n, Valid, Cast, decided, blocks, node[n])
      BY <1>2, <1>3, <2>1
    <2>3. Chained(Valid, blocks)
      BY <2>1 DEF Chained
    <2> QED
      BY <1>1, <1>5, <2>2, <2>3 DEF Solid, Good
  <1> QED
    BY <1>4, <1>5

LEMMA NextExtends ==
  ASSUME Inv, [Next]_vars
  PROVE  Extends(blocks, blocks')
  <1>1. WellFormed(blocks)
    BY DEF Inv
  <1>2. \A b : Extends(blocks, Append(blocks, b))
    <2> TAKE b
    <2> DEFINE S == Block(Len(blocks)) \cup {b}
    <2>1. blocks \in Seq(S) /\ b \in S
      BY <1>1 DEF WellFormed
    <2> HIDE DEF S
    <2> QED
      BY <2>1 DEF Extends
  <1>3. Extends(blocks, blocks)
    BY <1>1 DEF WellFormed, Extends
  <1>4. blocks' = blocks \/ \E b : blocks' = Append(blocks, b)
    BY Zenon DEF Next, NodeStep, vars, HandleProposal, LoopBack, StoreOther, HandleTimeout,
           HandleTC, OtherMessage, AdvanceEpoch, Restart, HandleVote, FaultyPropose,
           OtherBlock, Iteration
  <1> QED
    BY <1>2, <1>3, <1>4

\* Blocks are appended and a node that restarted has restarted.
LEMMA OrderlyBefore ==
  ASSUME Inv, Inv', [Next]_vars, Orderly'
  PROVE  Orderly
  <1>1. restarted \subseteq restarted'
    BY DEF Next, NodeStep, vars, HandleProposal, LoopBack, StoreOther, HandleTimeout,
           HandleTC, OtherMessage, AdvanceEpoch, Restart, HandleVote, FaultyPropose, OtherBlock
  <1>2. \A d \in Digest : d \in Digest' /\ blocks'[d] = blocks[d]
    BY NextExtends DEF Inv, WellFormed, Extends, Digest
  <1> QED
    BY <1>1, <1>2 DEF Orderly, OneChain

\* A block of another author is the end of OneChain.
LEMMA OtherBlockMixes ==
  ASSUME Inv, NEW a \in OtherAuthors, NEW h, NEW q, OtherBlock(a, h, q), OneChain'
  PROVE  FALSE
  <1> DEFINE b == [author |-> a, height |-> h, epoch |-> 0, qc |-> q]
             S == Block(Len(blocks)) \cup {b}
  <1>1. blocks' = Append(blocks, b) /\ a # Author
    BY ChainAssumption DEF OtherBlock
  <1>2. blocks \in Seq(S) /\ b \in S
    BY DEF Inv, WellFormed
  <1> HIDE DEF S
  <1>3. Len(blocks') \in Digest' /\ blocks'[Len(blocks')] = b
    BY <1>1, <1>2 DEF Digest
  <1>4. blocks'[Len(blocks')].author = Author
    BY <1>3, Zenon DEF OneChain
  <1> QED
    BY <1>1, <1>3, <1>4

LEMMA NextSolid ==
  ASSUME Inv, Inv', VCInv, [Next]_vars
  PROVE  VCInv'
  <1> SUFFICES ASSUME Orderly' PROVE Solid'
    BY DEF VCInv
  <1>1. Orderly
    BY OrderlyBefore
  <1>2. Solid
    BY <1>1 DEF VCInv
  <1>3. CASE UNCHANGED vars
    BY <1>2, <1>3 DEF vars, Solid, Chained, Valid, ValidQC, Voters, Ended, Correct, Cast,
                      Digest
  <1>4. ASSUME NEW n \in Correct, NodeStep(n)
        PROVE  Solid'
    <2>1. ASSUME Restart(n) PROVE Solid'
      <3>1. n # Author
        BY <2>1, Zenon DEF Restart, Orderly
      <3> QED
        BY <1>2, <2>1, <3>1, RestartSolid
    <2>2. ASSUME NEW d \in Digest, StoreOther(n, d) PROVE FALSE
      BY <1>1, <2>2 DEF StoreOther, Orderly, OneChain
    <2> QED
      BY <1>2, <1>4, <2>1, <2>2, HandleProposalSolid, LoopBackSolid, HandleTimeoutSolid,
         HandleTCSolid, OtherMessageSolid, AdvanceEpochSolid DEF NodeStep
  <1>5. ASSUME NEW m \in Node, NEW d \in Digest, HandleVote(m, d)
        PROVE  Solid'
    BY <1>2, <1>5, HandleVoteSolid
  <1>6. ASSUME NEW h \in Heights, NEW q \in Digest \cup {0}, NEW e \in 0 .. 1,
               FaultyPropose(e, h, q)
        PROVE  Solid'
    <2>1. e = 0
      <3> DEFINE b == [author |-> Author, height |-> h, epoch |-> e, qc |-> q]
      <3>1. Author \in Faulty /\ blocks' = Append(blocks, b)
        BY <1>6 DEF FaultyPropose
      <3>2. blocks \in Seq(Block(Len(blocks)))
        BY DEF Inv, WellFormed
      <3>3. Len(blocks') \in Digest' /\ blocks'[Len(blocks')] = b
        BY <3>1, <3>2 DEF Digest
      <3>4. blocks'[Len(blocks')].epoch = 0
        BY <3>1, <3>3, Zenon DEF Orderly
      <3> QED
        BY <3>3, <3>4
    <2> QED
      BY <1>2, <1>6, <2>1, FaultyProposeSolid
  <1>7. ASSUME NEW h \in Heights, NEW q \in Digest \cup {0}, NEW a \in OtherAuthors,
               OtherBlock(a, h, q)
        PROVE  FALSE
    BY <1>7, OtherBlockMixes DEF Orderly
  <1> QED
    BY <1>3, <1>4, <1>5, <1>6, <1>7 DEF Next

LEMMA ViewChangeInvariant == Spec => [](Inv /\ VCInv)
  <1>1. Init => Inv /\ VCInv
    BY InitInv, InitSolid DEF VCInv
  <1>2. Inv /\ VCInv /\ [Next]_vars => Inv' /\ VCInv'
    BY NextInv, NextSolid
  <1> QED
    BY <1>1, <1>2, PTL DEF Spec

\* As long as the chain is Orderly, what the leader's chain committed is not
\* above the height that ends the epoch: the last certified block of the chain
\* has a quorum of voters, one of them timed out, and its timeout carries a QC
\* as high as the parent.
THEOREM CommitsSurviveViewChange == Spec => []CommittedSurvive
  <1>1. ASSUME Inv, VCInv PROVE CommittedSurvive
    <2> SUFFICES ASSUME Orderly, decided # None,
                        NEW n \in Correct, NEW d \in node[n].delivered
                 PROVE  blocks[d].height <= decided
      BY DEF CommittedSurvive
    <2>1. Solid
      BY <1>1 DEF VCInv
    <2>2. /\ node[n] \in NodeState(Len(blocks)) /\ WellFormed(blocks) /\ Len(blocks) \in Nat
          /\ Backed(Valid, decided, blocks, node[n]) /\ Ended(decided)
      BY <1>1, <2>1, SolidFacts DEF Good
    <2>3. d \in 1 .. Len(blocks) /\ decided \in Nat
      BY <1>1, <2>2, Fields DEF Inv
    <2>4. Height(blocks, d) = blocks[d].height /\ blocks[d].height \in Nat
      BY <2>2, <2>3, HeightType DEF Height
    <2>5. ASSUME NEW b \in Valid \ {0}, blocks[b].epoch = 0,
                 Height(blocks, d) <= Height(blocks, blocks[b].qc)
          PROVE  blocks[d].height <= decided
      <3>1. b \in Digest /\ Height(blocks, blocks[b].qc) <= decided
        BY <1>1, <2>1, <2>2, <2>3, <2>5, EndedBounds
      <3>2. Height(blocks, blocks[b].qc) \in Nat
        BY <2>2, <3>1, HeightType DEF Digest
      <3> QED
        BY <2>3, <2>4, <2>5, <3>1, <3>2
    <2> QED
      BY <2>2, <2>4, <2>5 DEF Backed
  <1> QED
    BY <1>1, ViewChangeInvariant, PTL

\* The height at which advance_epoch makes a steady leader restart its chain,
\* in which no QC of another was attached, is above every block it proposed
\* before: NEXT_EPOCH_HEIGHT of at least 3 is what the pending blocks above
\* the decided height call for.
THEOREM RestartIsAbove == Spec => []RestartAboveVotes
  <1>1. ASSUME Inv, VCInv PROVE RestartAboveVotes
    <2> SUFFICES ASSUME OneChain, Author \in Steady, decided # None, NEW d \in Digest,
                        blocks[d].epoch = 0
                 PROVE  blocks[d].height < decided + NEXT_EPOCH_HEIGHT
      BY DEF RestartAboveVotes
    <2>1. Solid /\ Author \in Correct /\ decided \in Nat
      BY <1>1 DEF VCInv, Steady, Inv, Orderly, Correct
    <2>2. Ended(decided) /\ blocks[d].height \in Nat
      BY <1>1, <2>1, SolidFacts, HeightType
    <2>3. blocks[d].height <= decided + 2
      BY <1>1, <2>1, <2>2, EndedAbove
    <2> QED
      BY <2>1, <2>2, <2>3, ChainAssumption
  <1> QED
    BY <1>1, ViewChangeInvariant, PTL
-----------------------------------------------------------------------------
\* A node that sent its timeout is in view change until the epoch changes.
Calm(s) == s.timeouts # {} => s.isViewChange \/ s.epoch = 1

Frozen(bs, s, t) ==
  Calm(s) => /\ Calm(t)
             /\ s.timeouts # {} => \A d \in t.voted \ s.voted : bs[d].epoch = 1

\* The fields that tell what a node that timed out may vote for.
SameView(s, t) ==
  /\ t.epoch = s.epoch /\ t.isViewChange = s.isViewChange
  /\ t.voted = s.voted /\ t.timeouts = s.timeouts

LEMMA FrozenFromSame ==
  ASSUME NEW bs, NEW a, NEW s, NEW t, SameView(a, s), Frozen(bs, s, t)
  PROVE  Frozen(bs, a, t)
  BY DEF SameView, Frozen, Calm

LEMMA SameIsFrozen ==
  ASSUME NEW bs, NEW s, NEW t, SameView(s, t)
  PROVE  Frozen(bs, s, t)
  BY DEF SameView, Frozen, Calm

LEMMA ProcessBlockFrozen ==
  ASSUME NEW bs, WellFormed(bs), NEW n \in Node, NEW s \in NodeState(Len(bs)),
         NEW d \in 1 .. Len(bs)
  PROVE  Frozen(bs, s, process_block(bs, n, s, d))
  <1> DEFINE k  == Len(bs)
             s1 == [s EXCEPT !.stored = s.stored \cup {d},
                             !.orphans = s.orphans \cup Orphans(bs, s, d)]
             s2 == IF CommitsHead(bs, s1, d)
                   THEN commit(bs, s1, Height(bs, bs[bs[d].qc].qc))
                   ELSE s1
             s3 == [s2 EXCEPT !.lastVoted = bs[d].height, !.voted = s2.voted \cup {d}]
             s4 == add_vote(bs, s3, [author |-> n, hash |-> d])
             p  == process_block(bs, n, s, d)
  <1>1. k \in Nat /\ bs[d].epoch \in 0 .. 1
    BY HeightType DEF WellFormed
  <1>2. SameView(s, s1) /\ DOMAIN s1 = DOMAIN s
    BY DEF SameView, NodeState
  <1>3. SameView(s1, s2) /\ DOMAIN s2 = DOMAIN s1
    BY <1>2 DEF SameView, commit, NodeState
  <1>4. s2.epoch \in 0 .. 1 /\ s2.isViewChange \in BOOLEAN
    BY <1>1, <1>2, <1>3, Fields DEF SameView
  <1> HIDE DEF s1
  <1>5. CASE ~MayVote(bs, s2, d)
    <2>1. p = s2
      BY <1>5 DEF process_block, s1
    <2> HIDE DEF s2
    <2> QED
      BY <1>2, <1>3, <2>1 DEF SameView, Frozen, Calm
  <1>6. CASE MayVote(bs, s2, d)
    <2>1. p = s3 \/ p = s4
      BY <1>6 DEF process_block, s1
    <2>2. ~(s2.isViewChange /\ s2.epoch = 0) /\ s2.epoch <= bs[d].epoch
      BY <1>6 DEF MayVote, IsNext, InViewChange
    <2>3. /\ s3.epoch = s2.epoch /\ s3.isViewChange = s2.isViewChange
          /\ s3.voted = s2.voted \cup {d} /\ s3.timeouts = s2.timeouts
          /\ DOMAIN s3 = DOMAIN s2
      <3> HIDE DEF s2
      <3> QED
        BY <1>2, <1>3 DEF NodeState
    <2>4. SameView(s3, s4)
      <3> HIDE DEF s3
      <3> QED
        BY <1>2, <1>3, <2>3 DEF SameView, add_vote, NodeState
    <2> HIDE DEF p, s2, s3, s4
    <2>5. /\ p.epoch = s2.epoch /\ p.isViewChange = s2.isViewChange
          /\ p.voted = s2.voted \cup {d} /\ p.timeouts = s2.timeouts
      BY <2>1, <2>3, <2>4 DEF SameView
    <2>6. Calm(s2) /\ s2.timeouts # {} => bs[d].epoch = 1
      BY <1>1, <1>4, <2>2 DEF Calm
    <2>7. Frozen(bs, s2, p)
      BY <2>5, <2>6 DEF Frozen, Calm
    <2> QED
      BY <1>2, <1>3, <2>7, FrozenFromSame DEF p
  <1> QED
    BY <1>5, <1>6

LEMMA ProcessQCSameView ==
  ASSUME NEW bs, WellFormed(bs), NEW s \in NodeState(Len(bs)), NEW q \in 0 .. Len(bs)
  PROVE  SameView(s, process_qc(bs, s, q))
  BY ProcessQCFields DEF SameView

\* check_timeout may send the timeout, but casts no vote.
LEMMA CheckTimeoutFrozen ==
  ASSUME NEW bs, WellFormed(bs), NEW a, NEW s \in NodeState(Len(bs)), NEW tc \in BOOLEAN,
         Frozen(bs, a, s)
  PROVE  Frozen(bs, a, check_timeout(bs, s, tc))
  <1> DEFINE lv == IF s.lastVoted < s.height THEN s.height ELSE s.lastVoted
             s1 == [s EXCEPT !.isViewChange = TRUE, !.lastVoted = lv,
                             !.timeouts = s.timeouts \cup {s.highQC}]
             v  == [s EXCEPT !.isViewChange = TRUE]
             p  == process_qc(bs, s1, s.highQC)
             t  == check_timeout(bs, s, tc)
  <1>1. Len(bs) \in Nat /\ s.highQC \in 0 .. Len(bs) /\ lv \in Nat
        /\ s.timeouts \cup {s.highQC} \in SUBSET (0 .. Len(bs))
    BY Fields DEF WellFormed
  <1> HIDE DEF lv
  <1>2. s1 \in NodeState(Len(bs))
    BY ONLY <1>1, Zenon, s \in NodeState(Len(bs)) DEF NodeState
  <1>3. v.isViewChange = TRUE /\ v.voted = s.voted
    BY DEF NodeState
  <1>4. s1.isViewChange = TRUE /\ s1.voted = s.voted /\ s1.epoch = s.epoch
    BY DEF NodeState
  <1> HIDE DEF s1
  <1>5. p.isViewChange = TRUE /\ p.voted = s.voted
    BY <1>1, <1>2, <1>4, ProcessQCSameView DEF SameView
  <1>6. t = s \/ t = v \/ t = p
    <2>1. s.epoch = 0 => handle_timeout(bs, s1, s.highQC) = p
      BY <1>4 DEF handle_timeout
    <2>2. t = IF s.epoch # 0 THEN s
              ELSE IF tc THEN v
              ELSE IF s.isViewChange \/ s.height + LAMBDA_VAL >= s.others THEN s
              ELSE handle_timeout(bs, s1, s.highQC)
      BY DEF check_timeout, lv, s1
    <2> HIDE DEF v, p, t
    <2> QED
      BY <2>1, <2>2
  <1> HIDE DEF v, p
  <1>7. t = s \/ (t.isViewChange = TRUE /\ t.voted = s.voted)
    BY <1>3, <1>5, <1>6
  <1> HIDE DEF t
  <1>8. Frozen(bs, a, t)
    BY <1>7 DEF Frozen, Calm
  <1> QED
    BY <1>8 DEF t

-----------------------------------------------------------------------------
\* What a node certified, highest of all, or delivered is among V.
Certs(V, s) == s.certified \subseteq V /\ s.highQC \in V /\ s.delivered \subseteq V

\* What a handler that turns the record s into t keeps.
Kept(V, s, t) ==
  /\ s.voted \subseteq t.voted
  /\ s.timeouts \subseteq t.timeouts
  /\ Certs(V, s) => Certs(V, t)

LEMMA KeptTransitive ==
  ASSUME NEW V, NEW a, NEW s, NEW t, Kept(V, a, s), Kept(V, s, t)
  PROVE  Kept(V, a, t)
  BY DEF Kept

\* V is empty for a node whose certificates are not vouched for.
LEMMA ProcessQCKept ==
  ASSUME NEW V, NEW bs, WellFormed(bs), NEW s \in NodeState(Len(bs)), NEW q \in 0 .. Len(bs),
         V = {} \/ q \in V
  PROVE  Kept(V, s, process_qc(bs, s, q))
  <1> DEFINE t == process_qc(bs, s, q)
  <1>1. /\ t.voted = s.voted /\ t.timeouts = s.timeouts /\ t.delivered = s.delivered
        /\ t.highQC = q \/ t.highQC = s.highQC
        /\ t.certified \subseteq s.certified \cup {q}
    BY ProcessQCFields
  <1> HIDE DEF t
  <1>2. Kept(V, s, t)
    BY <1>1 DEF Kept, Certs
  <1> QED
    BY <1>2 DEF t

LEMMA CommitKept ==
  ASSUME NEW V, NEW bs, WellFormed(bs), NEW s \in NodeState(Len(bs)), NEW h \in Nat
  PROVE  Kept(V, s, commit(bs, s, h))
  <1> DEFINE t == commit(bs, s, h)
  <1>1. CommitEffect(bs, s, h, t)
    BY CommitFields
  <1> HIDE DEF t
  <1>2. Kept(V, s, t)
    BY <1>1 DEF CommitEffect, Kept, Certs
  <1> QED
    BY <1>2 DEF t

LEMMA ProcessBlockKept ==
  ASSUME NEW V, NEW bs, WellFormed(bs), NEW n \in Node, NEW s \in NodeState(Len(bs)),
         NEW d \in 1 .. Len(bs)
  PROVE  Kept(V, s, process_block(bs, n, s, d))
  <1> DEFINE k  == Len(bs)
             s1 == [s EXCEPT !.stored = s.stored \cup {d},
                             !.orphans = s.orphans \cup Orphans(bs, s, d)]
             c  == commit(bs, s1, Height(bs, bs[bs[d].qc].qc))
             s2 == IF CommitsHead(bs, s1, d) THEN c ELSE s1
             s3 == [s2 EXCEPT !.lastVoted = bs[d].height, !.voted = s2.voted \cup {d}]
             s4 == add_vote(bs, s3, [author |-> n, hash |-> d])
             p  == process_block(bs, n, s, d)
  <1>1. k \in Nat /\ bs[d].qc \in 0 .. k /\ s.stored \cup {d} \in SUBSET (1 .. k)
        /\ s.orphans \cup Orphans(bs, s, d) \in SUBSET (1 .. k)
    <2>1. k \in Nat /\ bs[d].qc \in 0 .. k /\ s.stored \in SUBSET (1 .. k)
          /\ s.orphans \in SUBSET (1 .. k)
      BY Fields, HeightType DEF WellFormed
    <2> QED
      BY <2>1 DEF Orphans
  <1>2. s1 \in NodeState(k)
    BY ONLY <1>1, Zenon, s \in NodeState(k) DEF NodeState
  <1>3. Kept(V, s, s1)
    BY DEF Kept, Certs, NodeState
  <1> HIDE DEF s1
  <1>4. Kept(V, s1, s2) /\ DOMAIN s2 = DOMAIN s1
    <2>1. CASE CommitsHead(bs, s1, d)
      <3>1. Height(bs, bs[bs[d].qc].qc) \in Nat
        <4>1. bs[d].qc # 0
          BY <2>1 DEF CommitsHead
        <4>2. bs[bs[d].qc].qc \in 0 .. k
          BY <1>1, <4>1, HeightType
        <4> QED
          BY <4>2, HeightType
      <3>2. Kept(V, s1, c) /\ CommitEffect(bs, s1, Height(bs, bs[bs[d].qc].qc), c)
        BY <1>2, <3>1, CommitKept, CommitFields
      <3> HIDE DEF c
      <3> QED
        BY <1>2, <2>1, <3>2 DEF CommitEffect, NodeState
    <2>2. CASE ~CommitsHead(bs, s1, d)
      BY <2>2 DEF Kept
    <2> QED
      BY <2>1, <2>2
  <1>5. DOMAIN s1 = DOMAIN NewNode
    BY <1>2 DEF NodeState, NewNode
  <1>6. p = s2 \/ p = s3 \/ p = s4
    <2>1. process_block(bs, n, s, d) =
            IF ~MayVote(bs, s2, d) THEN s2
            ELSE IF n = Author THEN s4 ELSE s3
      BY DEF process_block, s1
    <2> HIDE DEF s2, s3, s4
    <2> QED
      BY <2>1
  <1> HIDE DEF s2
  <1>7. Kept(V, s2, s3) /\ DOMAIN s3 = DOMAIN s2
    BY <1>4, <1>5 DEF Kept, Certs, NewNode
  <1> HIDE DEF s3
  <1>8. Kept(V, s3, s4)
    BY <1>4, <1>5, <1>7 DEF Kept, Certs, add_vote, NewNode
  <1> HIDE DEF s4, p
  <1>9. Kept(V, s, s2) /\ Kept(V, s, s3) /\ Kept(V, s, s4)
    BY <1>3, <1>4, <1>7, <1>8, KeptTransitive
  <1>10. Kept(V, s, p)
    BY <1>6, <1>9
  <1> QED
    BY <1>10 DEF p

LEMMA AdvanceEpochKept ==
  ASSUME NEW V, V = {} \/ 0 \in V, NEW bs, WellFormed(bs), NEW s \in NodeState(Len(bs)),
         NEW v \in Nat
  PROVE  Kept(V, s, advance_epoch(bs, s, v))
  <1> DEFINE c == commit(bs, s, v)
             t == advance_epoch(bs, s, v)
  <1>1. Kept(V, s, c) /\ c \in NodeState(Len(bs))
    <2>1. CommitEffect(bs, s, v, c)
      BY CommitFields
    <2> QED
      BY <2>1, CommitKept DEF CommitEffect
  <1>2. t = [c EXCEPT !.epoch = 1, !.height = v + NEXT_EPOCH_HEIGHT,
                      !.lastCommitted = (v + NEXT_EPOCH_HEIGHT) - 1, !.highQC = 0,
                      !.certified = {d \in c.certified : Height(bs, d) > v},
                      !.isViewChange = FALSE]
    BY Zenon DEF advance_epoch
  <1> HIDE DEF c, t
  <1>3. /\ t.voted = c.voted /\ t.timeouts = c.timeouts /\ t.delivered = c.delivered
        /\ t.highQC = 0 /\ t.certified \subseteq c.certified
    BY <1>1, <1>2 DEF NodeState
  <1>4. Kept(V, c, t)
    BY <1>3 DEF Kept, Certs
  <1> QED
    BY <1>1, <1>4, KeptTransitive DEF t

LEMMA CheckTimeoutKept ==
  ASSUME NEW V, NEW bs, WellFormed(bs), NEW s \in NodeState(Len(bs)), NEW tc \in BOOLEAN
  PROVE  Kept(V, s, check_timeout(bs, s, tc))
  <1> DEFINE lv == IF s.lastVoted < s.height THEN s.height ELSE s.lastVoted
             s1 == [s EXCEPT !.isViewChange = TRUE, !.lastVoted = lv,
                             !.timeouts = s.timeouts \cup {s.highQC}]
             v  == [s EXCEPT !.isViewChange = TRUE]
             p  == process_qc(bs, s1, s.highQC)
             t  == check_timeout(bs, s, tc)
  <1>1. Len(bs) \in Nat /\ s.highQC \in 0 .. Len(bs) /\ lv \in Nat
        /\ s.timeouts \cup {s.highQC} \in SUBSET (0 .. Len(bs))
    BY Fields DEF WellFormed
  <1> HIDE DEF lv
  <1>2. s1 \in NodeState(Len(bs))
    BY ONLY <1>1, Zenon, s \in NodeState(Len(bs)) DEF NodeState
  <1>3. Kept(V, s, v) /\ Kept(V, s, s)
    BY DEF Kept, Certs, NodeState
  <1>4. /\ s1.voted = s.voted /\ s.timeouts \subseteq s1.timeouts /\ s1.highQC = s.highQC
        /\ s1.certified = s.certified /\ s1.delivered = s.delivered /\ s1.epoch = s.epoch
    BY DEF NodeState
  <1> HIDE DEF s1
  <1>5. Kept(V, s, p)
    <2>1. CASE Certs(V, s)
      <3>1. Kept(V, s1, p)
        BY <1>1, <1>2, <2>1, ProcessQCKept DEF Certs
      <3>2. Kept(V, s, s1)
        BY <1>4 DEF Kept, Certs
      <3> QED
        BY <3>1, <3>2, KeptTransitive
    <2>2. CASE ~Certs(V, s)
      <3>1. p.voted = s1.voted /\ p.timeouts = s1.timeouts
        BY <1>1, <1>2, ProcessQCFields
      <3> QED
        BY <1>4, <2>2, <3>1 DEF Kept
    <2> QED
      BY <2>1, <2>2
  <1>6. t = s \/ t = v \/ t = p
    <2>1. s.epoch = 0 => handle_timeout(bs, s1, s.highQC) = p
      BY <1>4 DEF handle_timeout
    <2>2. t = IF s.epoch # 0 THEN s
              ELSE IF tc THEN v
              ELSE IF s.isViewChange \/ s.height + LAMBDA_VAL >= s.others THEN s
              ELSE handle_timeout(bs, s1, s.highQC)
      BY DEF check_timeout, lv, s1
    <2> HIDE DEF v, p, t
    <2> QED
      BY <2>1, <2>2
  <1> HIDE DEF v, p, t
  <1>7. Kept(V, s, t)
    BY <1>3, <1>5, <1>6
  <1> QED
    BY <1>7 DEF t
-----------------------------------------------------------------------------
\* The QCs that node m sees are valid.  The author makes them of the votes it
\* counts, by height: nothing is claimed of its own.
Trusted(m) == IF m = Author THEN {} ELSE Valid

\* What a step keeps of the nodes, and of those that never restarted.
StepKeeps ==
  \A m \in Node : /\ Kept(Trusted(m), node[m], node'[m])
                  /\ m \notin restarted' => Frozen(blocks', node[m], node'[m])

LEMMA IterationKeeps ==
  ASSUME Inv, NEW n \in Node, NEW bs, WellFormed(bs), NEW s \in NodeState(Len(bs)),
         NEW tc \in BOOLEAN, Iteration(n, bs, s, tc), Frozen(bs, node[n], s),
         Kept(Trusted(n), node[n], s)
  PROVE  StepKeeps
  <1> DEFINE t == check_timeout(bs, s, tc)
  <1>1. blocks' = bs /\ node' = [node EXCEPT ![n] = t]
    BY DEF Iteration
  <1>2. node'[n] = t /\ \A m \in Node \ {n} : node'[m] = node[m]
    BY <1>1 DEF Inv
  <1>3. Frozen(bs, node[n], t)
    BY CheckTimeoutFrozen
  <1>4. Kept(Trusted(n), node[n], t)
    <2> DEFINE V == Trusted(n)
    <2>1. Kept(V, s, t) /\ Kept(V, node[n], s)
      BY CheckTimeoutKept
    <2> HIDE DEF V, t
    <2>2. Kept(V, node[n], t)
      BY <2>1, KeptTransitive
    <2> QED
      BY <2>2 DEF V
  <1> HIDE DEF t
  <1>5. \A m \in Node \ {n} : Frozen(bs, node[m], node'[m]) /\ Kept(Trusted(m), node[m], node'[m])
    BY <1>2 DEF Frozen, Kept
  <1> QED
    BY <1>1, <1>2, <1>3, <1>4, <1>5 DEF StepKeeps

LEMMA NextKeeps ==
  ASSUME Inv, [Next]_vars
  PROVE  StepKeeps
  <1> DEFINE k == Len(blocks)
  <1>1. /\ WellFormed(blocks) /\ k \in Nat /\ Digest = 1 .. k
        /\ Correct \subseteq Node /\ Author \in Node
        /\ \A m \in Node : Sound({1}, blocks, node[m]) /\ node[m] \in NodeState(k)
    BY ChainAssumption DEF Inv, WellFormed, Digest, Correct, Sound
  <1>2. CASE UNCHANGED node
    BY <1>2 DEF StepKeeps, Frozen, Kept
  <1>3. ASSUME NEW n \in Correct, NEW d \in Digest, NEW payload \in BOOLEAN,
               HandleProposal(n, d, payload)
        PROVE  StepKeeps
    <2> DEFINE q  == blocks[d].qc
               s1 == process_qc(blocks, node[n], q)
               t  == [s1 EXCEPT !.suspended = s1.suspended \cup {d}]
               s  == handle_proposal(blocks, n, node[n], d, payload)
    <2>1. q \in 0 .. k
      BY <1>1, HeightType
    <2>2. SameView(node[n], s1) /\ s1 \in NodeState(k)
      <3>1. Sound({1}, blocks, s1)
        BY <1>1, <2>1, ProcessQCSound
      <3> QED
        BY <1>1, <2>1, <3>1, ProcessQCSameView DEF Sound
    <2>3. s \in NodeState(k)
      <3>1. Sound({1}, blocks, s)
        BY <1>1, HandleProposalSound
      <3> QED
        BY <3>1 DEF Sound
    <2>4. Frozen(blocks, node[n], s)
      <3>1. CASE payload
        <4>1. s = process_block(blocks, n, s1, d)
          BY <3>1 DEF handle_proposal
        <4> HIDE DEF s1, s
        <4> QED
          BY <1>1, <2>2, <4>1, ProcessBlockFrozen, FrozenFromSame
      <3>2. CASE ~payload
        <4>1. s = t
          BY <3>2 DEF handle_proposal
        <4> HIDE DEF s1
        <4>2. SameView(s1, t)
          BY <2>2 DEF SameView, NodeState
        <4> HIDE DEF t, s
        <4> QED
          BY <2>2, <4>1, <4>2 DEF Frozen, SameView, Calm
      <3> QED
        BY <3>1, <3>2
    <2>5. Iteration(n, blocks, s, FALSE)
      BY <1>3 DEF HandleProposal
    <2>6. Kept(Trusted(n), node[n], s)
      <3>1. q \in Trusted(n)
        BY <1>1, <1>3, <2>1 DEF HandleProposal, Trusted, Valid
      <3>2. Kept(Trusted(n), node[n], s1)
        BY <1>1, <2>1, <3>1, ProcessQCKept
      <3>3. CASE payload
        <4>1. s = process_block(blocks, n, s1, d)
          BY <3>3 DEF handle_proposal
        <4> HIDE DEF s1, s
        <4> QED
          BY <1>1, <2>2, <3>2, <4>1, ProcessBlockKept, KeptTransitive
      <3>4. CASE ~payload
        <4>1. s = t
          BY <3>4 DEF handle_proposal
        <4> HIDE DEF s1
        <4>2. Kept(Trusted(n), s1, t)
          BY <2>2 DEF Kept, Certs, NodeState
        <4> HIDE DEF t, s
        <4> QED
          BY <3>2, <4>1, <4>2, KeptTransitive
      <3> QED
        BY <3>3, <3>4
    <2> HIDE DEF s
    <2> QED
      BY <1>1, <2>3, <2>4, <2>5, <2>6, IterationKeeps
  <1>4. ASSUME NEW n \in Correct, NEW d \in Digest, LoopBack(n, d)
        PROVE  StepKeeps
    <2> DEFINE s == node[n]
               t == [s EXCEPT !.suspended = s.suspended \ {d}, !.orphans = s.orphans \ {d}]
               p == process_block(blocks, n, t, d)
    <2>1. t \in NodeState(k)
      <3>1. s \in NodeState(k) /\ s.suspended \ {d} \in SUBSET (1 .. k) /\ s.orphans \ {d} \in SUBSET (1 .. k)
        BY <1>1, Fields
      <3> QED
        BY ONLY <3>1, Zenon DEF NodeState
    <2>2. SameView(s, t)
      BY <1>1 DEF SameView, NodeState
    <2>3. Iteration(n, blocks, p, FALSE)
      BY <1>4, Zenon DEF LoopBack
    <2>6. Kept(Trusted(n), s, t)
      BY <1>1 DEF Kept, Certs, NodeState
    <2> HIDE DEF t
    <2>4. Frozen(blocks, node[n], p)
      BY <1>1, <2>1, <2>2, ProcessBlockFrozen, FrozenFromSame
    <2>7. Kept(Trusted(n), node[n], p)
      BY <1>1, <2>1, <2>6, ProcessBlockKept, KeptTransitive
    <2>5. p \in NodeState(k)
      <3>1. Sound({1}, blocks, t)
        BY <2>1 DEF Sound
      <3>2. Sound({1}, blocks, p)
        BY <1>1, <3>1, ProcessBlockSound
      <3> QED
        BY <3>2 DEF Sound
    <2> HIDE DEF p
    <2> QED
      BY <1>1, <2>3, <2>4, <2>5, <2>7, IterationKeeps
  <1>5. ASSUME NEW n \in Correct, NEW m \in Node, NEW q \in Digest \cup {0},
               HandleTimeout(n, m, q)
        PROVE  StepKeeps
    <2> DEFINE s == handle_timeout(blocks, node[n], q)
    <2>1. q \in 0 .. k
      BY <1>1
    <2>2. SameView(node[n], process_qc(blocks, node[n], q))
      BY <1>1, <2>1, ProcessQCSameView
    <2>3. SameView(node[n], s)
      BY <2>2 DEF handle_timeout, SameView
    <2>4. s \in NodeState(k)
      <3>1. Sound({1}, blocks, s)
        BY <1>1, <2>1, HandleTimeoutSound
      <3> QED
        BY <3>1 DEF Sound
    <2>5. Iteration(n, blocks, s, FALSE)
      BY <1>5 DEF HandleTimeout
    <2>6. Kept(Trusted(n), node[n], s)
      <3>1. Trusted(n) = {} \/ q \in Trusted(n)
        BY <1>5, <2>1 DEF HandleTimeout, Trusted, Valid
      <3>2. Kept(Trusted(n), node[n], process_qc(blocks, node[n], q))
        BY <1>1, <2>1, <3>1, ProcessQCKept
      <3> QED
        BY <3>2 DEF handle_timeout, Kept
    <2> HIDE DEF s
    <2> QED
      BY <1>1, <2>3, <2>4, <2>5, <2>6, SameIsFrozen, IterationKeeps
  <1>6. ASSUME NEW n \in Correct, HandleTC(n)
        PROVE  StepKeeps
    <2>1. Iteration(n, blocks, node[n], TRUE)
      BY <1>6 DEF HandleTC
    <2>2. Frozen(blocks, node[n], node[n]) /\ Kept(Trusted(n), node[n], node[n])
      BY DEF Frozen, Kept
    <2> QED
      BY <1>1, <2>1, <2>2, IterationKeeps
  <1>7. ASSUME NEW n \in Correct, NEW h \in OtherHeights, OtherMessage(n, h)
        PROVE  StepKeeps
    <2> DEFINE s == node[n]
               t == [s EXCEPT !.others = h]
    <2>1. s \in NodeState(k) /\ h \in Nat
      BY <1>1, ChainAssumption
    <2>2. t \in NodeState(k)
      BY ONLY <2>1, Zenon DEF NodeState
    <2>3. SameView(s, t)
      BY <2>1 DEF SameView, NodeState
    <2>4. Iteration(n, blocks, t, FALSE)
      BY <1>7 DEF OtherMessage
    <2>5. Kept(Trusted(n), s, t)
      BY <2>1 DEF Kept, Certs, NodeState
    <2> HIDE DEF t
    <2> QED
      BY <1>1, <2>2, <2>3, <2>4, <2>5, SameIsFrozen, IterationKeeps
  <1>8. ASSUME NEW n \in Correct, NEW v \in Heights \cup {0}, AdvanceEpoch(n, v)
        PROVE  StepKeeps
    <2> DEFINE s  == node[n]
               s1 == advance_epoch(blocks, s, v)
               bs == Append(blocks, NextBlock(s1, 0))
    <2>1. Sound({1}, blocks, s1)
      BY <1>1, AdvanceEpochSound DEF Heights
    <2>2. s1 \in NodeState(k)
      BY <2>1 DEF Sound
    <2>3. s1.epoch = 1 /\ s1.voted = s.voted /\ s1.timeouts = s.timeouts
      BY <1>1 DEF advance_epoch, commit, NodeState
    <2>4. \/ Iteration(n, bs, process_block(bs, n, s1, Len(bs)), FALSE)
          \/ Iteration(n, blocks, s1, FALSE)
      BY <1>8, Zenon DEF AdvanceEpoch
    <2>7. Kept(Trusted(n), node[n], s1)
      <3>1. v \in Nat /\ (Trusted(n) = {} \/ 0 \in Trusted(n))
        BY <1>1, ChainAssumption DEF Heights, Trusted, Valid, ValidQC
      <3> QED
        BY <1>1, <3>1, AdvanceEpochKept
    <2> HIDE DEF s1
    <2>5. CASE Iteration(n, blocks, s1, FALSE)
      <3>1. Frozen(blocks, node[n], s1)
        BY <2>3 DEF Frozen, Calm
      <3> QED
        BY <1>1, <2>2, <2>5, <2>7, <3>1, IterationKeeps
    <2>6. CASE Iteration(n, bs, process_block(bs, n, s1, Len(bs)), FALSE)
      <3>1. NextBlock(s1, 0) \in Block(k)
        BY <1>1, <2>2, NextBlockType
      <3>2. WellFormed(bs) /\ Len(bs) \in 1 .. Len(bs) /\ Sound({1}, bs, s1)
        BY <1>1, <2>1, <3>1, AppendSound
      <3> HIDE DEF bs
      <3> DEFINE p == process_block(bs, n, s1, Len(bs))
      <3>3. p \in NodeState(Len(bs))
        <4>1. Sound({1}, bs, p)
          BY <1>1, <3>2, ProcessBlockSound
        <4> QED
          BY <4>1 DEF Sound
      <3>4. Frozen(bs, s1, p) /\ Kept(Trusted(n), s1, p)
        BY <1>1, <3>2, ProcessBlockFrozen, ProcessBlockKept DEF Sound
      <3> HIDE DEF p
      <3>5. Frozen(bs, node[n], p)
        BY <2>3, <3>4 DEF Frozen, Calm
      <3>6. Kept(Trusted(n), node[n], p)
        BY <2>7, <3>4, KeptTransitive
      <3> QED
        BY <1>1, <2>6, <3>2, <3>3, <3>5, <3>6, IterationKeeps DEF p
    <2> QED
      BY <2>4, <2>5, <2>6
  <1>9. ASSUME NEW m \in Node, NEW d \in Digest, HandleVote(m, d)
        PROVE  StepKeeps
    <2> DEFINE v  == [author |-> m, hash |-> d]
               s  == node[Author]
               s0 == add_vote(blocks, s, v)
               s1 == process_qc(blocks, s0, d)
               bs == Append(blocks, NextBlock(s1, s1.highQC))
    <2>1. v \in [author : Node, hash : 1 .. k]
      BY <1>1
    <2>2. SameView(s, s0)
      BY <1>1 DEF SameView, add_vote, NodeState
    <2>3. \/ Iteration(Author, bs, process_block(bs, Author, s1, Len(bs)), FALSE)
          \/ Iteration(Author, blocks, s0, FALSE)
      BY <1>9, Zenon DEF HandleVote
    <2> HIDE DEF v
    <2>4. Sound({1}, blocks, s0)
      BY <1>1, <2>1, AddVoteSound
    <2>5. s0 \in NodeState(k)
      BY <2>4 DEF Sound
    <2>8. Kept({}, s, s0) /\ Trusted(Author) = {}
      BY <1>1 DEF Kept, Certs, add_vote, NodeState, Trusted
    <2> HIDE DEF s0
    <2>6. CASE Iteration(Author, blocks, s0, FALSE)
      BY <1>1, <2>2, <2>5, <2>6, <2>8, SameIsFrozen, IterationKeeps
    <2>7. CASE Iteration(Author, bs, process_block(bs, Author, s1, Len(bs)), FALSE)
      <3>1. Sound({1}, blocks, s1) /\ SameView(s0, s1)
        BY <1>1, <2>4, <2>5, ProcessQCSound, ProcessQCSameView
      <3>2. s1 \in NodeState(k)
        BY <3>1 DEF Sound
      <3>8. Kept({}, s, s1)
        <4>1. Kept({}, s0, s1)
          BY <1>1, <2>5, ProcessQCKept
        <4> QED
          BY <2>8, <4>1, KeptTransitive
      <3> HIDE DEF s1
      <3>3. NextBlock(s1, s1.highQC) \in Block(k)
        BY <1>1, <3>2, NextBlockType, Fields
      <3>4. WellFormed(bs) /\ Len(bs) \in 1 .. Len(bs) /\ Sound({1}, bs, s1)
        BY <1>1, <3>1, <3>3, AppendSound
      <3> HIDE DEF bs
      <3> DEFINE p == process_block(bs, Author, s1, Len(bs))
      <3>5. p \in NodeState(Len(bs))
        <4>1. Sound({1}, bs, p)
          BY <1>1, <3>4, ProcessBlockSound
        <4> QED
          BY <4>1 DEF Sound
      <3>6. Frozen(bs, s1, p) /\ Kept({}, s1, p)
        BY <1>1, <3>4, ProcessBlockFrozen, ProcessBlockKept DEF Sound
      <3> HIDE DEF p
      <3>7. Frozen(bs, node[Author], p)
        BY <2>2, <3>1, <3>6, FrozenFromSame
      <3>9. Kept(Trusted(Author), node[Author], p)
        BY <2>8, <3>6, <3>8, KeptTransitive
      <3> QED
        BY <1>1, <2>7, <3>4, <3>5, <3>7, <3>9, IterationKeeps DEF p
    <2> QED
      BY <2>3, <2>6, <2>7
  <1>10. ASSUME NEW h \in Heights, NEW q \in Digest \cup {0},
                \/ \E e \in 0 .. 1 : FaultyPropose(e, h, q)
                \/ \E a \in OtherAuthors : OtherBlock(a, h, q)
         PROVE  StepKeeps
    BY <1>2, <1>10 DEF FaultyPropose, OtherBlock
  <1>11. ASSUME NEW n \in Correct, Restart(n)
         PROVE  StepKeeps
    <2> DEFINE s == [NewNode EXCEPT !.stored = node[n].stored, !.voted = node[n].voted,
                                    !.timeouts = node[n].timeouts,
                                    !.delivered = node[n].delivered]
               bs == Append(blocks, FirstBlock)
               p == process_block(bs, n, s, Len(bs))
    <2>1. n \in restarted' /\ \A m \in Node \ {n} : node'[m] = node[m]
      <3>1. n \in restarted' /\ \E t : node' = [node EXCEPT ![n] = t]
        BY <1>11, Zenon DEF Restart
      <3> QED
        BY <3>1 DEF Inv
    <2>2. /\ s.voted = node[n].voted /\ s.timeouts = node[n].timeouts
          /\ s.certified = {} /\ s.highQC = 0 /\ s.delivered = node[n].delivered
      BY DEF NewNode
    <2>3. \/ n # Author /\ node'[n] = s
          \/ n = Author /\ node'[n] = p
      BY <1>1, <1>11 DEF Restart, Inv
    <2>4. CASE n # Author /\ node'[n] = s
      <3>1. 0 \in Valid
        BY <1>1 DEF Valid, ValidQC
      <3> HIDE DEF s
      <3>2. Kept(Trusted(n), node[n], node'[n])
        BY <2>2, <2>4, <3>1 DEF Kept, Certs, Trusted
      <3> QED
        BY <2>1, <3>2 DEF StepKeeps, Frozen, Kept
    <2>5. CASE n = Author /\ node'[n] = p
      <3>1. Kept({}, node[n], s)
        BY <2>2 DEF Kept, Certs
      <3>2. WellFormed(bs) /\ Len(bs) \in 1 .. Len(bs) /\ s \in NodeState(Len(bs))
        <4>1. FirstBlock \in Block(k)
          BY <1>1 DEF FirstBlock, Block
        <4>2. WellFormed(bs) /\ Len(bs) = k + 1 /\ Len(bs) \in 1 .. Len(bs)
              /\ \A x, a : Sound(x, blocks, a) => Sound(x, bs, a)
          BY <1>1, <4>1, AppendSound
        <4> HIDE DEF bs
        <4>3. NewNode \in NodeState(Len(bs)) /\ node[n] \in NodeState(Len(bs))
          BY <1>1, <4>2, NewNodeSound DEF Sound
        <4>4. /\ node[n].stored \in SUBSET (1 .. Len(bs))
              /\ node[n].voted \in SUBSET (1 .. Len(bs))
              /\ node[n].timeouts \in SUBSET (0 .. Len(bs))
              /\ node[n].delivered \in SUBSET (1 .. Len(bs))
          BY <4>2, <4>3, Fields DEF WellFormed
        <4>5. s \in NodeState(Len(bs))
          BY ONLY <4>3, <4>4, Zenon DEF NodeState
        <4> QED
          BY <4>2, <4>5
      <3> HIDE DEF s, bs
      <3>3. Kept({}, s, p)
        BY <1>1, <2>5, <3>2, ProcessBlockKept
      <3> HIDE DEF p
      <3>4. Kept({}, node[n], p)
        BY <3>1, <3>3, KeptTransitive
      <3>5. Kept(Trusted(n), node[n], node'[n])
        BY <2>5, <3>4 DEF Trusted
      <3> QED
        BY <2>1, <3>5 DEF StepKeeps, Frozen, Kept
    <2> QED
      BY <2>3, <2>4, <2>5
  <1>12. ASSUME NEW n \in Correct, NEW d \in Digest, StoreOther(n, d)
         PROVE  StepKeeps
    <2>1. n \in Node /\ node[n] \in NodeState(k)
      BY <1>1
    <2>2. PICK t \in NodeState(k) :
            /\ t.epoch = node[n].epoch /\ t.isViewChange = node[n].isViewChange
            /\ t.voted = node[n].voted /\ t.timeouts = node[n].timeouts
            /\ t.certified = node[n].certified /\ t.highQC = node[n].highQC
            /\ t.delivered = node[n].delivered
            /\ Iteration(n, blocks, t, FALSE)
      BY <1>1, <1>12, <2>1, StoreOtherFields
    <2>3. SameView(node[n], t)
      BY <2>2 DEF SameView
    <2>4. Kept(Trusted(n), node[n], t)
      BY <2>2 DEF Kept, Certs
    <2> QED
      BY <1>1, <2>1, <2>2, <2>3, <2>4, SameIsFrozen, IterationKeeps
  <1>13. CASE UNCHANGED vars
    BY <1>2, <1>13 DEF vars
  <1> QED
    BY <1>3, <1>4, <1>5, <1>6, <1>7, <1>8, <1>9, <1>10, <1>11, <1>12, <1>13 DEF Next, NodeStep

-----------------------------------------------------------------------------
\* Whoever restarted, but for the author: what a node certifies is valid.
Certified == \A n \in Correct \ {Author} : Certs(Valid, node[n])

LEMMA CertifiedInvariant == Spec => [](Inv /\ Certified)
  <1>1. Init => Certified
    <2> SUFFICES ASSUME Init, NEW n \in Correct \ {Author} PROVE Certs(Valid, node[n])
      BY DEF Certified
    <2>1. node[n] = NewNode /\ Len(blocks) \in Nat
      BY ChainAssumption DEF Init, Correct
    <2> QED
      BY <2>1 DEF Certs, NewNode, Valid, ValidQC
  <1>2. Inv /\ Inv' /\ Certified /\ [Next]_vars => Certified'
    <2> SUFFICES ASSUME Inv, Inv', Certified, [Next]_vars, NEW n \in Correct \ {Author}
                 PROVE  Certs(Valid', node'[n])
      BY DEF Certified, Correct
    <2>1. n \in Node /\ Certs(Valid, node[n]) /\ Trusted(n) = Valid
      BY DEF Certified, Correct, Trusted
    <2>2. Certs(Valid, node'[n]) /\ Remembered
      BY <2>1, NextKeeps DEF StepKeeps, Kept, Remembered
    <2>3. Len(blocks) \in Nat /\ Len(blocks') \in Nat /\ Extends(blocks, blocks')
      BY NextExtends DEF Inv, WellFormed
    <2>4. Valid \subseteq Valid'
      BY <2>2, <2>3, StaysValid
    <2> QED
      BY <2>2, <2>4 DEF Certs
  <1> QED
    BY InitInv, NextInv, <1>1, <1>2, PTL DEF Spec

\* All that the observers deliver is certified.
LEMMA DeliveredValid ==
  ASSUME Inv, VCInv, Certified, NEW n \in Observers
  PROVE  node[n].delivered \subseteq Valid \ {0}
  <1>1. /\ n \in Correct /\ n \in Node /\ Len(blocks) \in Nat
        /\ node[n] \in NodeState(Len(blocks))
    BY DEF Observers, Correct, Inv, WellFormed
  <1>2. node[n].delivered \subseteq 1 .. Len(blocks)
    BY <1>1, Fields
  <1>3. node[n].delivered \subseteq Valid
    <2>1. CASE n = Author
      <3>1. Orderly
        BY <1>1, <2>1 DEF Observers
      <3>2. Backed(Valid, decided, blocks, node[n])
        BY <1>1, <3>1 DEF VCInv, Solid
      <3> QED
        BY <3>2 DEF Backed
    <2>2. CASE n # Author
      BY <1>1, <2>2 DEF Certified, Certs
    <2> QED
      BY <2>1, <2>2
  <1> QED
    BY <1>1, <1>2, <1>3

\* Correct nodes deliver the same block of the author at a height, whichever
\* of the two ways of committing each takes, whichever of them restart and
\* whatever QCs a faulty authority attaches: all they deliver is certified.
THEOREM DeliveriesAgree == Spec => []DeliveredAgree
  <1>1. ASSUME Inv, QCUnique, VCInv, Certified PROVE DeliveredAgree
    <2>1. \A n \in Observers : node[n].delivered \subseteq Valid \ {0}
      BY <1>1, DeliveredValid
    <2>2. Valid \ {0} \subseteq Digest
      BY DEF Valid, Digest
    <2> QED
      BY <1>1, <2>1, <2>2 DEF DeliveredAgree, QCUnique, Valid, Own
  <1> QED
    BY <1>1, ViewChangeInvariant, CertifiedInvariant, CertifiedUnique, PTL

\* After its timeout a node that has run from the start votes for no block of
\* the epoch it wants to leave, until the agreement ended it: last_voted and
\* the QC of the timeout are then fixed together.
THEOREM TimeoutFreezesVotes == Spec => FrozenAfterTimeout
  <1> DEFINE Rest == \A n \in Node : n \notin restarted => Calm(node[n])
  <1>1. Init => Rest
    <2>1. \A bs : WellFormed(bs) => \A n \in Node : NewNode \in NodeState(Len(bs))
      BY NewNodeSound DEF Sound
    <2> SUFFICES ASSUME Init, NEW n \in Node PROVE Calm(node[n])
      OBVIOUS
    <2>2. Calm(NewNode)
      BY DEF Calm, NewNode
    <2>3. CASE n = Author /\ Author \in Correct
      <3>1. WellFormed(<<FirstBlock>>) /\ Len(<<FirstBlock>>) = 1
        BY ChainAssumption DEF WellFormed, FirstBlock, Block
      <3>2. Frozen(<<FirstBlock>>, NewNode, process_block(<<FirstBlock>>, n, NewNode, 1))
        BY <2>1, <3>1, ProcessBlockFrozen
      <3> QED
        BY <2>2, <2>3, <3>2 DEF Init, Frozen
    <2>4. CASE ~(n = Author /\ Author \in Correct)
      BY <2>2, <2>4 DEF Init
    <2> QED
      BY <2>3, <2>4
  <1>2. Inv /\ [Next]_vars => restarted \subseteq restarted'
    BY DEF Next, NodeStep, vars, HandleProposal, LoopBack, StoreOther, HandleTimeout,
           HandleTC, OtherMessage, AdvanceEpoch, Restart, HandleVote, FaultyPropose, OtherBlock
  <1>3. Inv /\ Rest /\ [Next]_vars => Rest'
    BY <1>2, NextKeeps DEF StepKeeps, Frozen
  <1>4. Inv /\ Rest /\ [Next]_vars =>
          [\A n \in Steady' : node[n].timeouts # {} =>
             \A d \in node'[n].voted \ node[n].voted : blocks'[d].epoch = 1]_vars
    <2> SUFFICES ASSUME Inv, Rest, [Next]_vars, NEW n \in Steady', node[n].timeouts # {},
                        NEW d \in node'[n].voted \ node[n].voted
                 PROVE  blocks'[d].epoch = 1
      OBVIOUS
    <2>1. n \in Node /\ n \notin restarted' /\ n \notin restarted
      BY <1>2 DEF Steady, Correct
    <2>2. Frozen(blocks', node[n], node'[n]) /\ Calm(node[n])
      BY <2>1, NextKeeps DEF StepKeeps
    <2> QED
      BY <2>2 DEF Frozen
  <1> HIDE DEF Rest
  <1> QED
    BY InitInv, NextInv, <1>1, <1>3, <1>4, PTL DEF Spec, FrozenAfterTimeout
=============================================================================
