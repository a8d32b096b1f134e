---------------------------- MODULE DeliveryProofs ----------------------------
(***************************************************************************)
(* What a node delivers of the chain of a correct author is one chain of   *)
(* parents (module Chain), though commit goes by heights and not by parent *)
(* digests, whoever restarts and whatever is missing when, as long as no   *)
(* QC of another chain is put among its own (OneChain).  The inductive     *)
(* invariant, Linked, says that the heights a node delivered have no gap,  *)
(* that a block is one above the block of its QC or the first of an epoch, *)
(* and that the first block of epoch 1 is above all that epoch 0 can       *)
(* certify.                                                                *)
(***************************************************************************)
EXTENDS ChainProofs

\* The heights that a node delivered, or may pass over in a commit, have no gap.
Gapless(bs, s) ==
  /\ s.epoch = 0 => \A i \in 1 .. s.lastCommitted : \E e \in s.delivered : Height(bs, e) = i
  /\ \A d \in s.delivered : \A i \in 1 .. Height(bs, d) :
       \E e \in s.delivered : Height(bs, e) = i

\* A node works above the certificates it knows, on blocks whose QCs are in C.
Stocked(C, bs, s) ==
  /\ s.orphans \subseteq s.stored
  /\ Height(bs, s.highQC) < s.height
  /\ \A d \in s.stored \cup s.suspended \cup s.voted : bs[d].qc \in C

\* In epoch 1 the chain is above the height at which epoch 0 ended.
Above(dec, epoch, height) ==
  epoch = 1 => dec \in Nat /\ height >= dec + NEXT_EPOCH_HEIGHT

\* What holds of the record s of a node.
Tidy(x, C, dec, bs, s) ==
  /\ s \in NodeState(Len(bs))
  /\ Stocked(C, bs, s) /\ Gapless(bs, s) /\ Above(dec, s.epoch, s.height)
  /\ x = {} => Faithful(bs, s)

\* A block is one above the block of its QC, or the first of its epoch.
Joined(dec, bs, b) ==
  /\ b.qc # 0 => Height(bs, b.qc) + 1 = b.height
  /\ b.qc = 0 => b.height = 1 \/ (dec \in Nat /\ b.height = dec + NEXT_EPOCH_HEIGHT)
  /\ Above(dec, b.epoch, b.height)

\* The QCs of the blocks a node holds are valid; an author is not asked for
\* those of its own.
Known(n) == IF n = Author THEN 0 .. Len(blocks) ELSE Valid

Linked ==
  /\ decided # None => Ended(decided)
  /\ \A d \in Digest : Joined(decided, blocks, blocks[d])
  /\ \A n \in Correct : Tidy(Excuse(n), Known(n), decided, blocks, node[n])

\* The inductive invariant, beside Inv.
LinkInv == OneChain /\ Author \in Correct => Linked
-----------------------------------------------------------------------------
\* The two records agree in all that Tidy speaks of.
Alike(s, t) ==
  /\ t.epoch = s.epoch /\ t.isViewChange = s.isViewChange
  /\ t.height = s.height /\ t.lastCommitted = s.lastCommitted /\ t.highQC = s.highQC
  /\ t.stored = s.stored /\ t.suspended = s.suspended /\ t.orphans = s.orphans
  /\ t.voted = s.voted /\ t.timeouts = s.timeouts /\ t.delivered = s.delivered

LEMMA AlikeTidy ==
  ASSUME NEW x, NEW C, NEW dec, NEW bs, NEW s, Tidy(x, C, dec, bs, s),
         NEW t \in NodeState(Len(bs)), Alike(s, t)
  PROVE  Tidy(x, C, dec, bs, t)
  BY DEF Tidy, Alike, Stocked, Gapless, Above, Faithful

LEMMA AddVoteTidy ==
  ASSUME NEW x, NEW C, NEW dec, NEW bs, WellFormed(bs), NEW s, Tidy(x, C, dec, bs, s),
         NEW v \in [author : Node, hash : 1 .. Len(bs)]
  PROVE  Tidy(x, C, dec, bs, add_vote(bs, s, v)) /\ Alike(s, add_vote(bs, s, v))
  <1>1. s \in NodeState(Len(bs)) /\ Sound({1}, bs, s)
    BY DEF Tidy, Sound
  <1>2. add_vote(bs, s, v) \in NodeState(Len(bs))
    <2>1. Sound({1}, bs, add_vote(bs, s, v))
      BY <1>1, AddVoteSound
    <2> QED
      BY <2>1 DEF Sound
  <1>3. Alike(s, add_vote(bs, s, v))
    BY <1>1 DEF Alike, add_vote, NodeState
  <1> QED
    BY <1>2, <1>3, AlikeTidy

LEMMA ProcessQCTidy ==
  ASSUME NEW x, NEW C, NEW dec, NEW bs, WellFormed(bs), NEW s, Tidy(x, C, dec, bs, s),
         NEW q \in 0 .. Len(bs)
  PROVE  LET t == process_qc(bs, s, q)
         IN  Tidy(x, C, dec, bs, t) /\ Height(bs, q) <= Height(bs, t.highQC)
  <1> DEFINE t == process_qc(bs, s, q)
  <1>1. s \in NodeState(Len(bs)) /\ Len(bs) \in Nat
    BY DEF Tidy, WellFormed
  <1>2. /\ t.epoch = s.epoch /\ t.isViewChange = s.isViewChange
        /\ t.stored = s.stored /\ t.suspended = s.suspended /\ t.orphans = s.orphans
        /\ t.voted = s.voted /\ t.timeouts = s.timeouts /\ t.delivered = s.delivered
        /\ t.height = IF Height(bs, q) < s.height THEN s.height ELSE Height(bs, q) + 1
        /\ t.highQC = IF Height(bs, q) > Height(bs, s.highQC) THEN q ELSE s.highQC
        /\ t.lastCommitted = s.lastCommitted
    BY <1>1, ProcessQCFields DEF process_qc, NodeState
  <1>3. t \in NodeState(Len(bs))
    <2>1. Sound({1}, bs, s)
      BY <1>1 DEF Sound
    <2>2. Sound({1}, bs, process_qc(bs, s, q))
      BY <2>1, ProcessQCSound
    <2> QED
      BY <2>2 DEF Sound
  <1>4. /\ s.highQC \in 0 .. Len(bs) /\ s.height \in Nat
        /\ s.stored \cup s.suspended \cup s.voted \subseteq 1 .. Len(bs)
        /\ Height(bs, s.highQC) \in Nat /\ Height(bs, q) \in Nat
    BY <1>1, Fields, HeightType
  <1> HIDE DEF t
  <1>5. /\ Height(bs, t.highQC) \in Nat
        /\ Height(bs, s.highQC) <= Height(bs, t.highQC)
        /\ Height(bs, q) <= Height(bs, t.highQC)
        /\ s.height <= t.height /\ t.height \in Nat
    BY <1>2, <1>4
  <1>6. Stocked(C, bs, t)
    <2>1. Height(bs, t.highQC) < t.height
      BY <1>2, <1>4 DEF Tidy, Stocked
    <2> QED
      BY <1>2, <2>1 DEF Tidy, Stocked
  <1>7. Gapless(bs, t)
    BY <1>2 DEF Tidy, Gapless
  <1>8. Above(dec, t.epoch, t.height)
    <2>1. s.epoch = 1 => dec \in Nat /\ s.height >= dec + NEXT_EPOCH_HEIGHT
      BY DEF Tidy, Above
    <2>2. ASSUME s.epoch = 1 PROVE t.height >= dec + NEXT_EPOCH_HEIGHT
      BY <1>4, <1>5, <2>1, <2>2, ChainAssumption
    <2> QED
      BY <1>2, <2>1, <2>2 DEF Above
  <1>9. x = {} => Faithful(bs, t)
    <2>1. \A d \in s.stored \cup s.suspended \cup s.voted : Height(bs, bs[d].qc) \in Nat
      BY <1>4, HeightType
    <2> QED
      BY <1>2, <1>4, <1>5, <2>1 DEF Tidy, Faithful
  <1> QED
    BY <1>3, <1>5, <1>6, <1>7, <1>8, <1>9 DEF Tidy, t

\* commit adds the heights that follow the last committed one, without a gap.
LEMMA CommittableInterval ==
  ASSUME NEW bs, NEW s, s.lastCommitted \in Nat, NEW h \in Nat
  PROVE  LET a == s.lastCommitted
             K == Committable(bs, s, h)
         IN  /\ Cardinality(K) \in Nat
             /\ \A k \in K : /\ k \in Nat /\ k > a
                             /\ \A i \in (a + 1) .. k : i \in K
                             /\ \E d \in s.certified \cap s.stored : Height(bs, d) = k
             /\ \A i \in (a + 1) .. (a + Cardinality(K)) : i \in K
  <1> DEFINE a == s.lastCommitted
             K == Committable(bs, s, h)
             c == Cardinality(K)
  <1>1. IsFiniteSet((a + 1) .. h) /\ K \subseteq (a + 1) .. h
    BY FS_Interval DEF Committable
  <1>2. IsFiniteSet(K) /\ c \in Nat
    BY <1>1, FS_Subset, FS_CardinalityType
  <1>3. ASSUME NEW k \in K
        PROVE  /\ k \in Nat /\ k > a
               /\ \A i \in (a + 1) .. k : i \in K
               /\ \E d \in s.certified \cap s.stored : Height(bs, d) = k
    <2>1. k \in (a + 1) .. h /\ k \in Nat /\ k > a
      BY <1>1
    <2>2. \A i \in (a + 1) .. k : \E d \in s.certified \cap s.stored : Height(bs, d) = i
      BY DEF Committable
    <2>3. \A i \in (a + 1) .. k : i \in (a + 1) .. h /\ (a + 1) .. i \subseteq (a + 1) .. k
      BY <2>1
    <2>4. \A i \in (a + 1) .. k : i \in K
      BY <2>2, <2>3 DEF Committable
    <2> QED
      BY <2>1, <2>2, <2>4
  <1>4. ASSUME NEW i \in (a + 1) .. (a + c), i \notin K
        PROVE  FALSE
    <2>1. i \in Nat /\ i > a /\ i <= a + c
      BY <1>2
    <2>2. \A k \in K : k \in (a + 1) .. (i - 1)
      <3> TAKE k \in K
      <3>1. k \in Nat /\ k > a /\ (\A j \in (a + 1) .. k : j \in K)
        BY <1>3
      <3> HIDE DEF K
      <3>2. ~(i <= k)
        BY <1>4, <2>1, <3>1
      <3> QED
        BY <2>1, <3>1, <3>2
    <2>3. /\ IsFiniteSet((a + 1) .. (i - 1))
          /\ Cardinality((a + 1) .. (i - 1)) = IF a + 1 > i - 1 THEN 0 ELSE (i - 1) - (a + 1) + 1
      <3>1. a + 1 \in Int /\ i - 1 \in Int
        BY <2>1
      <3> QED
        BY <3>1, FS_Interval
    <2>4. c <= Cardinality((a + 1) .. (i - 1))
      BY <2>2, <2>3, FS_Subset
    <2> HIDE DEF c
    <2> QED
      BY <1>2, <2>1, <2>3, <2>4
  <1> HIDE DEF K
  <1>5. \A i \in (a + 1) .. (a + c) : i \in K
    BY <1>4
  <1> QED
    BY <1>2, <1>3, <1>5 DEF K

LEMMA CommitTidy ==
  ASSUME NEW x, NEW C, NEW dec, NEW bs, WellFormed(bs), NEW s, Tidy(x, C, dec, bs, s),
         s.epoch = 0, NEW h \in Nat
  PROVE  Tidy(x, C, dec, bs, commit(bs, s, h))
  <1> DEFINE t == commit(bs, s, h)
             a == s.lastCommitted
             K == Committable(bs, s, h)
             D == {d \in s.certified \cap s.stored : Height(bs, d) \in K}
  <1>1. s \in NodeState(Len(bs)) /\ Len(bs) \in Nat /\ a \in Nat
    BY Fields DEF Tidy, WellFormed
  <1>2. /\ t \in NodeState(Len(bs))
        /\ t.epoch = s.epoch /\ t.isViewChange = s.isViewChange
        /\ t.stored = s.stored /\ t.suspended = s.suspended /\ t.orphans = s.orphans
        /\ t.voted = s.voted /\ t.timeouts = s.timeouts
        /\ t.height = s.height /\ t.highQC = s.highQC
    <2>1. CommitEffect(bs, s, h, t)
      BY <1>1, CommitFields
    <2> QED
      BY ONLY <2>1 DEF CommitEffect
  <1>3. t.delivered = s.delivered \cup D /\ t.lastCommitted = a + Cardinality(K)
    <2> HIDE DEF K
    <2>1. t = [s EXCEPT !.lastCommitted = a + Cardinality(K), !.delivered = s.delivered \cup D]
      BY DEF commit, K
    <2> HIDE DEF t, D
    <2> QED
      BY <1>1, <2>1 DEF NodeState
  <1>4. /\ Cardinality(K) \in Nat
        /\ \A k \in K : /\ k \in Nat /\ k > a
                        /\ \A i \in (a + 1) .. k : i \in K
                        /\ \E d \in s.certified \cap s.stored : Height(bs, d) = k
        /\ \A i \in (a + 1) .. (a + Cardinality(K)) : i \in K
    BY <1>1, CommittableInterval
  <1> HIDE DEF t, K
  <1>5. \A i \in K : \E e \in t.delivered : Height(bs, e) = i
    <2> TAKE i \in K
    <2>1. PICK d \in s.certified \cap s.stored : Height(bs, d) = i
      BY <1>4
    <2> QED
      BY <1>3, <2>1
  <1>6. \A i \in 1 .. a : \E e \in t.delivered : Height(bs, e) = i
    BY <1>3 DEF Tidy, Gapless
  <1>7. \A i \in 1 .. t.lastCommitted : \E e \in t.delivered : Height(bs, e) = i
    <2> TAKE i \in 1 .. t.lastCommitted
    <2>1. i \in 1 .. a \/ i \in (a + 1) .. (a + Cardinality(K))
      BY <1>1, <1>3, <1>4
    <2> QED
      BY <1>4, <1>5, <1>6, <2>1
  <1>8. ASSUME NEW d \in t.delivered, NEW i \in 1 .. Height(bs, d)
        PROVE  \E e \in t.delivered : Height(bs, e) = i
    <2>1. CASE d \in s.delivered
      BY <1>3, <2>1 DEF Tidy, Gapless
    <2>2. CASE d \in D
      <3>1. Height(bs, d) \in K /\ Height(bs, d) \in Nat
        BY <1>4, <2>2
      <3>2. i \in 1 .. a \/ i \in (a + 1) .. Height(bs, d)
        BY <1>1, <3>1
      <3> QED
        BY <1>4, <1>5, <1>6, <3>1, <3>2
    <2> QED
      BY <1>3, <2>1, <2>2
  <1>9. Gapless(bs, t)
    BY <1>7, <1>8 DEF Gapless
  <1>10. Stocked(C, bs, t) /\ Above(dec, t.epoch, t.height) /\ (x = {} => Faithful(bs, t))
    BY <1>2 DEF Tidy, Stocked, Above, Faithful
  <1> QED
    BY <1>2, <1>9, <1>10 DEF Tidy, t

\* process_block of a block whose QC the node knows.
LEMMA ProcessBlockTidy ==
  ASSUME NEW x, NEW n \in Node, NEW C, NEW dec, NEW bs, WellFormed(bs), NEW s,
         Tidy(x, C, dec, bs, s), NEW d \in 1 .. Len(bs), bs[d].qc \in C,
         x = {} /\ s.epoch = 0 => Height(bs, bs[d].qc) <= Height(bs, s.highQC)
  PROVE  Tidy(x, C, dec, bs, process_block(bs, n, s, d))
  <1> DEFINE k  == Len(bs)
             s1 == [s EXCEPT !.stored = s.stored \cup {d},
                             !.orphans = s.orphans \cup Orphans(bs, s, d)]
             s2 == IF CommitsHead(bs, s1, d)
                   THEN commit(bs, s1, Height(bs, bs[bs[d].qc].qc))
                   ELSE s1
             s3 == [s2 EXCEPT !.lastVoted = bs[d].height, !.voted = s2.voted \cup {d}]
             own == [author |-> n, hash |-> d]
  <1>1. k \in Nat /\ s \in NodeState(k) /\ bs[d].qc \in 0 .. k /\ bs[d].height \in Nat
        /\ bs[d].epoch \in 0 .. 1
    BY HeightType DEF WellFormed, Tidy
  <1>2. /\ Tidy(x, C, dec, bs, s1)
        /\ s1.epoch = s.epoch /\ s1.highQC = s.highQC /\ s1.stored = s.stored \cup {d}
    <2>1. Orphans(bs, s, d) \subseteq s.stored \cup {d} /\ s.stored \in SUBSET (1 .. k)
      BY <1>1, Fields DEF Orphans
    <2>2. s1 \in NodeState(k)
      <3>1. s.stored \cup {d} \in SUBSET (1 .. k) /\ s.orphans \cup Orphans(bs, s, d) \in SUBSET (1 .. k)
        BY <1>1, <2>1, Fields
      <3> QED
        BY ONLY <1>1, <3>1, Zenon DEF NodeState
    <2>3. /\ s1.epoch = s.epoch /\ s1.isViewChange = s.isViewChange
          /\ s1.stored = s.stored \cup {d} /\ s1.suspended = s.suspended
          /\ s1.orphans = s.orphans \cup Orphans(bs, s, d)
          /\ s1.voted = s.voted /\ s1.timeouts = s.timeouts /\ s1.delivered = s.delivered
          /\ s1.height = s.height /\ s1.highQC = s.highQC
          /\ s1.lastCommitted = s.lastCommitted
      BY <1>1 DEF NodeState
    <2> HIDE DEF s1
    <2>4. Stocked(C, bs, s1) /\ Gapless(bs, s1) /\ Above(dec, s1.epoch, s1.height)
      BY <2>1, <2>3 DEF Tidy, Stocked, Gapless, Above
    <2>5. x = {} => Faithful(bs, s1)
      BY <2>3 DEF Tidy, Faithful
    <2> QED
      BY <2>2, <2>3, <2>4, <2>5 DEF Tidy
  <1> HIDE DEF s1
  <1>3. /\ Tidy(x, C, dec, bs, s2)
        /\ s2.epoch = s.epoch /\ s2.highQC = s.highQC /\ d \in s2.stored
    <2>1. CASE CommitsHead(bs, s1, d)
      <3> DEFINE h == Height(bs, bs[bs[d].qc].qc)
      <3>1. bs[d].qc # 0 /\ s1.epoch = 0
        BY <2>1 DEF CommitsHead
      <3>2. bs[bs[d].qc].qc \in 0 .. k
        BY <1>1, <3>1, HeightType
      <3>3. h \in Nat /\ s1 \in NodeState(k)
        BY <1>2, <3>2, HeightType DEF Tidy
      <3>4. s2 = commit(bs, s1, h)
        BY <2>1
      <3> HIDE DEF h, s2
      <3>5. Tidy(x, C, dec, bs, s2)
        BY <1>2, <3>1, <3>3, <3>4, CommitTidy
      <3>6. CommitEffect(bs, s1, h, s2)
        BY <3>3, <3>4, CommitFields
      <3> QED
        BY <1>2, <3>5, <3>6 DEF CommitEffect
    <2>2. CASE ~CommitsHead(bs, s1, d)
      BY <1>2, <2>2
    <2> QED
      BY <2>1, <2>2
  <1> HIDE DEF s2
  <1>4. s2 \in NodeState(k)
    BY <1>3 DEF Tidy
  <1>5. CASE ~MayVote(bs, s2, d)
    <2>1. process_block(bs, n, s, d) = s2
      BY <1>5 DEF process_block, s1, s2
    <2> QED
      BY <1>3, <2>1
  <1>6. CASE MayVote(bs, s2, d)
    <2>1. /\ s3.epoch = s2.epoch /\ s3.isViewChange = s2.isViewChange
          /\ s3.stored = s2.stored /\ s3.suspended = s2.suspended
          /\ s3.orphans = s2.orphans
          /\ s3.voted = s2.voted \cup {d} /\ s3.timeouts = s2.timeouts
          /\ s3.delivered = s2.delivered
          /\ s3.height = s2.height /\ s3.highQC = s2.highQC
          /\ s3.lastCommitted = s2.lastCommitted
      BY <1>4 DEF NodeState
    <2>2. s3 \in NodeState(k)
      <3>1. s2.voted \cup {d} \in SUBSET (1 .. k)
        BY <1>4, Fields
      <3> QED
        BY ONLY <1>1, <1>4, <3>1, Zenon DEF NodeState
    <2>3. ~(s2.isViewChange /\ s2.epoch = 0) /\ s2.epoch <= bs[d].epoch /\ s2.epoch \in 0 .. 1
      BY <1>4, <1>6, Fields DEF MayVote, IsNext, InViewChange
    <2> HIDE DEF s3
    <2>4. Stocked(C, bs, s3) /\ Gapless(bs, s3) /\ Above(dec, s3.epoch, s3.height)
      BY <1>3, <2>1 DEF Tidy, Stocked, Gapless, Above
    <2>5. ASSUME x = {} PROVE Faithful(bs, s3)
      <3>1. Faithful(bs, s2)
        BY <1>3, <2>5 DEF Tidy
      <3>2. s3.epoch = 0 =>
              \A e \in s3.stored \cup s3.suspended \cup s3.voted :
                Height(bs, bs[e].qc) <= Height(bs, s3.highQC)
        BY <1>3, <2>1, <2>5, <3>1 DEF Faithful
      <3>3. \A e \in s3.voted, q \in s3.timeouts :
              bs[e].epoch = 0 => Height(bs, bs[e].qc) <= Height(bs, q)
        BY <1>1, <2>1, <2>3, <3>1 DEF Faithful
      <3> QED
        BY <2>1, <3>1, <3>2, <3>3 DEF Faithful
    <2>6. Tidy(x, C, dec, bs, s3)
      BY <2>2, <2>4, <2>5 DEF Tidy
    <2>7. CASE n = Author
      <3>1. own \in [author : Node, hash : 1 .. k]
        OBVIOUS
      <3>2. process_block(bs, n, s, d) = add_vote(bs, s3, own)
        BY <1>6, <2>7 DEF process_block, s1, s2, s3
      <3> HIDE DEF own
      <3> QED
        BY <2>6, <3>1, <3>2, AddVoteTidy
    <2>8. CASE n # Author
      <3>1. process_block(bs, n, s, d) = s3
        BY <1>6, <2>8 DEF process_block, s1, s2, s3
      <3> QED
        BY <2>6, <3>1
    <2> QED
      BY <2>7, <2>8
  <1> QED
    BY <1>5, <1>6

LEMMA HandleProposalTidy ==
  ASSUME NEW x, NEW n \in Node, NEW C, NEW dec, NEW bs, WellFormed(bs), NEW s,
         Tidy(x, C, dec, bs, s), NEW d \in 1 .. Len(bs), bs[d].qc \in C, NEW payload \in BOOLEAN
  PROVE  Tidy(x, C, dec, bs, handle_proposal(bs, n, s, d, payload))
  <1> DEFINE q  == bs[d].qc
             s1 == process_qc(bs, s, q)
             t  == [s1 EXCEPT !.suspended = s1.suspended \cup {d}]
  <1>1. q \in 0 .. Len(bs) /\ Len(bs) \in Nat
    BY HeightType DEF WellFormed
  <1> HIDE DEF q
  <1>2. Tidy(x, C, dec, bs, s1) /\ Height(bs, q) <= Height(bs, s1.highQC)
    BY <1>1, ProcessQCTidy
  <1>3. s1 \in NodeState(Len(bs))
    BY <1>2 DEF Tidy
  <1> HIDE DEF s1
  <1>4. CASE payload
    <2>1. x = {} /\ s1.epoch = 0 => Height(bs, bs[d].qc) <= Height(bs, s1.highQC)
      BY <1>2 DEF q
    <2>2. Tidy(x, C, dec, bs, process_block(bs, n, s1, d))
      BY <1>2, <2>1, ProcessBlockTidy
    <2> QED
      BY <1>4, <2>2 DEF handle_proposal, s1, q
  <1>5. CASE ~payload
    <2>1. /\ t.epoch = s1.epoch /\ t.isViewChange = s1.isViewChange
          /\ t.stored = s1.stored /\ t.suspended = s1.suspended \cup {d}
          /\ t.orphans = s1.orphans
          /\ t.voted = s1.voted /\ t.timeouts = s1.timeouts /\ t.delivered = s1.delivered
          /\ t.height = s1.height /\ t.highQC = s1.highQC
          /\ t.lastCommitted = s1.lastCommitted
      BY <1>3 DEF NodeState
    <2>2. t \in NodeState(Len(bs))
      <3>1. s1.suspended \cup {d} \in SUBSET (1 .. Len(bs))
        BY <1>1, <1>3, Fields
      <3> QED
        BY ONLY <1>3, <3>1, Zenon DEF NodeState
    <2>3. t = handle_proposal(bs, n, s, d, payload)
      BY <1>5 DEF handle_proposal, s1, q
    <2> HIDE DEF t
    <2>4. Stocked(C, bs, t) /\ Gapless(bs, t) /\ Above(dec, t.epoch, t.height)
      BY <1>2, <2>1 DEF Tidy, Stocked, Gapless, Above
    <2>5. x = {} => Faithful(bs, t)
      BY <1>2, <2>1 DEF Tidy, Faithful, q
    <2> QED
      BY <2>2, <2>3, <2>4, <2>5 DEF Tidy
  <1> QED
    BY <1>4, <1>5

LEMMA AdvanceEpochTidy ==
  ASSUME NEW x, NEW C, NEW dec, NEW v \in Nat, NEW bs, WellFormed(bs), NEW s,
         Tidy(x, C, dec, bs, s), s.epoch = 0
  PROVE  LET t == advance_epoch(bs, s, v)
         IN  Tidy(x, C, v, bs, t) /\ t.epoch = 1 /\ t.height = v + NEXT_EPOCH_HEIGHT
  <1> DEFINE k == Len(bs)
             c == commit(bs, s, v)
             h == v + NEXT_EPOCH_HEIGHT
             t == [c EXCEPT !.epoch = 1, !.height = h, !.lastCommitted = h - 1,
                            !.highQC = 0,
                            !.certified = {d \in c.certified : Height(bs, d) > v},
                            !.isViewChange = FALSE]
  <1>1. k \in Nat /\ Tidy(x, C, dec, bs, c)
    BY CommitTidy DEF WellFormed
  <1>2. c \in NodeState(k)
    BY <1>1 DEF Tidy
  <1> HIDE DEF c
  <1>3. /\ 1 \in 0 .. 1 /\ h \in Nat \ {0} /\ h - 1 \in Nat /\ 0 \in 0 .. k
        /\ {d \in c.certified : Height(bs, d) > v} \in SUBSET (0 .. k)
        /\ FALSE \in BOOLEAN
    BY <1>1, <1>2, Fields, ChainAssumption
  <1>4. t \in NodeState(k)
    BY ONLY <1>2, <1>3, ZenonT(60) DEF NodeState
  <1>5. t = advance_epoch(bs, s, v)
    BY Zenon DEF advance_epoch, c
  <1>6. /\ t.epoch = 1 /\ t.isViewChange = FALSE
        /\ t.stored = c.stored /\ t.suspended = c.suspended /\ t.orphans = c.orphans
        /\ t.voted = c.voted /\ t.timeouts = c.timeouts /\ t.delivered = c.delivered
        /\ t.height = h /\ t.highQC = 0
    BY <1>2 DEF NodeState
  <1> HIDE DEF t
  <1>7. Stocked(C, bs, t) /\ Gapless(bs, t)
    <2>1. Height(bs, t.highQC) < t.height
      BY <1>3, <1>6 DEF Height
    <2> QED
      BY <1>1, <1>6, <2>1 DEF Tidy, Stocked, Gapless
  <1>8. Above(v, t.epoch, t.height)
    BY <1>3, <1>6 DEF Above
  <1>9. x = {} => Faithful(bs, t)
    BY <1>1, <1>6 DEF Tidy, Faithful
  <1> QED
    BY <1>4, <1>5, <1>6, <1>7, <1>8, <1>9 DEF Tidy

LEMMA CheckTimeoutTidy ==
  ASSUME NEW x, NEW C, NEW dec, NEW bs, WellFormed(bs), NEW s, Tidy(x, C, dec, bs, s),
         NEW tc \in BOOLEAN
  PROVE  Tidy(x, C, dec, bs, check_timeout(bs, s, tc))
  <1> DEFINE k  == Len(bs)
             lv == IF s.lastVoted < s.height THEN s.height ELSE s.lastVoted
             s1 == [s EXCEPT !.isViewChange = TRUE, !.lastVoted = lv,
                             !.timeouts = s.timeouts \cup {s.highQC}]
             t  == [s EXCEPT !.isViewChange = TRUE]
             p  == process_qc(bs, s1, s.highQC)
  <1>1. k \in Nat /\ s \in NodeState(k) /\ s.height \in Nat /\ s.highQC \in 0 .. k
    BY Fields DEF WellFormed, Tidy
  <1>2. lv \in Nat /\ s.timeouts \cup {s.highQC} \in SUBSET (0 .. k)
    BY <1>1, Fields
  <1> HIDE DEF lv
  <1>3. Tidy(x, C, dec, bs, t)
    <2>1. t \in NodeState(k)
      BY ONLY <1>1, Zenon DEF NodeState
    <2>2. /\ t.epoch = s.epoch /\ t.isViewChange = TRUE
          /\ t.stored = s.stored /\ t.suspended = s.suspended /\ t.orphans = s.orphans
          /\ t.voted = s.voted /\ t.timeouts = s.timeouts /\ t.delivered = s.delivered
          /\ t.height = s.height /\ t.highQC = s.highQC
          /\ t.lastCommitted = s.lastCommitted
      BY <1>1 DEF NodeState
    <2> HIDE DEF t
    <2>3. Stocked(C, bs, t) /\ Gapless(bs, t) /\ Above(dec, t.epoch, t.height)
      BY <2>2 DEF Tidy, Stocked, Gapless, Above
    <2>4. x = {} => Faithful(bs, t)
      BY <2>2 DEF Tidy, Faithful
    <2> QED
      BY <2>1, <2>3, <2>4 DEF Tidy
  <1>4. ASSUME s.epoch = 0 PROVE Tidy(x, C, dec, bs, s1)
    <2>1. s1 \in NodeState(k)
      BY ONLY <1>1, <1>2, Zenon DEF NodeState
    <2>2. /\ s1.epoch = s.epoch /\ s1.isViewChange = TRUE
          /\ s1.stored = s.stored /\ s1.suspended = s.suspended /\ s1.orphans = s.orphans
          /\ s1.voted = s.voted /\ s1.timeouts = s.timeouts \cup {s.highQC}
          /\ s1.delivered = s.delivered
          /\ s1.height = s.height /\ s1.highQC = s.highQC
          /\ s1.lastCommitted = s.lastCommitted
      BY <1>1 DEF NodeState
    <2> HIDE DEF s1
    <2>3. Stocked(C, bs, s1) /\ Gapless(bs, s1) /\ Above(dec, s1.epoch, s1.height)
      BY <2>2 DEF Tidy, Stocked, Gapless, Above
    <2>4. x = {} => Faithful(bs, s1)
      BY <1>4, <2>2 DEF Tidy, Faithful
    <2> QED
      BY <2>1, <2>3, <2>4 DEF Tidy
  <1>5. ASSUME s.epoch = 0 PROVE Tidy(x, C, dec, bs, p)
    <2>1. Tidy(x, C, dec, bs, s1)
      BY <1>4, <1>5
    <2> HIDE DEF s1
    <2> QED
      BY <1>1, <2>1, ProcessQCTidy
  <1>6. \/ check_timeout(bs, s, tc) = s
        \/ check_timeout(bs, s, tc) = t
        \/ s.epoch = 0 /\ check_timeout(bs, s, tc) = p
    <2>1. s.epoch = 0 => s1.epoch = 0
      BY <1>1 DEF NodeState
    <2>2. s.epoch = 0 => handle_timeout(bs, s1, s.highQC) = p
      BY <2>1 DEF handle_timeout
    <2>3. check_timeout(bs, s, tc) =
            IF s.epoch # 0 THEN s
            ELSE IF tc THEN t
            ELSE IF s.isViewChange \/ s.height + LAMBDA_VAL >= s.others THEN s
            ELSE handle_timeout(bs, s1, s.highQC)
      BY DEF check_timeout, lv
    <2> HIDE DEF s1, t, p
    <2> QED
      BY <2>2, <2>3
  <1> HIDE DEF t, p
  <1> QED
    BY <1>3, <1>5, <1>6

\* More blocks and more known certificates leave a record tidy.
LEMMA TidyGrows ==
  ASSUME NEW x, NEW C, NEW C2, C \subseteq C2, NEW dec, NEW dec2, dec = None \/ dec2 = dec,
         NEW bs, WellFormed(bs), NEW cs, WellFormed(cs), Extends(bs, cs),
         NEW s, Tidy(x, C, dec, bs, s)
  PROVE  Tidy(x, C2, dec2, cs, s)
  <1>1. /\ Len(bs) \in Nat /\ Len(cs) \in Nat /\ Len(bs) <= Len(cs)
        /\ s \in NodeState(Len(bs))
    BY DEF WellFormed, Extends, Tidy
  <1>2. s \in NodeState(Len(cs))
    BY <1>1, NodeStateGrows
  <1>3. /\ s.highQC \in 0 .. Len(bs) /\ s.timeouts \subseteq 0 .. Len(bs)
        /\ s.stored \cup s.suspended \cup s.voted \cup s.delivered \subseteq 1 .. Len(bs)
        /\ s.delivered \subseteq 0 .. Len(bs)
    BY <1>1, Fields
  <1>4. /\ \A d \in 0 .. Len(bs) : Height(cs, d) = Height(bs, d)
        /\ \A d \in 1 .. Len(bs) : /\ cs[d] = bs[d]
                                   /\ Height(cs, cs[d].qc) = Height(bs, bs[d].qc)
    BY SameHeights
  <1>5. Stocked(C2, cs, s)
    BY <1>3, <1>4 DEF Tidy, Stocked
  <1>6. Gapless(cs, s)
    BY <1>3, <1>4 DEF Tidy, Gapless
  <1>7. x = {} => Faithful(cs, s)
    BY <1>3, <1>4 DEF Tidy, Faithful
  <1>8. Above(dec2, s.epoch, s.height)
    BY DEF Tidy, Above, None
  <1> QED
    BY <1>2, <1>5, <1>6, <1>7, <1>8 DEF Tidy
-----------------------------------------------------------------------------
(***************************************************************************)
(* One lemma per action.                                                   *)
(***************************************************************************)
LEMMA JoinedGrows ==
  ASSUME NEW dec, NEW dec2, dec = None \/ dec2 = dec,
         NEW bs, WellFormed(bs), NEW cs, Extends(bs, cs),
         NEW b \in Block(Len(bs)), Joined(dec, bs, b)
  PROVE  Joined(dec2, cs, b)
  <1>1. b.qc \in 0 .. Len(bs)
    BY DEF Block
  <1>2. Height(cs, b.qc) = Height(bs, b.qc)
    BY <1>1, SameHeights
  <1> QED
    BY <1>2 DEF Joined, Above, None

LEMMA LinkedFacts ==
  ASSUME Inv, Linked
  PROVE  /\ WellFormed(blocks) /\ Len(blocks) \in Nat /\ Digest = 1 .. Len(blocks)
         /\ Extends(blocks, blocks) /\ 0 \in Valid /\ Valid \subseteq 0 .. Len(blocks)
         /\ Correct \subseteq Node /\ Author \in Node
         /\ decided # None => Ended(decided)
         /\ \A d \in 1 .. Len(blocks) : Joined(decided, blocks, blocks[d])
         /\ \A n \in Correct : /\ node[n] \in NodeState(Len(blocks))
                               /\ 0 \in Known(n)
                               /\ Tidy(Excuse(n), Known(n), decided, blocks, node[n])
  <1>1. /\ WellFormed(blocks) /\ Len(blocks) \in Nat /\ Digest = 1 .. Len(blocks)
        /\ Extends(blocks, blocks) /\ 0 \in Valid /\ Valid \subseteq 0 .. Len(blocks)
        /\ Correct \subseteq Node /\ Author \in Node
    BY ChainAssumption DEF Inv, WellFormed, Digest, Extends, Valid, ValidQC, Correct
  <1>2. \A n \in Correct : node[n] \in NodeState(Len(blocks)) /\ 0 \in Known(n)
    BY <1>1 DEF Inv, Known
  <1> QED
    BY <1>1, <1>2 DEF Linked

LEMMA LinkStep ==
  ASSUME Inv, Inv', Linked, Remembered, Extends(blocks, blocks'),
         NEW v, decided' = v, decided = None \/ v = decided, v # None => Ended(v),
         \A d \in 1 .. Len(blocks') : Joined(v, blocks', blocks'[d]),
         \A n \in Correct : Tidy({n} \cap restarted', Known(n), v, blocks', node'[n])
  PROVE  Linked'
  <1>1. /\ WellFormed(blocks') /\ Len(blocks) \in Nat /\ Len(blocks') \in Nat
        /\ Len(blocks) <= Len(blocks') /\ Extends(blocks', blocks')
    BY DEF Inv, WellFormed, Extends
  <1>2. Valid \subseteq Valid'
    BY <1>1, StaysValid
  <1>3. \A n \in Correct : Known(n) \subseteq Known(n)'
    BY <1>1, <1>2 DEF Known
  <1>4. v # None => Ended(v)'
    BY StaysEnded
  <1>5. ASSUME NEW n \in Correct
        PROVE  Tidy({n} \cap restarted', Known(n)', v, blocks', node'[n])
    <2> DEFINE x  == {n} \cap restarted'
               C  == Known(n)
               C2 == Known(n)'
    <2>1. Tidy(x, C, v, blocks', node'[n]) /\ C \subseteq C2
      BY <1>3
    <2> HIDE DEF x, C, C2
    <2>2. Tidy(x, C2, v, blocks', node'[n])
      BY <1>1, <2>1, TidyGrows
    <2> QED
      BY <2>2 DEF x, C2
  <1> QED
    BY <1>4, <1>5 DEF Linked, Digest, Correct, Excuse

\* One iteration of the loop of node n, whose handler leaves it in s.
LEMMA IterationLinked ==
  ASSUME Inv, Inv', Linked, Remembered, NEW n \in Correct, NEW bs, WellFormed(bs),
         Extends(blocks, bs), NEW s, NEW tc \in BOOLEAN, Iteration(n, bs, s, tc),
         restarted' = restarted,
         NEW v, decided' = v, decided = None \/ v = decided, v # None => Ended(v),
         \A d \in 1 .. Len(bs) : Joined(v, bs, bs[d]),
         Tidy(Excuse(n), Known(n), v, bs, s)
  PROVE  Linked'
  <1> DEFINE t == check_timeout(bs, s, tc)
  <1>1. Tidy(Excuse(n), Known(n), v, bs, t)
    BY CheckTimeoutTidy
  <1>2. blocks' = bs /\ node' = [node EXCEPT ![n] = t]
    BY DEF Iteration
  <1>3. n \in Node /\ node'[n] = t /\ \A m \in Node \ {n} : node'[m] = node[m]
    BY <1>2 DEF Inv, Correct
  <1> HIDE DEF t
  <1>4. ASSUME NEW m \in Correct
        PROVE  Tidy({m} \cap restarted', Known(m), v, blocks', node'[m])
    <2>1. CASE m = n
      BY <1>1, <1>2, <1>3, <2>1 DEF Excuse
    <2>2. CASE m # n
      <3> DEFINE x == Excuse(m)
                 C == Known(m)
      <3>1. m \in Node /\ node'[m] = node[m]
        BY <1>3, <2>2 DEF Correct
      <3>2. Tidy(x, C, decided, blocks, node[m]) /\ WellFormed(blocks)
        BY LinkedFacts
      <3>3. x = {m} \cap restarted'
        BY DEF Excuse
      <3> HIDE DEF x, C
      <3>4. Tidy(x, C, v, bs, node[m])
        BY <3>2, TidyGrows
      <3> QED
        BY <1>2, <3>1, <3>3, <3>4 DEF C
    <2> QED
      BY <2>1, <2>2
  <1> QED
    BY <1>2, <1>4, LinkStep

\* An iteration in which the node stays in its epoch and proposes nothing.
LEMMA QuietLinked ==
  ASSUME Inv, Inv', Linked, Remembered, NEW n \in Correct, NEW s, NEW tc \in BOOLEAN,
         Iteration(n, blocks, s, tc), UNCHANGED <<decided, restarted>>,
         Tidy(Excuse(n), Known(n), decided, blocks, s)
  PROVE  Linked'
  <1> DEFINE v == decided
  <1>1. /\ decided' = v /\ v = decided /\ (v # None => Ended(v)) /\ restarted' = restarted
        /\ Tidy(Excuse(n), Known(n), v, blocks, s)
        /\ \A d \in 1 .. Len(blocks) : Joined(v, blocks, blocks[d])
    BY LinkedFacts
  <1> HIDE DEF v
  <1> QED
    BY <1>1, LinkedFacts, IterationLinked

\* The author, in the record s, proposes its next block over q.
LEMMA ProposeLinked ==
  ASSUME Inv, Inv', Linked, Remembered, Author \in Correct,
         NEW v, decided' = v, decided = None \/ v = decided, v # None => Ended(v),
         restarted' = restarted, NEW s, Tidy(Excuse(Author), Known(Author), v, blocks, s),
         NEW q \in 0 .. Len(blocks), Joined(v, blocks, NextBlock(s, q)),
         s.epoch = 0 => q = s.highQC,
         NEW bs, bs = Append(blocks, NextBlock(s, q)),
         Iteration(Author, bs, process_block(bs, Author, s, Len(bs)), FALSE)
  PROVE  Linked'
  <1> DEFINE k == Len(blocks)
             b == NextBlock(s, q)
             x == Excuse(Author)
             C == Known(Author)
             p == process_block(bs, Author, s, Len(bs))
  <1>1. /\ WellFormed(blocks) /\ k \in Nat /\ Author \in Node /\ C = 0 .. k
        /\ Extends(blocks, blocks)
        /\ \A d \in 1 .. k : Joined(decided, blocks, blocks[d]) /\ blocks[d] \in Block(k)
    BY LinkedFacts, HeightType DEF Known
  <1>2. s \in NodeState(k) /\ b \in Block(k) /\ b.qc = q
    BY <1>1, NextBlockType DEF Tidy, NextBlock
  <1>3. Joined(v, blocks, b)
    OBVIOUS
  <1> HIDE DEF b
  <1>4. WellFormed(bs) /\ Extends(blocks, bs) /\ Len(bs) = k + 1 /\ bs[k + 1] = b
    BY <1>1, <1>2, AppendExtends DEF b
  <1>5. \A d \in 1 .. k : bs[d] = blocks[d]
    BY <1>4 DEF Extends
  <1>6. \A d \in 1 .. Len(bs) : Joined(v, bs, bs[d])
    <2> TAKE d \in 1 .. Len(bs)
    <2>1. CASE d = k + 1
      <3>1. v = None \/ v = v
        OBVIOUS
      <3>2. Joined(v, bs, b)
        BY <1>1, <1>2, <1>3, <1>4, JoinedGrows
      <3> QED
        BY <1>4, <2>1, <3>2
    <2>2. CASE d \in 1 .. k
      <3>1. Joined(v, bs, blocks[d])
        BY <1>1, <1>4, <2>2, JoinedGrows
      <3> QED
        BY <1>5, <2>2, <3>1
    <2> QED
      BY <1>1, <1>4, <2>1, <2>2
  <1>7. Tidy(x, C, v, bs, s)
    <2>1. Tidy(x, C, v, blocks, s)
      OBVIOUS
    <2> HIDE DEF x, C
    <2> QED
      BY <1>1, <1>4, <2>1, TidyGrows
  <1>8. Tidy(x, C, v, bs, p)
    <2>1. Len(bs) \in 1 .. Len(bs) /\ bs[Len(bs)].qc = q /\ q \in 0 .. Len(bs) /\ q \in C
      BY <1>1, <1>2, <1>4
    <2>2. Height(bs, q) \in Nat
      BY <1>4, <2>1, HeightType
    <2>3. x = {} /\ s.epoch = 0 => Height(bs, bs[Len(bs)].qc) <= Height(bs, s.highQC)
      BY <2>1, <2>2
    <2> HIDE DEF x, C
    <2> QED
      BY <1>1, <1>4, <1>7, <2>1, <2>3, ProcessBlockTidy
  <1> HIDE DEF p
  <1>9. Iteration(Author, bs, p, FALSE)
    BY DEF p
  <1> QED
    BY <1>4, <1>6, <1>8, <1>9, IterationLinked

LEMMA HandleProposalLinked ==
  ASSUME Inv, Inv', Linked, Remembered, NEW n \in Correct, NEW d \in Digest,
         NEW payload \in BOOLEAN, HandleProposal(n, d, payload)
  PROVE  Linked'
  <1> DEFINE s == handle_proposal(blocks, n, node[n], d, payload)
             C == Known(n)
             x == Excuse(n)
  <1>1. blocks[d].qc \in C
    BY LinkedFacts, HeightType DEF HandleProposal, Known, Valid
  <1>2. Tidy(x, C, decided, blocks, node[n]) /\ n \in Node /\ d \in 1 .. Len(blocks)
    BY LinkedFacts
  <1>3. Tidy(x, C, decided, blocks, s)
    <2> HIDE DEF x, C
    <2> QED
      BY <1>1, <1>2, LinkedFacts, HandleProposalTidy
  <1>4. Iteration(n, blocks, s, FALSE) /\ UNCHANGED <<decided, restarted>>
    BY DEF HandleProposal
  <1> HIDE DEF s
  <1> QED
    BY <1>3, <1>4, QuietLinked

LEMMA LoopBackLinked ==
  ASSUME Inv, Inv', Linked, Remembered, NEW n \in Correct, NEW d \in Digest, LoopBack(n, d)
  PROVE  Linked'
  <1> DEFINE k == Len(blocks)
             s == node[n]
             t == [s EXCEPT !.suspended = s.suspended \ {d}, !.orphans = s.orphans \ {d}]
             p == process_block(blocks, n, t, d)
             C == Known(n)
             x == Excuse(n)
  <1>1. s \in NodeState(k) /\ k \in Nat /\ d \in 1 .. k /\ n \in Node
    BY LinkedFacts
  <1>2. t \in NodeState(k)
    <2>1. s.suspended \ {d} \in SUBSET (1 .. k) /\ s.orphans \ {d} \in SUBSET (1 .. k)
      BY <1>1, Fields
    <2> QED
      BY ONLY <1>1, <2>1, Zenon DEF NodeState
  <1>3. /\ t.epoch = s.epoch /\ t.isViewChange = s.isViewChange
        /\ t.stored = s.stored /\ t.suspended \subseteq s.suspended
        /\ t.orphans \subseteq s.orphans
        /\ t.voted = s.voted /\ t.timeouts = s.timeouts /\ t.delivered = s.delivered
        /\ t.height = s.height /\ t.highQC = s.highQC
        /\ t.lastCommitted = s.lastCommitted
    BY <1>1 DEF NodeState
  <1>4. Iteration(n, blocks, p, FALSE) /\ UNCHANGED <<decided, restarted>>
    BY Zenon DEF LoopBack
  <1>5. d \in s.suspended \cup s.orphans
    BY DEF LoopBack
  <1> HIDE DEF t
  <1>6. Tidy(x, C, decided, blocks, s)
    BY LinkedFacts
  <1> HIDE DEF x, C, s
  <1>7. Tidy(x, C, decided, blocks, t)
    <2>1. Stocked(C, blocks, t) /\ Gapless(blocks, t) /\ Above(decided, t.epoch, t.height)
      BY <1>3, <1>6 DEF Tidy, Stocked, Gapless, Above
    <2>2. x = {} => Faithful(blocks, t)
      BY <1>3, <1>6 DEF Tidy, Faithful
    <2> QED
      BY <1>2, <2>1, <2>2 DEF Tidy
  <1>8. /\ blocks[d].qc \in C
        /\ x = {} /\ t.epoch = 0 => Height(blocks, blocks[d].qc) <= Height(blocks, t.highQC)
    BY <1>3, <1>5, <1>6 DEF Tidy, Stocked, Faithful
  <1>9. Tidy(x, C, decided, blocks, p)
    BY <1>1, <1>7, <1>8, LinkedFacts, ProcessBlockTidy
  <1> HIDE DEF p
  <1> QED
    BY <1>4, <1>9, QuietLinked DEF x, C

LEMMA HandleTimeoutLinked ==
  ASSUME Inv, Inv', Linked, Remembered, NEW n \in Correct, NEW m, NEW q \in Digest \cup {0},
         HandleTimeout(n, m, q)
  PROVE  Linked'
  <1> DEFINE t == handle_timeout(blocks, node[n], q)
             C == Known(n)
             x == Excuse(n)
  <1>1. q \in 0 .. Len(blocks)
    BY LinkedFacts
  <1>2. Tidy(x, C, decided, blocks, node[n])
    BY LinkedFacts
  <1>3. Tidy(x, C, decided, blocks, t)
    <2> HIDE DEF x, C
    <2>1. Tidy(x, C, decided, blocks, process_qc(blocks, node[n], q))
      BY <1>1, <1>2, LinkedFacts, ProcessQCTidy
    <2> QED
      BY <1>2, <2>1 DEF handle_timeout
  <1>4. Iteration(n, blocks, t, FALSE) /\ UNCHANGED <<decided, restarted>>
    BY DEF HandleTimeout
  <1> HIDE DEF t
  <1> QED
    BY <1>3, <1>4, QuietLinked

LEMMA HandleTCLinked ==
  ASSUME Inv, Inv', Linked, Remembered, NEW n \in Correct, HandleTC(n)
  PROVE  Linked'
  BY LinkedFacts, QuietLinked DEF HandleTC

LEMMA OtherMessageLinked ==
  ASSUME Inv, Inv', Linked, Remembered, NEW n \in Correct, NEW h \in OtherHeights,
         OtherMessage(n, h)
  PROVE  Linked'
  <1> DEFINE s == node[n]
             t == [s EXCEPT !.others = h]
  <1>1. s \in NodeState(Len(blocks)) /\ h \in Nat
    BY LinkedFacts, ChainAssumption
  <1>2. t \in NodeState(Len(blocks))
    BY ONLY <1>1, Zenon DEF NodeState
  <1>3. Alike(s, t)
    BY <1>1 DEF NodeState, Alike
  <1>4. Iteration(n, blocks, t, FALSE) /\ UNCHANGED <<decided, restarted>>
    BY DEF OtherMessage
  <1> HIDE DEF t
  <1>5. Tidy(Excuse(n), Known(n), decided, blocks, t)
    BY <1>2, <1>3, LinkedFacts, AlikeTidy
  <1> QED
    BY <1>4, <1>5, QuietLinked

LEMMA AdvanceEpochLinked ==
  ASSUME Inv, Inv', Linked, Remembered, NEW n \in Correct, NEW v \in Heights \cup {0},
         AdvanceEpoch(n, v)
  PROVE  Linked'
  <1> DEFINE s  == node[n]
             s1 == advance_epoch(blocks, s, v)
             bs == Append(blocks, NextBlock(s1, 0))
             C  == Known(n)
             x  == Excuse(n)
  <1>1. /\ v \in Nat /\ v # None /\ s.epoch = 0 /\ decided' = v /\ restarted' = restarted
        /\ decided = None \/ v = decided
        /\ decided = None => v \in TCs
    BY DEF AdvanceEpoch, Heights, None
  <1>2. Ended(v)
    <2>1. CASE decided = None
      BY <1>1, <2>1 DEF TCs, Ended
    <2>2. CASE decided # None
      BY <1>1, <2>2, LinkedFacts
    <2> QED
      BY <2>1, <2>2
  <1>3. Tidy(x, C, decided, blocks, s)
    BY LinkedFacts
  <1>4. Tidy(x, C, v, blocks, s1) /\ s1.epoch = 1 /\ s1.height = v + NEXT_EPOCH_HEIGHT
    <2> HIDE DEF x, C, s
    <2> QED
      BY <1>1, <1>3, LinkedFacts, AdvanceEpochTidy
  <1>5. CASE n # Author
    <2>1. Iteration(n, blocks, s1, FALSE)
      BY <1>5, Zenon DEF AdvanceEpoch
    <2>2. \A d \in 1 .. Len(blocks) : Joined(v, blocks, blocks[d])
      BY <1>1, LinkedFacts, HeightType, JoinedGrows
    <2> HIDE DEF s1
    <2> QED
      BY <1>1, <1>2, <1>4, <2>1, <2>2, LinkedFacts, IterationLinked
  <1>6. CASE n = Author
    <2>1. Iteration(Author, bs, process_block(bs, Author, s1, Len(bs)), FALSE)
      BY <1>6, Zenon DEF AdvanceEpoch
    <2> HIDE DEF s1
    <2>2. Joined(v, blocks, NextBlock(s1, 0))
      BY <1>1, <1>4, ChainAssumption DEF Joined, Above, NextBlock
    <2>3. 0 \in 0 .. Len(blocks) /\ (s1.epoch = 0 => 0 = s1.highQC) /\ (v # None => Ended(v))
      BY <1>2, <1>4, LinkedFacts
    <2>4. bs = Append(blocks, NextBlock(s1, 0))
      OBVIOUS
    <2> HIDE DEF bs
    <2> QED
      BY <1>1, <1>4, <1>6, <2>1, <2>2, <2>3, <2>4, ProposeLinked
  <1> QED
    BY <1>5, <1>6

LEMMA HandleVoteLinked ==
  ASSUME Inv, Inv', Linked, Remembered, NEW m \in Node, NEW d \in Digest, HandleVote(m, d)
  PROVE  Linked'
  <1> DEFINE k  == Len(blocks)
             s  == node[Author]
             v  == [author |-> m, hash |-> d]
             s0 == add_vote(blocks, s, v)
             s1 == process_qc(blocks, s0, d)
             bs == Append(blocks, NextBlock(s1, s1.highQC))
             C  == Known(Author)
             x  == Excuse(Author)
  <1>1. /\ Author \in Correct /\ decided' = decided /\ restarted' = restarted
    BY Zenon DEF HandleVote
  <1>2. /\ WellFormed(blocks) /\ k \in Nat /\ d \in 1 .. k /\ d \in 0 .. k
        /\ s \in NodeState(k) /\ Tidy(x, C, decided, blocks, s)
        /\ decided # None => Ended(decided)
    BY <1>1, LinkedFacts
  <1>3. v \in [author : Node, hash : 1 .. k]
    BY <1>2
  <1>4. Tidy(x, C, decided, blocks, s0) /\ Alike(s, s0)
    <2> HIDE DEF x, C, v, s
    <2> QED
      BY <1>2, <1>3, AddVoteTidy
  <1>5. CASE ~MakesQC(blocks, s, v)
    <2>1. Iteration(Author, blocks, s0, FALSE)
      BY <1>5, Zenon DEF HandleVote
    <2> HIDE DEF s0
    <2> QED
      BY <1>1, <1>4, <2>1, QuietLinked
  <1>6. CASE MakesQC(blocks, s, v)
    <2>1. Iteration(Author, bs, process_block(bs, Author, s1, Len(bs)), FALSE)
      BY <1>6, Zenon DEF HandleVote
    <2>2. Height(blocks, d) >= s.height
      BY <1>6 DEF MakesQC, AcceptsVote
    <2>3. s0.height = s.height /\ s0 \in NodeState(k) /\ Height(blocks, s0.highQC) < s0.height
      BY <1>4 DEF Alike, Tidy, Stocked
    <2> HIDE DEF s0
    <2>4. /\ s1.height = IF Height(blocks, d) < s0.height THEN s0.height ELSE Height(blocks, d) + 1
          /\ s1.highQC = IF Height(blocks, d) > Height(blocks, s0.highQC) THEN d ELSE s0.highQC
      BY <1>2, <2>3, ProcessQCFields
    <2>5. Tidy(x, C, decided, blocks, s1)
      <3> HIDE DEF x, C
      <3> QED
        BY <1>2, <1>4, ProcessQCTidy
    <2> HIDE DEF s1
    <2>6. s1.highQC = d /\ s1.height = Height(blocks, d) + 1
      <3>1. /\ Height(blocks, d) \in Nat /\ s0.height \in Nat
            /\ Height(blocks, s0.highQC) \in Nat
        <4>1. s0.highQC \in 0 .. k /\ s0.height \in Nat
          BY <1>2, <2>3, Fields
        <4> QED
          BY <1>2, <4>1, HeightType
      <3> QED
        BY <2>2, <2>3, <2>4, <3>1
    <2>7. Joined(decided, blocks, NextBlock(s1, s1.highQC))
      <3>1. d # 0 /\ Above(decided, s1.epoch, s1.height)
        BY <1>2, <2>5 DEF Tidy
      <3> QED
        BY <2>6, <3>1 DEF Joined, NextBlock
    <2> DEFINE w == decided
               q == s1.highQC
    <2>8. /\ decided' = w /\ (decided = None \/ w = decided) /\ (w # None => Ended(w))
          /\ Tidy(Excuse(Author), Known(Author), w, blocks, s1)
          /\ Joined(w, blocks, NextBlock(s1, q)) /\ q \in 0 .. Len(blocks)
          /\ bs = Append(blocks, NextBlock(s1, q)) /\ (s1.epoch = 0 => q = s1.highQC)
      BY <1>1, <1>2, <2>5, <2>6, <2>7
    <2> HIDE DEF w, q, bs
    <2> QED
      BY <1>1, <2>1, <2>8, ProposeLinked
  <1> QED
    BY <1>5, <1>6

\* A node that starts again has delivered what it had before.
LEMMA RestartLinked ==
  ASSUME Inv, Inv', Linked, Remembered, NEW n \in Correct, Restart(n)
  PROVE  Linked'
  <1> DEFINE k  == Len(blocks)
             s  == node[n]
             t  == [NewNode EXCEPT !.stored = s.stored, !.voted = s.voted,
                                   !.timeouts = s.timeouts, !.delivered = s.delivered]
             bs == Append(blocks, FirstBlock)
             p  == process_block(bs, n, t, Len(bs))
             v  == decided
             C  == Known(n)
             x  == {n} \cap restarted'
  <1>1. /\ restarted' = restarted \cup {n} /\ decided' = v
        /\ \/ n # Author /\ blocks' = blocks /\ node' = [node EXCEPT ![n] = t]
           \/ n = Author /\ blocks' = bs /\ node' = [node EXCEPT ![n] = p]
    BY DEF Restart
  <1>2. /\ WellFormed(blocks) /\ k \in Nat /\ n \in Node /\ s \in NodeState(k)
        /\ Tidy(Excuse(n), C, v, blocks, s) /\ 0 \in C /\ (v # None => Ended(v))
        /\ Extends(blocks, blocks)
        /\ \A d \in 1 .. k : Joined(v, blocks, blocks[d]) /\ blocks[d] \in Block(k)
    BY LinkedFacts, HeightType
  <1>3. t \in NodeState(k)
    <2>1. NewNode \in NodeState(k)
      <3>1. Sound({1}, blocks, NewNode)
        BY <1>2, NewNodeSound
      <3> QED
        BY <3>1 DEF Sound
    <2>2. /\ s.stored \in SUBSET (1 .. k) /\ s.voted \in SUBSET (1 .. k)
          /\ s.timeouts \in SUBSET (0 .. k) /\ s.delivered \in SUBSET (1 .. k)
      BY <1>2, Fields
    <2> QED
      BY ONLY <2>1, <2>2, Zenon DEF NodeState
  <1>4. /\ t.epoch = 0 /\ t.height = 1 /\ t.lastCommitted = 0 /\ t.highQC = 0
        /\ t.suspended = {} /\ t.orphans = {}
        /\ t.stored = s.stored /\ t.voted = s.voted /\ t.delivered = s.delivered
    BY DEF NewNode
  <1> HIDE DEF t
  <1>5. x # {}
    BY <1>1
  <1>6. Tidy(x, C, v, blocks, t)
    <2> HIDE DEF x, C
    <2>1. Stocked(C, blocks, t)
      BY <1>2, <1>4 DEF Tidy, Stocked, Height
    <2>2. Gapless(blocks, t) /\ Above(v, t.epoch, t.height)
      BY <1>2, <1>4 DEF Tidy, Gapless, Above
    <2> QED
      BY <1>3, <1>5, <2>1, <2>2 DEF Tidy
  <1>7. /\ WellFormed(bs) /\ Extends(blocks, bs) /\ Len(bs) = k + 1 /\ bs[k + 1] = FirstBlock
        /\ FirstBlock \in Block(k) /\ Joined(v, blocks, FirstBlock)
    <2>1. FirstBlock \in Block(k)
      BY <1>2, ChainAssumption DEF FirstBlock, Block
    <2>2. Joined(v, blocks, FirstBlock)
      BY DEF Joined, Above, FirstBlock
    <2> QED
      BY <1>2, <2>1, <2>2, AppendExtends
  <1> HIDE DEF bs
  <1>8. ASSUME NEW cs, cs = blocks \/ cs = bs
        PROVE  /\ WellFormed(cs) /\ Extends(blocks, cs)
               /\ \A d \in 1 .. Len(cs) : Joined(v, cs, cs[d])
               /\ \A m \in Correct : Tidy(Excuse(m), Known(m), v, cs, node[m])
    <2>1. WellFormed(cs) /\ Extends(blocks, cs)
      BY <1>2, <1>7, <1>8
    <2>2. ASSUME NEW d \in 1 .. Len(cs) PROVE Joined(v, cs, cs[d])
      <3>1. cs[d] \in Block(k) /\ Joined(v, blocks, cs[d])
        BY <1>2, <1>7, <1>8, <2>2 DEF Extends
      <3> HIDE DEF v
      <3> QED
        BY <1>2, <2>1, <3>1, JoinedGrows
    <2>3. ASSUME NEW m \in Correct PROVE Tidy(Excuse(m), Known(m), v, cs, node[m])
      <3> DEFINE y == Excuse(m)
                 D == Known(m)
      <3>1. Tidy(y, D, v, blocks, node[m])
        BY LinkedFacts
      <3> HIDE DEF y, D, v
      <3>2. Tidy(y, D, v, cs, node[m])
        BY <1>2, <2>1, <3>1, TidyGrows
      <3> QED
        BY <3>2 DEF y, D
    <2> QED
      BY <2>1, <2>2, <2>3
  <1>9. ASSUME NEW u, blocks' = blocks \/ blocks' = bs, node' = [node EXCEPT ![n] = u],
               Tidy(x, C, v, blocks', u)
        PROVE  Linked'
    <2>1. node'[n] = u /\ \A m \in Node \ {n} : node'[m] = node[m]
      BY <1>9 DEF Inv, Correct
    <2>2. \A m \in Correct : Tidy({m} \cap restarted', Known(m), v, blocks', node'[m])
      <3> TAKE m \in Correct
      <3>1. CASE m = n
        BY <1>9, <2>1, <3>1
      <3>2. CASE m # n
        <4>1. node'[m] = node[m] /\ Excuse(m) = {m} \cap restarted'
          BY <1>1, <2>1, <3>2 DEF Correct, Excuse
        <4> QED
          BY <1>8, <1>9, <4>1
      <3> QED
        BY <3>1, <3>2
    <2>3. decided' = v /\ v = decided /\ (v # None => Ended(v))
      BY <1>1, <1>2
    <2> HIDE DEF v
    <2> QED
      BY <1>8, <1>9, <2>2, <2>3, LinkStep
  <1>10. CASE n # Author
    BY <1>1, <1>6, <1>9, <1>10
  <1>11. CASE n = Author
    <2>1. Tidy(x, C, v, bs, p)
      <3>1. Tidy(x, C, v, bs, t)
        <4> HIDE DEF x, C, v
        <4> QED
          BY <1>2, <1>6, <1>7, TidyGrows
      <3>2. Len(bs) \in 1 .. Len(bs) /\ bs[Len(bs)].qc = 0
        BY <1>2, <1>7 DEF FirstBlock
      <3> HIDE DEF x, C, v
      <3> QED
        BY <1>2, <1>5, <1>7, <3>1, <3>2, ProcessBlockTidy
    <2> HIDE DEF p
    <2> QED
      BY <1>1, <1>9, <1>11, <2>1
  <1> QED
    BY <1>10, <1>11

LEMMA InitLinked ==
  ASSUME Init, Author \in Correct
  PROVE  Linked
  <1> DEFINE p == process_block(blocks, Author, NewNode, 1)
             C == 0 .. Len(blocks)
             D == Valid
             v == decided
             x == {}
  <1>1. /\ Inv /\ WellFormed(blocks) /\ Author \in Node /\ Correct \subseteq Node
        /\ v = None /\ restarted = {}
    BY InitInv, ChainAssumption DEF Init, Inv, Correct
  <1>2. /\ blocks = <<FirstBlock>> /\ Len(blocks) = 1 /\ blocks[1] = FirstBlock
        /\ node[Author] = p
        /\ \A n \in Node \ {Author} : node[n] = NewNode
    BY <1>1 DEF Init
  <1>3. /\ blocks[1].height = 1 /\ blocks[1].epoch = 0 /\ blocks[1].qc = 0
        /\ 1 \in 1 .. Len(blocks) /\ \A d \in 1 .. Len(blocks) : d = 1
        /\ 0 \in C /\ 0 \in D
    BY <1>2 DEF FirstBlock, Valid, ValidQC
  <1>4. \A d \in Digest : Joined(v, blocks, blocks[d])
    BY <1>3 DEF Joined, Above, Digest
  <1>5. \A B : Tidy(x, B, v, blocks, NewNode)
    <2> TAKE B
    <2>1. NewNode \in NodeState(Len(blocks))
      <3>1. Sound({1}, blocks, NewNode)
        BY <1>1, NewNodeSound
      <3> QED
        BY <3>1 DEF Sound
    <2>2. /\ NewNode.epoch = 0 /\ NewNode.height = 1 /\ NewNode.highQC = 0
          /\ NewNode.stored = {} /\ NewNode.suspended = {} /\ NewNode.orphans = {}
          /\ NewNode.voted = {} /\ NewNode.timeouts = {} /\ NewNode.delivered = {}
          /\ NewNode.lastCommitted = 0
      BY DEF NewNode
    <2>3. Stocked(B, blocks, NewNode)
      BY <2>2 DEF Stocked, Height
    <2>4. Gapless(blocks, NewNode) /\ Above(v, NewNode.epoch, NewNode.height)
      BY <2>2 DEF Gapless, Above
    <2>5. Faithful(blocks, NewNode)
      BY <2>2 DEF Faithful
    <2> QED
      BY <2>1, <2>3, <2>4, <2>5 DEF Tidy
  <1>6. Tidy(x, C, v, blocks, p)
    <2>1. Height(blocks, blocks[1].qc) <= Height(blocks, NewNode.highQC)
      BY <1>3 DEF Height, NewNode
    <2> HIDE DEF x, C, v
    <2> QED
      BY <1>1, <1>3, <1>5, <2>1, ProcessBlockTidy
  <1> HIDE DEF p
  <1>7. \A n \in Correct : Tidy(Excuse(n), Known(n), v, blocks, node[n])
    BY <1>1, <1>2, <1>5, <1>6 DEF Excuse, Known
  <1> QED
    BY <1>1, <1>4, <1>7 DEF Linked

LEMMA OneChainBefore ==
  ASSUME Inv, [Next]_vars, OneChain'
  PROVE  OneChain
  <1>1. \A d \in Digest : d \in Digest' /\ blocks'[d] = blocks[d]
    BY NextExtends DEF Inv, WellFormed, Extends, Digest
  <1> QED
    BY <1>1 DEF OneChain

LEMMA NextLinked ==
  ASSUME Inv, Inv', LinkInv, [Next]_vars
  PROVE  LinkInv'
  <1> SUFFICES ASSUME Author \in Correct, OneChain' PROVE Linked'
    BY DEF LinkInv, Correct
  <1>1. OneChain /\ Linked
    BY OneChainBefore DEF LinkInv
  <1>2. Remembered
    BY NextKeeps DEF StepKeeps, Kept, Remembered
  <1>3. CASE \E n \in Correct : NodeStep(n)
    <2>1. ASSUME NEW n \in Correct, NEW d \in Digest, StoreOther(n, d) PROVE FALSE
      BY <1>1, <2>1 DEF StoreOther, OneChain
    <2> QED
      BY <1>1, <1>2, <1>3, <2>1, HandleProposalLinked, LoopBackLinked, HandleTimeoutLinked,
         HandleTCLinked, OtherMessageLinked, AdvanceEpochLinked, RestartLinked DEF NodeStep
  <1>4. CASE \E m \in Node, d \in Digest : HandleVote(m, d)
    BY <1>1, <1>2, <1>4, HandleVoteLinked
  <1>5. ASSUME NEW h \in Heights, NEW q \in Digest \cup {0},
               \/ \E e \in 0 .. 1 : FaultyPropose(e, h, q)
               \/ \E a \in OtherAuthors : OtherBlock(a, h, q)
        PROVE  FALSE
    BY <1>5, OtherBlockMixes DEF FaultyPropose, Correct
  <1>6. CASE UNCHANGED vars
    <2> DEFINE v == decided
    <2>1. /\ node' = node /\ blocks' = blocks /\ decided' = v /\ restarted' = restarted
      BY <1>6 DEF vars
    <2>2. /\ Extends(blocks, blocks') /\ v = decided /\ (v # None => Ended(v))
          /\ \A d \in 1 .. Len(blocks') : Joined(v, blocks', blocks'[d])
          /\ \A n \in Correct : Tidy({n} \cap restarted', Known(n), v, blocks', node'[n])
      BY <1>1, <2>1, LinkedFacts DEF Excuse
    <2> HIDE DEF v
    <2> QED
      BY <1>1, <1>2, <2>1, <2>2, LinkStep
  <1> QED
    BY <1>3, <1>4, <1>5, <1>6 DEF Next

LEMMA LinkInvariant == Spec => [](Inv /\ LinkInv)
  <1>1. Init => LinkInv
    BY InitLinked DEF LinkInv
  <1>2. Inv /\ Inv' /\ LinkInv /\ [Next]_vars => LinkInv'
    BY NextLinked
  <1> QED
    BY InitInv, NextInv, <1>1, <1>2, PTL DEF Spec
-----------------------------------------------------------------------------
\* A certified block has the vote of a node that runs the code, never
\* restarted and is not the author: one that checked the QC of the block.
LEMMA SteadyVoter ==
  ASSUME Inv, OneChain, NEW d \in Valid \ {0}
  PROVE  \E m \in Voters(d) : m \notin Faulty \cup restarted \cup {Author}
  <1> DEFINE F == Faulty \cup restarted
             G == F \cup {Author}
             Q == Voters(d)
  <1>1. Q \in Quorum
    <2>1. d # 0 /\ d \in Digest
      BY DEF Valid, Digest
    <2>2. blocks[d].author = Author
      BY <2>1 DEF OneChain
    <2> QED
      BY <2>1, <2>2 DEF Valid, ValidQC
  <1>2. F \subseteq Node /\ Author \in Node /\ Cardinality(F) <= MaxFaulty
    BY ChainAssumption DEF Inv, Correct
  <1> HIDE DEF F, Q
  <1>3. IsFiniteSet(F) /\ IsFiniteSet(G) /\ IsFiniteSet(Q) /\ Cardinality(Q) >= quorum_threshold
    BY <1>1, <1>2, CommitteeAssumption, FS_Subset DEF Quorum
  <1>4. /\ Cardinality(F) \in Nat /\ Cardinality(G) \in Nat /\ Cardinality(Q) \in Nat
        /\ Cardinality(G) <= Cardinality(F) + 1
    <2>1. Cardinality(G) = IF Author \in F THEN Cardinality(F) ELSE Cardinality(F) + 1
      BY <1>3, FS_AddElement
    <2> QED
      BY <1>3, <2>1, FS_CardinalityType
  <1>5. ~(Q \subseteq G)
    <2> SUFFICES ASSUME Q \subseteq G PROVE FALSE
      OBVIOUS
    <2>1. Cardinality(Q) <= Cardinality(G)
      BY <1>3, FS_Subset
    <2> HIDE DEF G
    <2> QED
      BY <1>2, <1>3, <1>4, <2>1, Thresholds, CommitteeAssumption
  <1> QED
    BY <1>5 DEF F, Q

\* The QC of a certified block of a correct author is valid: a voter checked it.
LEMMA ParentValid ==
  ASSUME Inv, OneChain, Linked, NEW d \in Valid \ {0}
  PROVE  blocks[d].qc \in Valid
  <1>1. PICK m \in Voters(d) : m \notin Faulty \cup restarted \cup {Author}
    BY SteadyVoter
  <1>2. m \in Correct /\ d \in node[m].voted /\ Known(m) = Valid
    BY <1>1 DEF Voters, Correct, Known
  <1> QED
    BY <1>2 DEF Linked, Tidy, Stocked

\* No certified block is two heights above the height at which epoch 0 ended:
\* what separates the blocks of the two epochs.
LEMMA EpochGap ==
  ASSUME Inv, OneChain, Linked, decided \in Nat, NEW e \in Valid \ {0}
  PROVE  blocks[e].height # decided + 2
  <1> SUFFICES ASSUME blocks[e].height = decided + 2 PROVE FALSE
    OBVIOUS
  <1>1. /\ WellFormed(blocks) /\ Len(blocks) \in Nat /\ e \in 1 .. Len(blocks)
        /\ Joined(decided, blocks, blocks[e]) /\ Ended(decided)
    BY LinkedFacts DEF None
  <1>2. blocks[e].qc # 0 /\ blocks[e].epoch # 1
    BY <1>1, ChainAssumption DEF Joined, Above
  <1>3. Height(blocks, blocks[e].qc) = decided + 1
    <2>1. Height(blocks, blocks[e].qc) \in Nat
      BY <1>1, HeightType
    <2> QED
      BY <1>1, <1>2, <2>1 DEF Joined
  <1>4. blocks[e].epoch = 0
    BY <1>1, <1>2, HeightType
  <1>5. \A n \in Correct \ restarted : Faithful(blocks, node[n])
    BY DEF Linked, Tidy, Excuse
  <1>6. Height(blocks, blocks[e].qc) <= decided
    <2>1. blocks[e].author = Author
      BY <1>1 DEF OneChain, Digest
    <2> QED
      BY <1>1, <1>4, <1>5, <2>1, EndedParents
  <1> QED
    BY <1>3, <1>6

\* What a node delivers of the chain of a correct author, as long as no QC of
\* another chain is attached to it, is one chain of parents: commit_prev_block
\* finds at each height the block that the block above it names, and never
\* passes from one epoch to the next.
THEOREM DeliveriesLinked == Spec => []DeliveredLinked
  <1>1. ASSUME Inv, QCUnique, VCInv, Certified, LinkInv PROVE DeliveredLinked
    <2> SUFFICES ASSUME OneChain, Author \in Correct, NEW n \in Observers,
                        NEW d \in node[n].delivered, blocks[d].height # 1
                 PROVE  /\ blocks[d].qc \in node[n].delivered
                        /\ Height(blocks, blocks[d].qc) + 1 = blocks[d].height
      BY DEF DeliveredLinked
    <2> DEFINE s == node[n]
               k == blocks[d].height
               h == Height(blocks, blocks[d].qc)
    <2>1. Linked /\ WellFormed(blocks) /\ Len(blocks) \in Nat /\ n \in Correct
      BY <1>1, LinkedFacts DEF LinkInv, Observers
    <2>2. s.delivered \subseteq Valid \ {0} /\ Valid \ {0} \subseteq 1 .. Len(blocks)
      BY <1>1, <2>1, DeliveredValid DEF Valid
    <2>3. /\ d \in Valid \ {0} /\ d \in 1 .. Len(blocks) /\ k \in Nat \ {0} /\ h \in Nat
          /\ Height(blocks, d) = k /\ Joined(decided, blocks, blocks[d])
      BY <1>1, <2>1, <2>2, LinkedFacts, HeightType DEF Height
    <2>4. \A i \in 1 .. k : \E e \in s.delivered : blocks[e].height = i
      <3> TAKE i \in 1 .. k
      <3>1. \E e \in s.delivered : Height(blocks, e) = i
        BY <2>1, <2>3 DEF Linked, Tidy, Gapless
      <3> QED
        BY <2>2, <3>1 DEF Height
    <2>5. blocks[d].qc # 0
      <3> SUFFICES ASSUME blocks[d].qc = 0 PROVE FALSE
        OBVIOUS
      <3>1. decided \in Nat /\ k = decided + NEXT_EPOCH_HEIGHT
        BY <2>3 DEF Joined
      <3>2. decided + 2 \in 1 .. k
        BY <3>1, ChainAssumption
      <3>3. PICK e \in s.delivered : blocks[e].height = decided + 2
        BY <2>4, <3>2
      <3> QED
        BY <1>1, <2>1, <2>2, <3>1, <3>3, EpochGap
    <2>6. h + 1 = k
      BY <2>3, <2>5 DEF Joined
    <2>7. blocks[d].qc \in Valid \ {0} /\ blocks[blocks[d].qc].height = h
      BY <1>1, <2>1, <2>3, <2>5, ParentValid DEF Height
    <2>8. h \in 1 .. k
      <3>1. blocks[blocks[d].qc].height \in Nat \ {0}
        BY <2>1, <2>2, <2>7, HeightType
      <3> QED
        BY <2>3, <2>6, <2>7, <3>1
    <2>9. PICK e \in s.delivered : blocks[e].height = h
      BY <2>4, <2>8
    <2>10. e = blocks[d].qc
      BY <1>1, <2>2, <2>7, <2>9 DEF QCUnique, Valid, Digest, Own, OneChain
    <2> QED
      BY <2>6, <2>9, <2>10
  <1> QED
    BY <1>1, ViewChangeInvariant, CertifiedInvariant, CertifiedUnique, LinkInvariant, PTL
=============================================================================
