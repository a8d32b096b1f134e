--------------------------- MODULE CommitteeProofs ---------------------------
(***************************************************************************)
(* Quorums of the committee.                                               *)
(***************************************************************************)
EXTENDS Committee, FiniteSetTheorems, TLAPS

\* The thresholds of config.rs for a committee of 3f + 1 authorities.
LEMMA Thresholds ==
  /\ MaxFaulty \in Nat
  /\ quorum_threshold = 2 * MaxFaulty + 1
  /\ random_coin_threshold = MaxFaulty + 1
  /\ Cardinality(Node) = 3 * MaxFaulty + 1
<1>1. Cardinality(Node) \in Nat
  BY CommitteeAssumption, FS_CardinalityType
<1>2. MaxFaulty \in Int
  BY <1>1 DEF MaxFaulty
<1> QED
  BY <1>1, <1>2, CommitteeAssumption
  DEF MaxFaulty, quorum_threshold, random_coin_threshold, QuorumThreshold,
      RandomCoinThreshold

\* Two quorums have a correct authority in common, when at most MaxFaulty
\* authorities are faulty: why a certificate of quorum_threshold votes counts.
THEOREM QuorumIntersection ==
  ASSUME NEW F, F \subseteq Node, Cardinality(F) <= MaxFaulty,
         NEW P \in Quorum, NEW Q \in Quorum
  PROVE  \E n \in P \cap Q : n \notin F
<1> DEFINE I == P \cap Q
<1>1. /\ IsFiniteSet(Node) /\ IsFiniteSet(P) /\ IsFiniteSet(Q) /\ IsFiniteSet(F)
      /\ IsFiniteSet(I) /\ IsFiniteSet(P \cup Q)
  BY CommitteeAssumption, FS_Subset DEF Quorum
<1>2. /\ Cardinality(P) \in Nat /\ Cardinality(Q) \in Nat /\ Cardinality(I) \in Nat
      /\ Cardinality(F) \in Nat /\ Cardinality(P \cup Q) \in Nat
  BY <1>1, FS_CardinalityType
<1>3. Cardinality(P \cup Q) = Cardinality(P) + Cardinality(Q) - Cardinality(I)
  BY <1>1, FS_Union
<1>4. Cardinality(P \cup Q) <= Cardinality(Node)
  BY <1>1, FS_Subset DEF Quorum
<1>5. Cardinality(P) >= quorum_threshold /\ Cardinality(Q) >= quorum_threshold
  BY DEF Quorum
<1>6. Cardinality(I) > Cardinality(F)
  BY <1>2, <1>3, <1>4, <1>5, Thresholds
<1>7. ~(I \subseteq F)
  <2> SUFFICES ASSUME I \subseteq F PROVE FALSE
    OBVIOUS
  <2>1. Cardinality(I) <= Cardinality(F)
    BY <1>1, FS_Subset
  <2> QED
    BY <2>1, <1>2, <1>6
<1> QED
  BY <1>7
=============================================================================
