------------------------------ MODULE Committee ------------------------------
(***************************************************************************)
(* The committee (consensus/src/config.rs) and the epoch leader            *)
(* (consensus/src/leader.rs).  Every authority has stake 1, as the         *)
(* committees the benchmark writes do, so a weight is a number of nodes.   *)
(***************************************************************************)
EXTENDS Integers, FiniteSets

CONSTANT Node        \* the authorities of the committee

\* The two thresholds of a committee with `total' votes.
QuorumThreshold(total) == 2 * ((total - 1) \div 3) + 1

RandomCoinThreshold(total) == (total - 1) \div 3 + 1

\* The most authorities that may be faulty.
MaxFaulty == (Cardinality(Node) - 1) \div 3

quorum_threshold == QuorumThreshold(Cardinality(Node))

random_coin_threshold == RandomCoinThreshold(Cardinality(Node))

\* The sets of authorities whose joint weight makes a certificate.
Quorum == {Q \in SUBSET Node : Cardinality(Q) >= quorum_threshold}

\* The committee sizes the protocol is designed for.
ASSUME CommitteeAssumption ==
  /\ IsFiniteSet(Node)
  /\ MaxFaulty >= 1 /\ Cardinality(Node) = 3 * MaxFaulty + 1
=============================================================================
