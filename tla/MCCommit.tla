------------------------------ MODULE MCCommit ------------------------------
EXTENDS Commit

CONSTANTS a, b, c

ThreeKeys == <<a, b, c>>

TopOf == [k \in {a, b, c} |-> CASE k = a -> 3 [] k = b -> 4 [] k = c -> 3]

\* The first leader references b at 1 and c at 2, so that a commit can stop
\* between the two blocks of c; the second may go back to height 2 of a.
ReferencedOf == [k \in {a, b, c} |-> CASE k = a -> {2} [] k = b -> {1} [] k = c -> {2}]

\* The blocks of the second leader, and those of the first after its restart,
\* arrive in the order they were sent in; a timeout brings the QC of the height
\* that is decided, the others come with the blocks above theirs.
InOrder ==
  /\ \A x \in stored' :
       x[1] = b \/ x[2] > Restart => x[2] = 1 \/ <<x[1], x[2] - 1>> \in stored'
  /\ stored' # stored \/ certified' \subseteq certified \cup {<<First, decided>>}
=============================================================================
