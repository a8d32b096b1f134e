------------------------------- MODULE MCChain -------------------------------
EXTENDS Chain, TLC

\* The nodes that play the same role may be exchanged.
Alike(S, T) == Permutations(((Correct \ ({Author} \cup Restarting)) \cap S) \cap T)

Symmetry == Alike(Impatient, Starved) \cup Alike(Node \ Impatient, Starved)
              \cup Alike(Impatient, Node \ Starved)

\* Bound: once a node has changed epoch only its votes are followed.
Settled ==
  \A n \in Correct :
    node[n].epoch = 1 => node'[n] = node[n] \/ node'[n].voted # node[n].voted

\* Bound: only the nodes that starve or restart get blocks out of order, and
\* the author restarts before it has proposed a third block.
InOrder ==
  /\ \A n \in Correct \ (Starved \cup Restarting) :
       \A d \in node'[n].stored \ node[n].stored : 1 .. (d - 1) \subseteq node[n].stored
  /\ Len(blocks') > 3 => blocks'[Len(blocks')] # FirstBlock

\* Bounds for a faulty author: it proposes blocks of these heights, as early
\* as it can; a block comes to a node after its parent; and a timeout brings a
\* QC only to a node that has timed out, the others having it from a block.
CanPropose(heights) ==
  /\ Len(blocks) < Len(heights)
  /\ \E q \in Digest \cup {0} :
       ValidQC(q) /\ Height(blocks, q) + 1 = heights[Len(blocks) + 1]

Proposes(heights) ==
  /\ Settled
  /\ Len(blocks') > Len(blocks) <=> CanPropose(heights)
  /\ CanPropose(heights) =>
       LET b == blocks'[Len(blocks')]
       IN  /\ b.height = heights[Len(blocks')]
           /\ b.height = Height(blocks, b.qc) + 1
  /\ \A n \in Correct : node'[n] # node[n] =>
       \/ \E d \in node'[n].stored \ node[n].stored :
            blocks[d].qc \in node[n].stored \cup {0}
       \/ node'[n].isViewChange # node[n].isViewChange
       \/ /\ node[n].isViewChange
          /\ node'[n].stored = node[n].stored
          /\ node'[n].highQC # node[n].highQC

\* It equivocates at height 1 and goes on to the block that commits one of the
\* two, in epoch 0.
Fork ==
  /\ Proposes(<<1, 1, 2, 3>>)
  /\ blocks' # blocks =>
       blocks'[Len(blocks')].epoch = 0 /\ blocks'[Len(blocks')].author = Author

\* It proposes at height 1, takes the QC of a block of another chain of that
\* height, and equivocates over it, with one block in each epoch.  The
\* agreement outputs the height of the last two.
Attach ==
  /\ Proposes(<<1, 1, 2, 2>>)
  /\ decided' \in {None, 2}
  /\ blocks' # blocks =>
       LET b == blocks'[Len(blocks')]
       IN  /\ b.author # Author <=> Len(blocks') = 2
           /\ b.epoch = 1 <=> Len(blocks') = 4

\* The second block tells which.
ForkOrAttach ==
  IF Len(blocks') > 1 /\ blocks'[2].author # Author THEN Attach ELSE Fork
=============================================================================
