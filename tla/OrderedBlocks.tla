---------------------------- MODULE OrderedBlocks ----------------------------
(***************************************************************************)
(* What the ordering of the blocks promises to the application of a node:  *)
(* it sees ever more of one sequence of blocks, which no node chooses.     *)
(* Two nodes that each see the start of the same sequence disagree on      *)
(* nothing.                                                                *)
(***************************************************************************)
EXTENDS Integers, Sequences

VARIABLES
  order, \* the sequence, fixed though nobody knows it
  seen   \* what the application has seen

NothingSeen == seen = <<>>

\* A commit sends the blocks up to the k-th.
SeeMore ==
  \E k \in (Len(seen) + 1) .. Len(order) :
    /\ seen' = SubSeq(order, 1, k)
    /\ UNCHANGED order

Delivery == NothingSeen /\ [][SeeMore]_<<order, seen>>
==============================================================================
