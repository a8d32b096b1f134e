------------------------------- MODULE MCTCVBA -------------------------------
EXTENDS TCVBA

CONSTANTS n1, n2, n3, n4

\* The heights of the TCs: any of two, or n1 and n3 apart and n2 on either side.
Either == [n \in Active |-> {2, 3}]
Contested == [n \in Active |-> IF n = n1 THEN {3} ELSE IF n = n3 THEN {2} ELSE {2, 3}]

\* Coins.
Even == [r \in Rounds |-> 0]
EvenThenOdd == [r \in Rounds |-> IF r = 1 THEN 0 ELSE 1]

\* Fewer schedules: the TCs are assembled and exchanged first.
Prompt ==
  LET exchanged == \A n, m \in Active : n # m => handled[n][m] > 0
  IN  IF assembled # Active THEN assembled' # assembled
      ELSE ~exchanged => \A n, m \in Active : handled'[n][m] <= 1 /\ handled # handled'

\* Fewer schedules: the nodes assemble their TCs; then the messages pending
\* are handled kind by kind, receiver by receiver, those of one kind to one
\* receiver in any order; the chains drive the loops when none is pending.
Order == <<n1, n2, n3, n4>>

Kind(m) ==
  CASE m.type = "tc" -> 0
    [] m.type = "val" -> 10 * m.round + 1
    [] m.type = "aux" -> 10 * m.round + 2
    [] m.type = "coin" -> 10 * m.round + 3
    [] m.type = "proof" -> 10 * m.round + 4

\* The rank of the next message from node m to node n.
Position(n) == CHOOSE i \in 1 .. 4 : Order[i] = n
Rank(p) == 100 * Kind(node[p[2]].sent[handled[p[1]][p[2]] + 1]) +
             10 * Position(p[1]) +
             (IF Position(p[1]) <= 2 THEN Position(p[2]) ELSE 5 - Position(p[2]))

Pending == {p \in Active \X Active :
              p[1] # p[2] /\ handled[p[1]][p[2]] < Len(node[p[2]].sent)}

InTurn ==
  \E i \in 1 .. 4 : /\ assembled = {Order[j] : j \in 1 .. (i - 1)}
                    /\ assembled' = assembled \cup {Order[i]}

First(due) ==
  \E p \in due : /\ \A q \in due : Rank(p) <= Rank(q)
                 /\ handled'[p[1]][p[2]] > handled[p[1]][p[2]]

InStages ==
  IF assembled # Active THEN InTurn ELSE Pending # {} => First(Pending)

\* The same, but n3 may fall behind with all messages but the TCs, and n2 with
\* the AUX values, coin shares and AUX proofs of round 1: they handle those
\* when no other is pending, in any order, before and after the chains drive
\* the loops of the nodes.
Lags(p) ==
  LET kind == Kind(node[p[2]].sent[handled[p[1]][p[2]] + 1])
  IN  (p[1] = n3 /\ kind > 0) \/ (p[1] = n2 /\ kind \in 12 .. 14)

Staggered ==
  LET due == {p \in Pending : ~Lags(p)}
  IN  IF assembled # Active THEN InTurn
      ELSE IF due # {} THEN First(due)
      ELSE /\ node' # node
           /\ \A n \in Active :
                (\E m \in Active : <<n, m>> \in Pending) /\ node'[n] # node[n]
                  => handled' # handled
=============================================================================
