CONSTANTS
  n1 = n1
  n2 = n2
  n3 = n3
  n4 = n4
  Node = {n1, n2, n3, n4}
  Active = {n1, n2, n3, n4}
  TimedOut = {n1, n2, n3, n4}
  TCHeights <- Contested
  Coin <- EvenThenOdd
  MaxRound = 2
SPECIFICATION Spec
CHECK_DEADLOCK FALSE
ACTION_CONSTRAINT Staggered
INVARIANT Agreement
