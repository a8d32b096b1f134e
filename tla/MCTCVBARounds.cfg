CONSTANTS
  n1 = n1
  n2 = n2
  n3 = n3
  n4 = n4
  Node = {n1, n2, n3, n4}
  Active = {n1, n2, n3}
  TimedOut = {n1, n2}
  TCHeights <- Contested
  Coin <- EvenThenOdd
  MaxRound = 2
SPECIFICATION FairSpec
CHECK_DEADLOCK FALSE
ACTION_CONSTRAINT Prompt
INVARIANTS TypeOK Validity CoinAfterAux
PROPERTY Termination
