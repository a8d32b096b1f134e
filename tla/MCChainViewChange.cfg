CONSTANTS
  n1 = n1
  n2 = n2
  n3 = n3
  n4 = n4
  Node = {n1, n2, n3, n4}
  Faulty = {n4}
  Restarting = {}
  Author = n1
  LAMBDA_VAL = 1
  NEXT_EPOCH_HEIGHT = 3
  MaxHeight = 3
  MaxBlocks = 3
  OtherHeights = {5}
  OtherAuthors = {}
  Impatient = {n2, n3}
  Starved = {}
SPECIFICATION Spec
SYMMETRY Symmetry
CHECK_DEADLOCK FALSE
ACTION_CONSTRAINT Settled
INVARIANTS TypeOK CommittedSurvive RestartAboveVotes
PROPERTY FrozenAfterTimeout
