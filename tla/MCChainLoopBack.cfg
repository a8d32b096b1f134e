CONSTANTS
  n1 = n1
  n2 = n2
  n3 = n3
  n4 = n4
  Node = {n1, n2, n3, n4}
  Faulty = {}
  Restarting = {n1, n2}
  Author = n1
  LAMBDA_VAL = 1
  NEXT_EPOCH_HEIGHT = 3
  MaxHeight = 4
  MaxBlocks = 4
  OtherHeights = {5}
  OtherAuthors = {}
  Impatient = {}
  Starved = {n2}
SPECIFICATION Spec
SYMMETRY Symmetry
CHECK_DEADLOCK FALSE
ACTION_CONSTRAINT InOrder
INVARIANTS QCUnique DeliveredLinked
