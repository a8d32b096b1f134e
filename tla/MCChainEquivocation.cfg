CONSTANTS
  n1 = n1
  n2 = n2
  n3 = n3
  n4 = n4
  Node = {n1, n2, n3, n4}
  Faulty = {n1}
  Restarting = {}
  Author = n1
  LAMBDA_VAL = 1
  NEXT_EPOCH_HEIGHT = 3
  MaxHeight = 3
  MaxBlocks = 4
  OtherHeights = {6}
  OtherAuthors = {n2}
  Impatient = {n3, n4}
  Starved = {}
SPECIFICATION Spec
SYMMETRY Symmetry
CHECK_DEADLOCK FALSE
ACTION_CONSTRAINT ForkOrAttach
INVARIANTS QCUnique DeliveredAgree
