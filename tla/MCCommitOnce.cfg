CONSTANTS
  a = a
  b = b
  c = c
  Keys <- ThreeKeys
  NEXT_EPOCH_HEIGHT = 3
  Top <- TopOf
  Decisions = {1, 2}
  MaxNext = 2
  Referenced <- ReferencedOf
SPECIFICATION Spec
CHECK_DEADLOCK FALSE
ACTION_CONSTRAINT InOrder
INVARIANT SentOnce
