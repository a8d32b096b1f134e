CONSTANTS
  Key = {k1, k2}
  Value = {v1, v2}
  Reads = {r1}
  Waits = {w1, w2}
  Absent = Absent
  Undecided = Undecided
  Capacity = 3
SPECIFICATION FairSpec
CHECK_DEADLOCK FALSE
INVARIANTS TypeOK NoneForgotten
PROPERTIES Implements Answered
