CONSTANTS
  low = low
  shared = shared
  high = high
  own = own
  p = p
  q = q
  Block = {low, shared, high}
  PayloadOf <- Payloads
  HeightOf <- Heights
  Committing = {low}
  Own = {own}
  Others = {p, q}
  queue_capacity = 1
  MaxDigests = 1
  MaxInner = 1
SPECIFICATION FairSpec
INVARIANTS TypeOK  LoopBackComplete OneLiveWaiter
PROPERTY Resumed
