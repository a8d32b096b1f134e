------------------------------ MODULE MCMempool ------------------------------
EXTENDS Mempool

CONSTANTS low, shared, high, own, p, q

\* A low block, which is committed and cleaned up, a block that shares a
\* payload with it, and one that does not.
Payloads ==
  [b \in Block |-> CASE b = low -> {p, own} [] b = shared -> {p, q} [] b = high -> {q}]

Heights == [b \in Block |-> IF b = low THEN 1 ELSE 2]
=============================================================================
