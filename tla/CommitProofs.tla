----------------------------- MODULE CommitProofs -----------------------------
(***************************************************************************)
(* Theorems about module Commit, for any number of chains of any height    *)
(* and any references: the application sees the blocks in the order that   *)
(* the references define, none below the committed heights is missing, and *)
(* this implements module OrderedBlocks.                                   *)
(*                                                                         *)
(* The order and the commits are folds over sequences of blocks.  A fold   *)
(* is unfolded once (FoldExists, FoldValues), as the values that it goes   *)
(* through.  A layout x names the places <<h, j>> of the order of an epoch *)
(* (LaidOut): past the leader's block at height h and the blocks of j of   *)
(* the chains that its next block references.  There the order has the     *)
(* blocks below the heights of the chains, each of them once (EpochExact), *)
(* and a commit that starts at a place ends at a place (PrevArrives).      *)
(*                                                                         *)
(* The inductive invariant, IInv, says that the application has seen the   *)
(* start of the order, at least to the place at which the heights of the   *)
(* chains are.  After a commit that stopped half-way while the epoch ended *)
(* the chains are at no place, and only what was sent by then counts.      *)
(***************************************************************************)
EXTENDS Commit, SequenceTheorems, WellFoundedInduction, TLAPS

\* A set of natural numbers has a least element.
LEMMA LeastExists ==
  ASSUME NEW S \in SUBSET Nat, S # {}
  PROVE  \E j \in S : \A l \in S : j <= l
  <1>1. PICK j \in S : \A l \in S : ~(<<l, j>> \in OpToRel(<, Nat))
    BY NatLessThanWellFounded, WFMin
  <1>2. \A l \in S : ~(l < j)
    BY <1>1 DEF OpToRel
  <1> QED
    BY <1>2

\* Induction up to n, for a set: that of the numbers for which a claim holds.
LEMMA Induct ==
  ASSUME NEW n \in Nat, NEW S \in SUBSET (0 .. n), 0 \in S,
         \A k \in 0 .. (n - 1) : k \in S => k + 1 \in S
  PROVE  S = 0 .. n
  <1> SUFFICES ASSUME (0 .. n) \ S # {} PROVE FALSE
    OBVIOUS
  <1>1. PICK j \in (0 .. n) \ S : \A l \in (0 .. n) \ S : j <= l
    <2>1. (0 .. n) \ S \in SUBSET Nat
      OBVIOUS
    <2> QED
      BY <2>1, LeastExists
  <1>2. j # 0 /\ j - 1 \in 0 .. (n - 1)
    BY <1>1
  <1>3. j - 1 \in S
    BY <1>1, <1>2
  <1> QED
    BY <1>1, <1>2, <1>3

\* The largest of the numbers in T, which the folds take first.
LEMMA MaxIn ==
  ASSUME NEW n \in Nat, NEW T \in SUBSET (1 .. n), T # {}
  PROVE  Max(T) \in T /\ \A y \in T : y <= Max(T)
  <1> DEFINE S == {x \in 0 .. n : \A y \in T : y <= x}
  <1>1. S \in SUBSET Nat /\ n \in S
    OBVIOUS
  <1>2. PICK x \in S : \A z \in S : x <= z
    BY <1>1, LeastExists
  <1>3. x \in T
    <2> SUFFICES ASSUME x \notin T PROVE FALSE
      OBVIOUS
    <2>1. x # 0
      <3>1. PICK y \in T : y \in 1 .. n
        OBVIOUS
      <3> QED
        BY <1>2, <3>1
    <2>2. x - 1 \in S
      BY <1>2, <2>1
    <2> QED
      BY <1>2, <2>1, <2>2
  <1>4. \A y \in T : x >= y
    BY <1>2
  <1>5. \E z \in T : \A y \in T : z >= y
    BY <1>3, <1>4
  <1>6. Max(T) \in T /\ \A y \in T : Max(T) >= y
    BY <1>5 DEF Max
  <1> QED
    BY <1>6

\* On the intervals that start at 1 the folds go back one by one.
LEMMA IntervalMax ==
  ASSUME NEW k \in Nat \ {0}
  PROVE  Max(1 .. k) = k /\ (1 .. k) \ {k} = 1 .. (k - 1)
  <1>1. \A x \in 1 .. k : (\A y \in 1 .. k : x >= y) => x = k
    OBVIOUS
  <1>2. k \in 1 .. k /\ \A y \in 1 .. k : k >= y
    OBVIOUS
  <1>3. Max(1 .. k) = k
    BY <1>1, <1>2 DEF Max
  <1> QED
    BY <1>3

\* `it' is the recursive function inside a fold over 1 .. n.
Folds(it, n, A, a, step) ==
  /\ it \in [SUBSET (1 .. n) -> A]
  /\ it[{}] = a
  /\ \A T \in SUBSET (1 .. n) : T # {} => it[T] = step[<<Max(T), it[T \ {Max(T)}]>>]

\* There is such a function: made for the subsets of 1 .. k, k by k.
LEMMA FoldExists ==
  ASSUME NEW n \in Nat, NEW A, NEW a \in A, NEW step \in [(1 .. n) \X A -> A]
  PROVE  \E it : Folds(it, n, A, a, step)
  <1> DEFINE Def(k, it) == /\ it \in [SUBSET (1 .. k) -> A]
                           /\ it[{}] = a
                           /\ \A T \in SUBSET (1 .. k) :
                                T # {} => it[T] = step[<<Max(T), it[T \ {Max(T)}]>>]
             S == {k \in 0 .. n : \E it : Def(k, it)}
  <1>1. 0 \in S
    <2> DEFINE it == [T \in SUBSET (1 .. 0) |-> a]
    <2>1. 1 .. 0 = {}
      OBVIOUS
    <2>2. Def(0, it)
      BY <2>1
    <2>3. 0 \in 0 .. n
      OBVIOUS
    <2> HIDE DEF Def
    <2> QED
      BY <2>2, <2>3
  <1>2. ASSUME NEW k \in 0 .. (n - 1), k \in S PROVE k + 1 \in S
    <2>1. PICK it : Def(k, it)
      BY <1>2
    <2> DEFINE jt == [T \in SUBSET (1 .. (k + 1)) |->
                        IF k + 1 \in T THEN step[<<k + 1, it[T \ {k + 1}]>>] ELSE it[T]]
    <2>2. \A T \in SUBSET (1 .. (k + 1)) :
            /\ T \ {k + 1} \in SUBSET (1 .. k)
            /\ k + 1 \notin T => T \in SUBSET (1 .. k)
      OBVIOUS
    <2>3. jt \in [SUBSET (1 .. (k + 1)) -> A]
      <3>1. ASSUME NEW T \in SUBSET (1 .. (k + 1)) PROVE jt[T] \in A
        <4>1. it[T \ {k + 1}] \in A /\ k + 1 \in 1 .. n
          BY <2>1, <2>2
        <4>2. k + 1 \notin T => it[T] \in A
          BY <2>1, <2>2
        <4> QED
          BY <4>1, <4>2
      <3> QED
        BY <3>1
    <2>4. jt[{}] = a
      BY <2>1
    <2>5. ASSUME NEW T \in SUBSET (1 .. (k + 1)), T # {}
          PROVE  jt[T] = step[<<Max(T), jt[T \ {Max(T)}]>>]
      <3>1. CASE k + 1 \in T
        <4>1. Max(T) = k + 1
          <5>1. \A y \in T : k + 1 >= y
            OBVIOUS
          <5>2. \A x \in T : (\A y \in T : x >= y) => x = k + 1
            BY <3>1
          <5> QED
            BY <3>1, <5>1, <5>2 DEF Max
        <4>2. k + 1 \notin T \ {k + 1} /\ T \ {k + 1} \in SUBSET (1 .. (k + 1))
          OBVIOUS
        <4>3. jt[T \ {k + 1}] = it[T \ {k + 1}]
          BY <4>2
        <4> QED
          BY <3>1, <4>1, <4>3
      <3>2. CASE k + 1 \notin T
        <4>1. T \in SUBSET (1 .. k)
          BY <2>2, <3>2
        <4>2. jt[T] = it[T]
          BY <3>2
        <4>3. it[T] = step[<<Max(T), it[T \ {Max(T)}]>>]
          BY <2>1, <2>5, <4>1
        <4>4. T \ {Max(T)} \in SUBSET (1 .. (k + 1)) /\ k + 1 \notin T \ {Max(T)}
          BY <3>2
        <4>5. jt[T \ {Max(T)}] = it[T \ {Max(T)}]
          BY <4>4
        <4> QED
          BY <4>2, <4>3, <4>5
      <3> QED
        BY <3>1, <3>2
    <2>6. Def(k + 1, jt)
      BY <2>3, <2>4, <2>5
    <2>7. k + 1 \in 0 .. n
      OBVIOUS
    <2> HIDE DEF Def
    <2> QED
      BY <2>6, <2>7
  <1>3. n \in S
    <2>1. S \in SUBSET (0 .. n)
      OBVIOUS
    <2> HIDE DEF S
    <2>2. S = 0 .. n
      BY <1>1, <1>2, <2>1, Induct
    <2> QED
      BY <2>2
  <1>4. PICK it : Def(n, it)
    BY <1>3
  <1> QED
    BY <1>4 DEF Folds

\* The values that such a function goes through, from a to the value of the fold.
Values(g, n, A, a, step) ==
  /\ g \in [0 .. n -> A]
  /\ g[0] = a
  /\ \A k \in 1 .. n : g[k] = step[<<k, g[k - 1]>>]

\* They are what `it' is on the intervals that start at 1.
Steps(it, n) == [k \in 0 .. n |-> it[1 .. k]]

\* `it' goes by step from a, as long as that stays in A.
Follows(it, n, A, a, step) ==
  /\ it[{}] = a
  /\ \A T \in SUBSET (1 .. n) :
       T # {} /\ it[T \ {Max(T)}] \in A => it[T] = step[<<Max(T), it[T \ {Max(T)}]>>]

\* On the intervals a function that follows step has the values of the fold.
LEMMA FoldValues ==
  ASSUME NEW n \in Nat, NEW A, NEW a \in A, NEW step \in [(1 .. n) \X A -> A], NEW it,
         Follows(it, n, A, a, step)
  PROVE  Values(Steps(it, n), n, A, a, step)
  <1> DEFINE S == {k \in 0 .. n : it[1 .. k] \in A}
  <1>1. it[1 .. 0] = a
    <2>1. 1 .. 0 = {}
      OBVIOUS
    <2> QED
      BY <2>1 DEF Follows
  <1>2. ASSUME NEW k \in 1 .. n, it[1 .. (k - 1)] \in A
        PROVE  it[1 .. k] = step[<<k, it[1 .. (k - 1)]>>] /\ it[1 .. k] \in A
    <2>1. 1 .. k \in SUBSET (1 .. n) /\ 1 .. k # {}
      <3>1. k \in 1 .. k
        OBVIOUS
      <3> QED
        BY <3>1
    <2>2. Max(1 .. k) = k /\ (1 .. k) \ {k} = 1 .. (k - 1)
      BY IntervalMax
    <2>3. it[1 .. k] = step[<<k, it[1 .. (k - 1)]>>]
      BY <1>2, <2>1, <2>2 DEF Follows
    <2> QED
      BY <1>2, <2>3
  <1>3. \A k \in 0 .. n : it[1 .. k] \in A
    <2>1. 0 \in S
      BY <1>1
    <2>2. ASSUME NEW k \in 0 .. (n - 1), k \in S PROVE k + 1 \in S
      <3>1. k + 1 \in 1 .. n /\ k + 1 \in 0 .. n /\ (k + 1) - 1 = k
        OBVIOUS
      <3>2. it[1 .. ((k + 1) - 1)] \in A
        BY <2>2, <3>1
      <3> QED
        BY <1>2, <3>1, <3>2
    <2>3. S \in SUBSET (0 .. n)
      OBVIOUS
    <2> HIDE DEF S
    <2>4. S = 0 .. n
      BY <2>1, <2>2, <2>3, Induct
    <2> QED
      BY <2>4 DEF S
  <1> DEFINE g == Steps(it, n)
  <1>4. g \in [0 .. n -> A] /\ g[0] = a
    BY <1>1, <1>3 DEF Steps
  <1>5. ASSUME NEW k \in 1 .. n PROVE g[k] = step[<<k, g[k - 1]>>]
    <2>1. k \in 0 .. n /\ k - 1 \in 0 .. n
      OBVIOUS
    <2>2. g[k] = it[1 .. k] /\ g[k - 1] = it[1 .. (k - 1)] /\ it[1 .. (k - 1)] \in A
      BY <1>3, <2>1 DEF Steps
    <2> QED
      BY <1>2, <2>2
  <1> HIDE DEF g
  <1>6. Values(g, n, A, a, step)
    BY <1>4, <1>5 DEF Values
  <1> QED
    BY <1>6 DEF g
-----------------------------------------------------------------------------
Pairs == Chains \X Nat

\* A commit under way, whatever it did.
Run == [last : [Chains -> Nat], out : Seq(Pairs), ok : BOOLEAN]

\* The keys are at least two chains, each of them once; the first two lead the
\* epochs.
LEMMA KeysFacts ==
  /\ Keys \in Seq(Chains) /\ Len(Keys) \in Nat /\ Len(Keys) >= 2
  /\ DOMAIN Keys = 1 .. Len(Keys)
  /\ \A i, j \in 1 .. Len(Keys) : Keys[i] = Keys[j] => i = j
  /\ \A c \in Chains : \E i \in 1 .. Len(Keys) : Keys[i] = c
  /\ \A i \in 1 .. Len(Keys) : Keys[i] \in Chains
  /\ First \in Chains /\ Second \in Chains /\ First # Second
  /\ First = Keys[1] /\ Second = Keys[2]
  <1>1. /\ Keys \in Seq(Chains) /\ Len(Keys) \in Nat /\ Len(Keys) >= 2
        /\ DOMAIN Keys = 1 .. Len(Keys)
        /\ \A i, j \in 1 .. Len(Keys) : Keys[i] = Keys[j] => i = j
    BY CommitAssumption DEF IsInjective
  <1>2. \A c \in Chains : \E i \in 1 .. Len(Keys) : Keys[i] = c
    BY <1>1 DEF Chains, Range
  <1>3. \A i \in 1 .. Len(Keys) : Keys[i] \in Chains
    BY <1>1
  <1>4. First = Keys[1] /\ Second = Keys[2]
    <2>1. 0 % Len(Keys) = 0 /\ 1 % Len(Keys) = 1
      BY <1>1
    <2> QED
      BY <2>1 DEF First, Second, get_leader
  <1>5. 1 \in 1 .. Len(Keys) /\ 2 \in 1 .. Len(Keys)
    BY <1>1
  <1> QED
    BY <1>1, <1>2, <1>3, <1>4, <1>5

\* What is left of a sequence s without its p-th element.
LEMMA RemoveAtFacts ==
  ASSUME NEW S, NEW s \in Seq(S), NEW p \in 1 .. Len(s)
  PROVE  /\ RemoveAt(s, p) \in Seq(S) /\ Len(RemoveAt(s, p)) = Len(s) - 1
         /\ \A i \in 1 .. (p - 1) : RemoveAt(s, p)[i] = s[i]
         /\ \A i \in p .. (Len(s) - 1) : RemoveAt(s, p)[i] = s[i + 1]
  <1> DEFINE n == Len(s)
             a == SubSeq(s, 1, p - 1)
             t == SubSeq(s, p + 1, n)
  <1>1. n \in Nat /\ p \in Int /\ 1 <= p /\ p <= n
    OBVIOUS
  <1>2. \A i \in 1 .. n : s[i] \in S
    OBVIOUS
  <1> HIDE DEF n
  <1>3. /\ a \in Seq(S) /\ Len(a) = p - 1
        /\ \A i \in 1 .. (p - 1) : a[i] = s[i]
    <2>1. \A i \in 1 .. (p - 1) : s[i] \in S
      BY <1>1, <1>2
    <2>2. /\ a \in Seq(S)
          /\ Len(a) = IF 1 <= p - 1 THEN (p - 1) - 1 + 1 ELSE 0
          /\ \A i \in 1 .. ((p - 1) - 1 + 1) : a[i] = s[1 + i - 1]
      BY <1>1, <2>1, SubSeqProperties
    <2> QED
      BY <1>1, <2>2
  <1>4. /\ t \in Seq(S) /\ Len(t) = n - p
        /\ \A i \in 1 .. (n - p) : t[i] = s[p + i]
    <2>1. \A i \in (p + 1) .. n : s[i] \in S
      BY <1>1, <1>2
    <2>2. /\ t \in Seq(S)
          /\ Len(t) = IF p + 1 <= n THEN n - (p + 1) + 1 ELSE 0
          /\ \A i \in 1 .. (n - (p + 1) + 1) : t[i] = s[(p + 1) + i - 1]
      BY <1>1, <2>1, SubSeqProperties
    <2>3. n - (p + 1) + 1 = n - p /\ (p + 1 <= n <=> p # n)
      BY <1>1
    <2>4. Len(t) = n - p
      BY <1>1, <2>2, <2>3
    <2>5. ASSUME NEW i \in 1 .. (n - p) PROVE t[i] = s[p + i]
      <3>1. (p + 1) + i - 1 = p + i
        BY <1>1
      <3> QED
        BY <2>2, <2>3, <3>1
    <2> QED
      BY <2>2, <2>4, <2>5
  <1>5. RemoveAt(s, p) = a \o t
    BY DEF RemoveAt, n
  <1> HIDE DEF a, t
  <1>6. /\ a \o t \in Seq(S) /\ Len(a \o t) = n - 1
        /\ \A i \in 1 .. (n - 1) :
             (a \o t)[i] = IF i <= p - 1 THEN a[i] ELSE t[i - (p - 1)]
    <2>1. /\ a \o t \in Seq(S) /\ Len(a \o t) = Len(a) + Len(t)
          /\ \A i \in 1 .. (Len(a) + Len(t)) :
               (a \o t)[i] = IF i <= Len(a) THEN a[i] ELSE t[i - Len(a)]
      BY <1>3, <1>4, ConcatProperties
    <2>2. Len(a) + Len(t) = n - 1
      BY <1>1, <1>3, <1>4
    <2> QED
      BY <1>3, <2>1, <2>2
  <1>7. ASSUME NEW i \in p .. (n - 1) PROVE (a \o t)[i] = s[i + 1]
    <2>1. /\ i \in 1 .. (n - 1) /\ ~(i <= p - 1) /\ i - (p - 1) \in 1 .. (n - p)
          /\ p + (i - (p - 1)) = i + 1
      BY <1>1
    <2> QED
      BY <1>4, <1>6, <2>1
  <1> QED
    BY <1>1, <1>3, <1>5, <1>6, <1>7 DEF n

\* Others(c) has every chain but c, once.
LEMMA OthersFacts ==
  ASSUME NEW c \in Chains
  PROVE  /\ Others(c) \in Seq(Chains) /\ Len(Others(c)) = Len(Keys) - 1
         /\ \A i, j \in 1 .. (Len(Keys) - 1) : Others(c)[i] = Others(c)[j] => i = j
         /\ \A d \in Chains \ {c} : \E i \in 1 .. (Len(Keys) - 1) : Others(c)[i] = d
         /\ \A i \in 1 .. (Len(Keys) - 1) : Others(c)[i] \in Chains \ {c}
  <1>1. PICK p \in 1 .. Len(Keys) : Keys[p] = c
    BY KeysFacts
  <1>2. Others(c) = RemoveAt(Keys, p)
    <2>1. {i \in 1 .. Len(Keys) : Keys[i] = c} = {p}
      BY <1>1, KeysFacts
    <2>2. Min({p}) = p
      BY KeysFacts DEF Min
    <2>3. SelectInSeq(Keys, LAMBDA v : v = c) = p
      BY <2>1, <2>2 DEF SelectInSeq
    <2> QED
      BY <1>1, <2>3 DEF Others, RemoveFirst
  <1> DEFINE n == Len(Keys)
             o == Others(c)
  <1>3. n \in Nat /\ p \in 1 .. n
    BY KeysFacts
  <1>4. /\ o \in Seq(Chains) /\ Len(o) = n - 1
        /\ \A i \in 1 .. (p - 1) : o[i] = Keys[i]
        /\ \A i \in p .. (n - 1) : o[i] = Keys[i + 1]
    <2>1. Keys \in Seq(Chains) /\ p \in 1 .. Len(Keys)
      BY KeysFacts
    <2> QED
      BY <1>2, <2>1, RemoveAtFacts
  <1>5. \A i, j \in 1 .. n : Keys[i] = Keys[j] => i = j
    BY KeysFacts
  <1>6. \A i \in 1 .. n : Keys[i] \in Chains
    BY KeysFacts
  <1> HIDE DEF n, o
  <1> DEFINE up(i) == IF i < p THEN i ELSE i + 1
  <1>7. \A i \in 1 .. (n - 1) : up(i) \in (1 .. n) \ {p} /\ o[i] = Keys[up(i)]
    BY <1>3, <1>4
  <1>8. \A i, j \in 1 .. (n - 1) : up(i) = up(j) => i = j
    BY <1>3
  <1>9. ASSUME NEW d \in Chains \ {c} PROVE \E i \in 1 .. (n - 1) : o[i] = d
    <2>1. PICK q \in 1 .. n : Keys[q] = d
      BY KeysFacts DEF n
    <2>2. q # p
      BY <1>1, <2>1
    <2>3. PICK i \in 1 .. (n - 1) : up(i) = q
      <3>1. CASE q < p
        <4>1. q \in 1 .. (n - 1) /\ up(q) = q
          BY <1>3, <3>1
        <4> QED
          BY <4>1
      <3>2. CASE ~(q < p)
        <4>1. q - 1 \in 1 .. (n - 1) /\ up(q - 1) = q
          BY <1>3, <2>2, <3>2
        <4> QED
          BY <4>1
      <3> QED
        BY <3>1, <3>2
    <2> QED
      BY <1>7, <2>1, <2>3
  <1> HIDE DEF up
  <1>10. \A i, j \in 1 .. (n - 1) : o[i] = o[j] => i = j
    BY <1>5, <1>7, <1>8
  <1>11. \A i \in 1 .. (n - 1) : o[i] \in Chains \ {c}
    BY <1>1, <1>3, <1>5, <1>6, <1>7
  <1> QED
    BY <1>4, <1>9, <1>10, <1>11 DEF n, o

\* Blocks is a sequence of blocks of the chain, empty unless `to' is above
\* `from'.
LEMMA BlocksFacts ==
  ASSUME NEW c \in Chains, NEW from \in Nat, NEW to \in Nat
  PROVE  /\ Blocks(c, from, to) \in Seq(Pairs)
         /\ DOMAIN Blocks(c, from, to) = 1 .. Len(Blocks(c, from, to))
         /\ Len(Blocks(c, from, to)) = IF from <= to THEN to - from ELSE 0
         /\ \A i \in 1 .. (to - from) : Blocks(c, from, to)[i] = <<c, from + i>>
  <1>1. CASE from <= to
    BY <1>1 DEF Blocks, Pairs
  <1>2. CASE ~(from <= to)
    <2>1. 1 .. (to - from) = 1 .. 0
      BY <1>2
    <2>2. Blocks(c, from, to) = <<>>
      BY <2>1 DEF Blocks
    <2> QED
      BY <1>2, <2>1, <2>2
  <1> QED
    BY <1>1, <1>2

\* How far a chain is at hand: to the first block that is not.
LEMMA AvailableFacts ==
  ASSUME NEW have, NEW c, NEW from \in Nat, NEW to \in Nat, from <= to
  PROVE  /\ Available(have, c, from, to) \in from .. to
         /\ \A i \in (from + 1) .. Available(have, c, from, to) : <<c, i>> \in have
  <1> DEFINE Stops(k) == /\ \A i \in (from + 1) .. k : <<c, i>> \in have
                         /\ k = to \/ <<c, k + 1>> \notin have
             S == {k \in from .. to : k = to \/ <<c, k + 1>> \notin have}
  <1>1. S \in SUBSET Nat /\ to \in S
    OBVIOUS
  <1>2. PICK k \in S : \A l \in S : k <= l
    BY <1>1, LeastExists
  <1>3. Stops(k)
    <2>1. ASSUME NEW i \in (from + 1) .. k PROVE <<c, i>> \in have
      <3>1. i - 1 \in from .. to /\ i - 1 < k /\ i - 1 # to
        BY <1>2, <2>1
      <3>2. i - 1 \notin S
        BY <1>1, <1>2, <3>1
      <3> QED
        BY <3>1, <3>2
    <2> QED
      BY <1>2, <2>1
  <1>4. \E l \in from .. to : Stops(l)
    BY <1>2, <1>3
  <1>5. /\ Available(have, c, from, to) \in from .. to
        /\ Stops(Available(have, c, from, to))
    BY <1>4 DEF Available
  <1> QED
    BY <1>5

-----------------------------------------------------------------------------
\* x is what o has from position q on.
Segment(o, q, x) ==
  /\ q + Len(x) <= Len(o)
  /\ \A i \in 1 .. Len(x) : x[i] = o[q + i]

\* Two parts of o, the second where the first ends, are one part.
LEMMA SegmentConcat ==
  ASSUME NEW B, NEW o \in Seq(B), NEW q \in Nat, NEW x \in Seq(B), NEW y \in Seq(B),
         Segment(o, q, x), Segment(o, q + Len(x), y)
  PROVE  Segment(o, q, x \o y)
  <1>1. /\ Len(x) \in Nat /\ Len(y) \in Nat /\ Len(x \o y) = Len(x) + Len(y)
        /\ \A i \in 1 .. (Len(x) + Len(y)) :
             (x \o y)[i] = IF i <= Len(x) THEN x[i] ELSE y[i - Len(x)]
    BY ConcatProperties
  <1>2. q + (Len(x) + Len(y)) <= Len(o)
    BY <1>1 DEF Segment
  <1>3. ASSUME NEW i \in 1 .. (Len(x) + Len(y)) PROVE (x \o y)[i] = o[q + i]
    <2>1. CASE i <= Len(x)
      BY <1>1, <2>1 DEF Segment
    <2>2. CASE ~(i <= Len(x))
      <3>1. i - Len(x) \in 1 .. Len(y) /\ (q + Len(x)) + (i - Len(x)) = q + i
        BY <1>1, <2>2
      <3>2. y[i - Len(x)] = o[(q + Len(x)) + (i - Len(x))]
        BY <3>1 DEF Segment
      <3> QED
        BY <1>1, <2>2, <3>1, <3>2
    <2> QED
      BY <2>1, <2>2
  <1> QED
    BY <1>1, <1>2, <1>3 DEF Segment

\* The first blocks of a run of blocks are where the run is.
LEMMA SegmentOfBlocks ==
  ASSUME NEW o, Len(o) \in Nat, NEW q \in Nat, NEW c \in Chains,
         NEW from \in Nat, NEW to \in Nat, NEW k \in from .. to,
         Segment(o, q, Blocks(c, from, to))
  PROVE  Segment(o, q, Blocks(c, from, k))
  <1>1. Len(Blocks(c, from, to)) = to - from /\ Len(Blocks(c, from, k)) = k - from
    BY BlocksFacts
  <1>2. ASSUME NEW i \in 1 .. (k - from)
        PROVE  Blocks(c, from, k)[i] = Blocks(c, from, to)[i]
    <2>1. i \in 1 .. (to - from) /\ k \in Nat
      OBVIOUS
    <2>2. Blocks(c, from, k)[i] = <<c, from + i>>
      BY <2>1, BlocksFacts
    <2>3. Blocks(c, from, to)[i] = <<c, from + i>>
      BY <2>1, BlocksFacts
    <2> QED
      BY <2>2, <2>3
  <1> QED
    BY <1>1, <1>2 DEF Segment

\* Every block in x is one of B.
Within(x, B) == \A i \in 1 .. Len(x) : x[i] \in B

\* Two sequences of blocks of B put together have blocks of B only.
LEMMA WithinConcat ==
  ASSUME NEW S, NEW x \in Seq(S), NEW y \in Seq(S), NEW B, Within(x, B), Within(y, B)
  PROVE  Within(x \o y, B)
  <1>1. /\ Len(x) \in Nat /\ Len(y) \in Nat /\ Len(x \o y) = Len(x) + Len(y)
        /\ \A i \in 1 .. (Len(x) + Len(y)) :
             (x \o y)[i] = IF i <= Len(x) THEN x[i] ELSE y[i - Len(x)]
    BY ConcatProperties
  <1>2. ASSUME NEW i \in 1 .. (Len(x) + Len(y)) PROVE (x \o y)[i] \in B
    <2>1. i <= Len(x) => (x \o y)[i] \in B
      BY <1>1 DEF Within
    <2>2. ~(i <= Len(x)) => i - Len(x) \in 1 .. Len(y)
      BY <1>1
    <2> QED
      BY <1>1, <2>1, <2>2 DEF Within
  <1> QED
    BY <1>1, <1>2 DEF Within

\* A run of blocks that are all in B.
LEMMA BlocksWithin ==
  ASSUME NEW c \in Chains, NEW from \in Nat, NEW to \in Nat, NEW B,
         \A i \in (from + 1) .. to : <<c, i>> \in B
  PROVE  Within(Blocks(c, from, to), B)
  <1>1. CASE from <= to
    <2>1. Len(Blocks(c, from, to)) = to - from
      BY <1>1, BlocksFacts
    <2>2. ASSUME NEW i \in 1 .. (to - from) PROVE Blocks(c, from, to)[i] \in B
      <3>1. from + i \in (from + 1) .. to
        OBVIOUS
      <3>2. Blocks(c, from, to)[i] = <<c, from + i>>
        BY BlocksFacts
      <3>3. <<c, from + i>> \in B
        BY <3>1
      <3> QED
        BY ONLY <3>2, <3>3, Zenon
    <2> QED
      BY <2>1, <2>2 DEF Within
  <1>2. CASE ~(from <= to)
    <2>1. Len(Blocks(c, from, to)) = 0
      BY <1>2, BlocksFacts
    <2> QED
      BY <2>1 DEF Within
  <1> QED
    BY <1>1, <1>2

-----------------------------------------------------------------------------
\* The height of chain c that the leader's block at height h references.
Ref(h, c) == references[epoch + 1][h][c]

\* The block at height h of leader l has a reference to every other chain.
HasRefs(h, l) == \A c \in Chains \ {l} : Ref(h, c) \in Nat

\* What commit_ref makes of s, for chain c up to height r: it does nothing, or
\* stops, perhaps half-way, or brings the chain to the height.
Outcome(have, s, t, c, r) ==
  \/ t = s /\ (s.ok => r <= s.last[c])
  \/ t = [s EXCEPT !.ok = FALSE]
  \/ /\ s.ok /\ s.last[c] < r
     /\ \E k \in s.last[c] .. r :
          /\ t = [s EXCEPT !.out = @ \o Blocks(c, s.last[c], k), !.ok = FALSE]
          /\ \A i \in (s.last[c] + 1) .. k : <<c, i>> \in have
  \/ /\ s.ok /\ s.last[c] < r
     /\ t = [s EXCEPT !.out = @ \o Blocks(c, s.last[c], r), !.last[c] = r]
     /\ \A i \in (s.last[c] + 1) .. r : <<c, i>> \in have

\* commit_ref does one of these.
LEMMA CommitRefCases ==
  ASSUME NEW st, NEW cert, NEW l, NEW h, NEW s \in Run, NEW c \in Chains, Ref(h, c) \in Nat
  PROVE  Outcome(st \cap cert, s, commit_ref(st, cert, <<l, h>>, s, c), c, Ref(h, c))
  <1> DEFINE r == Ref(h, c)
             from == s.last[c]
             k == Available(st \cap cert, c, from, r)
             t == commit_ref(st, cert, <<l, h>>, s, c)
  <1>1. from \in Nat /\ r \in Nat
    BY DEF Run
  <1>2. t = IF r = 0 \/ ~s.ok \/ (<<c, r>> \in st /\ from >= r) THEN s
            ELSE IF <<c, r>> \notin st THEN [s EXCEPT !.ok = FALSE]
            ELSE IF k < r
            THEN [s EXCEPT !.out = @ \o Blocks(c, from, k), !.ok = FALSE]
            ELSE [s EXCEPT !.out = @ \o Blocks(c, from, r), !.last[c] = r]
    BY DEF commit_ref, Ref
  <1>3. CASE r = 0 \/ ~s.ok \/ (<<c, r>> \in st /\ from >= r)
    <2>1. t = s
      BY <1>2, <1>3
    <2>2. s.ok => r <= from
      <3> HIDE DEF r, from, t
      <3> QED
        BY <1>1, <1>3
    <2> QED
      BY <2>1, <2>2 DEF Outcome
  <1>4. CASE ~(r = 0 \/ ~s.ok \/ (<<c, r>> \in st /\ from >= r)) /\ <<c, r>> \notin st
    BY <1>2, <1>4 DEF Outcome
  <1>5. CASE ~(r = 0 \/ ~s.ok \/ (<<c, r>> \in st /\ from >= r)) /\ <<c, r>> \in st
    <2>1. s.ok /\ from < r
      BY <1>1, <1>5
    <2>2. k \in from .. r /\ \A i \in (from + 1) .. k : <<c, i>> \in st \cap cert
      <3>1. from <= r
        BY <1>1, <2>1
      <3> QED
        BY <1>1, <3>1, AvailableFacts
    <2> HIDE DEF k
    <2>3. CASE k < r
      <3>1. t = [s EXCEPT !.out = @ \o Blocks(c, from, k), !.ok = FALSE]
        BY <1>2, <1>5, <2>3
      <3> HIDE DEF t, r, from
      <3> QED
        BY <2>1, <2>2, <3>1 DEF r, from, t, Outcome
    <2>4. CASE ~(k < r)
      <3>1. k = r
        BY <1>1, <2>2, <2>4
      <3>2. t = [s EXCEPT !.out = @ \o Blocks(c, from, r), !.last[c] = r]
        BY <1>2, <1>5, <2>4
      <3> QED
        BY <2>1, <2>2, <3>1, <3>2 DEF Outcome
    <2> QED
      BY <2>3, <2>4
  <1> QED
    BY <1>3, <1>4, <1>5

\* A commit adds to `out' blocks that are at hand.
LEMMA CommitRefType ==
  ASSUME NEW st, NEW cert, NEW l, NEW h, NEW s \in Run, NEW c \in Chains, Ref(h, c) \in Nat,
         Within(s.out, st \cap cert)
  PROVE  LET t == commit_ref(st, cert, <<l, h>>, s, c)
         IN  t \in Run /\ Within(t.out, st \cap cert)
  <1> DEFINE t == commit_ref(st, cert, <<l, h>>, s, c)
             r == Ref(h, c)
             from == s.last[c]
  <1>1. from \in Nat /\ s.out \in Seq(Pairs) /\ r \in Nat
    BY DEF Run
  <1>2. ASSUME NEW k \in from .. r, \A i \in (from + 1) .. k : <<c, i>> \in st \cap cert
        PROVE  /\ s.out \o Blocks(c, from, k) \in Seq(Pairs)
               /\ Within(s.out \o Blocks(c, from, k), st \cap cert)
    <2>1. Blocks(c, from, k) \in Seq(Pairs) /\ Within(Blocks(c, from, k), st \cap cert)
      BY <1>1, <1>2, BlocksFacts, BlocksWithin
    <2> QED
      BY <1>1, <2>1, WithinConcat, ConcatProperties
  <1>3. ASSUME t = s \/ t = [s EXCEPT !.ok = FALSE]
        PROVE  t \in Run /\ Within(t.out, st \cap cert)
    BY <1>3 DEF Run
  <1>4. ASSUME NEW k \in from .. r,
               t = [s EXCEPT !.out = @ \o Blocks(c, from, k), !.ok = FALSE],
               \A i \in (from + 1) .. k : <<c, i>> \in st \cap cert
        PROVE  t \in Run /\ Within(t.out, st \cap cert)
    <2> DEFINE o == s.out \o Blocks(c, from, k)
    <2>2. o \in Seq(Pairs) /\ Within(o, st \cap cert)
      BY <1>2, <1>4
    <2>3. t = [s EXCEPT !.out = o, !.ok = FALSE]
      BY <1>4
    <2> HIDE DEF o, t
    <2> QED
      BY <2>2, <2>3 DEF Run
  <1>5. ASSUME from < r,
               t = [s EXCEPT !.out = @ \o Blocks(c, from, r), !.last[c] = r],
               \A i \in (from + 1) .. r : <<c, i>> \in st \cap cert
        PROVE  t \in Run /\ Within(t.out, st \cap cert)
    <2> DEFINE o == s.out \o Blocks(c, from, r)
    <2>1. o \in Seq(Pairs) /\ Within(o, st \cap cert)
      <3>1. r \in from .. r
        BY <1>1, <1>5
      <3> QED
        BY <1>2, <1>5, <3>1
    <2>2. t = [s EXCEPT !.out = o, !.last[c] = r]
      BY <1>5
    <2>3. r \in Nat
      BY <1>1
    <2> HIDE DEF o, t, r
    <2>4. t.last = [s.last EXCEPT ![c] = r] /\ t.out = o /\ t.ok = s.ok
      BY <2>2 DEF Run
    <2>5. t.last \in [Chains -> Nat] /\ t.ok \in BOOLEAN
      BY <2>3, <2>4 DEF Run
    <2>6. t \in Run
      BY <2>1, <2>2, <2>4, <2>5 DEF Run
    <2> QED
      BY <2>1, <2>4, <2>6
  <1>6. Outcome(st \cap cert, s, t, c, r)
    BY CommitRefCases
  <1> HIDE DEF t, r
  <1>7. t \in Run /\ Within(t.out, st \cap cert)
    BY <1>3, <1>4, <1>5, <1>6 DEF Outcome
  <1> QED
    BY <1>7 DEF t

-----------------------------------------------------------------------------
\* What the blocks that the leader's block at height h references make of s.
Refs(st, cert, l, h, s) ==
  FoldLeft(LAMBDA u, c : commit_ref(st, cert, <<l, h>>, u, c), s, Others(l))

\* g is what that fold goes through.
RefValues(g, st, cert, l, h, s) ==
  /\ g \in [0 .. (Len(Keys) - 1) -> Run]
  /\ g[0] = s
  /\ \A k \in 1 .. (Len(Keys) - 1) :
       g[k] = commit_ref(st, cert, <<l, h>>, g[k - 1], Others(l)[k])
  /\ \A k \in 0 .. (Len(Keys) - 1) : Within(g[k].out, st \cap cert)
  /\ g[Len(Keys) - 1] = Refs(st, cert, l, h, s)

\* The fold over the other chains goes by commit_ref, and adds blocks at hand
\* only.
LEMMA RefsFold ==
  ASSUME NEW st, NEW cert, NEW l \in Chains, NEW h, NEW s \in Run,
         Within(s.out, st \cap cert),
         HasRefs(h, l)
  PROVE  \E g : RefValues(g, st, cert, l, h, s)
  <1> DEFINE m == Len(Keys) - 1
             b == <<l, h>>
             A == {u \in Run : Within(u.out, st \cap cert)}
             Step(u, k) == commit_ref(st, cert, b, u, Others(l)[k])
             step == [p \in (1 .. m) \X A |-> Step(p[2], p[1])]
  <1>1. m \in Nat /\ DOMAIN Others(l) = 1 .. m
    <2>1. Others(l) \in Seq(Chains) /\ Len(Others(l)) = m
      BY OthersFacts
    <2>2. m \in Nat
      BY KeysFacts
    <2> QED
      BY <2>1, <2>2, LenProperties
  <1>2. ASSUME NEW k \in 1 .. m, NEW u \in A PROVE Step(u, k) \in A
    <2>1. Others(l)[k] \in Chains \ {l}
      BY OthersFacts
    <2> DEFINE c == Others(l)[k]
    <2>2. c \in Chains /\ Ref(h, c) \in Nat /\ u \in Run /\ Within(u.out, st \cap cert)
      BY <2>1 DEF HasRefs
    <2> HIDE DEF c
    <2>3. /\ commit_ref(st, cert, <<l, h>>, u, c) \in Run
          /\ Within(commit_ref(st, cert, <<l, h>>, u, c).out, st \cap cert)
      BY <2>2, CommitRefType
    <2> QED
      BY <2>3 DEF c
  <1>3. s \in A
    OBVIOUS
  <1> DEFINE Eq(it) ==
               it = [T \in SUBSET DOMAIN Others(l) |->
                       IF T = {} THEN s
                       ELSE LET x == Max(T)
                            IN  commit_ref(st, cert, <<l, h>>, it[T \ {x}], Others(l)[x])]
  <1>4. step \in [(1 .. m) \X A -> A]
    <2> HIDE DEF A, Step, m
    <2> QED
      BY <1>2
  <1>5. \A k \in 1 .. m : \A u \in A : step[<<k, u>>] = Step(u, k)
    <2> HIDE DEF A, Step, m
    <2> QED
      OBVIOUS
  <1> HIDE DEF step
  <1>6. \E it : Eq(it)
    <2>1. PICK it : Folds(it, m, A, s, step)
      <3> HIDE DEF A, m
      <3> QED
        BY <1>1, <1>3, <1>4, FoldExists
    <2>2. ASSUME NEW T \in SUBSET (1 .. m), T # {}
          PROVE  step[<<Max(T), it[T \ {Max(T)}]>>] = Step(it[T \ {Max(T)}], Max(T))
      <3>1. Max(T) \in 1 .. m
        BY <1>1, <2>2, MaxIn
      <3> HIDE DEF A, Step, m
      <3>2. it[T \ {Max(T)}] \in A
        BY <2>1 DEF Folds
      <3> QED
        BY <1>5, <3>1, <3>2
    <2>3. it = [T \in SUBSET (1 .. m) |->
                  IF T = {} THEN s ELSE Step(it[T \ {Max(T)}], Max(T))]
      <3> HIDE DEF A, Step, m
      <3> QED
        BY <2>1, <2>2 DEF Folds
    <2>4. Eq(it)
      BY <1>1, <2>3
    <2> QED
      BY <2>4
  <1>7. PICK it : /\ Eq(it)
                  /\ FoldLeft(LAMBDA u, c : commit_ref(st, cert, <<l, h>>, u, c), s, Others(l))
                       = it[DOMAIN Others(l)]
    BY Zenon, <1>6 DEF FoldLeft, MapThenFoldSet
  <1>8. /\ it[{}] = s
        /\ \A T \in SUBSET (1 .. m) : T # {} => it[T] = Step(it[T \ {Max(T)}], Max(T))
    BY <1>1, <1>7
  <1> DEFINE g == Steps(it, m)
  <1>9. Values(g, m, A, s, step)
    <2>1. ASSUME NEW T \in SUBSET (1 .. m), T # {}, it[T \ {Max(T)}] \in A
          PROVE  it[T] = step[<<Max(T), it[T \ {Max(T)}]>>]
      <3>1. Max(T) \in 1 .. m
        BY <1>1, <2>1, MaxIn
      <3> HIDE DEF A, Step, m
      <3> QED
        BY <1>5, <1>8, <2>1, <3>1
    <2> HIDE DEF A, Step, m
    <2>2. Follows(it, m, A, s, step)
      BY <1>8, <2>1 DEF Follows
    <2> QED
      BY <1>1, <1>3, <1>4, <2>2, FoldValues
  <1>10. ASSUME NEW k \in 1 .. m PROVE g[k] = Step(g[k - 1], k)
    <2>1. k - 1 \in 0 .. m
      BY <1>1
    <2> HIDE DEF A, Step, m, g
    <2>2. g[k - 1] \in A
      BY <1>9, <2>1 DEF Values
    <2> QED
      BY <1>5, <1>9, <2>2 DEF Values
  <1>11. g \in [0 .. m -> Run] /\ \A k \in 0 .. m : Within(g[k].out, st \cap cert)
    <2> HIDE DEF g
    <2> QED
      BY <1>9 DEF Values
  <1>12. g[m] = it[1 .. m]
    BY <1>1 DEF Steps
  <1>13. Refs(st, cert, l, h, s) = g[m]
    BY Zenon, <1>1, <1>7, <1>12 DEF Refs
  <1>14. RefValues(g, st, cert, l, h, s)
    <2>1. g[0] = s
      BY <1>9 DEF Values
    <2> HIDE DEF g
    <2> QED
      BY <1>10, <1>11, <1>13, <2>1 DEF RefValues
  <1> QED
    BY <1>14

\* What commit_next makes of s for the leader's block at height h, u being what
\* the blocks it references make of it.
NextOutcome(have, s, t, u, l, h) ==
  t = IF ~s.ok THEN s
      ELSE IF <<l, h>> \notin have THEN [s EXCEPT !.ok = FALSE]
      ELSE IF ~u.ok THEN u
      ELSE [u EXCEPT !.out = Append(@, <<l, h>>), !.last[l] = h]

\* commit_next does this.
LEMMA CommitNextCases ==
  ASSUME NEW st, NEW cert, NEW l \in Chains, NEW h, NEW s \in Run,
         Within(s.out, st \cap cert),
         HasRefs(h, l)
  PROVE  \E g : /\ RefValues(g, st, cert, l, h, s)
                /\ NextOutcome(st \cap cert, s, commit_next(st, cert, s, <<l, h>>),
                               g[Len(Keys) - 1], l, h)
  <1> DEFINE f == Refs(st, cert, l, h, s)
             t == commit_next(st, cert, s, <<l, h>>)
  <1>1. <<l, h>>[1] = l /\ <<l, h>>[2] = h
    OBVIOUS
  <1>2. t = IF ~s.ok THEN s
            ELSE IF <<l, h>> \notin st \cap cert THEN [s EXCEPT !.ok = FALSE]
            ELSE IF ~f.ok THEN f
            ELSE [f EXCEPT !.out = Append(@, <<l, h>>), !.last[l] = h]
    BY Zenon, <1>1 DEF commit_next, Refs
  <1>3. PICK g : RefValues(g, st, cert, l, h, s)
    BY RefsFold
  <1>4. NextOutcome(st \cap cert, s, t, f, l, h)
    <2> HIDE DEF f, t
    <2> QED
      BY <1>2 DEF NextOutcome
  <1> HIDE DEF f, t
  <1>5. NextOutcome(st \cap cert, s, t, g[Len(Keys) - 1], l, h)
    BY <1>3, <1>4 DEF f, RefValues
  <1> QED
    BY <1>3, <1>5 DEF t

\* A commit stays a Run, with blocks at hand only, past a block of the leader.
LEMMA CommitNextType ==
  ASSUME NEW st, NEW cert, NEW l \in Chains, NEW h \in Nat, NEW s \in Run,
         Within(s.out, st \cap cert),
         HasRefs(h, l)
  PROVE  LET t == commit_next(st, cert, s, <<l, h>>)
         IN  t \in Run /\ Within(t.out, st \cap cert)
  <1> DEFINE t == commit_next(st, cert, s, <<l, h>>)
  <1> SUFFICES t \in Run /\ Within(t.out, st \cap cert)
    OBVIOUS
  <1>1. PICK g : /\ RefValues(g, st, cert, l, h, s)
                 /\ NextOutcome(st \cap cert, s, t, g[Len(Keys) - 1], l, h)
    BY CommitNextCases
  <1> DEFINE u == g[Len(Keys) - 1]
  <1>2. u \in Run /\ Within(u.out, st \cap cert)
    <2>1. Len(Keys) - 1 \in 0 .. (Len(Keys) - 1)
      BY KeysFacts
    <2> QED
      BY <1>1, <2>1 DEF RefValues
  <1> HIDE DEF t, u
  <1>3. NextOutcome(st \cap cert, s, t, u, l, h)
    BY <1>1 DEF u
  <1>4. CASE t = s
    BY <1>4
  <1>5. CASE t = u
    BY <1>2, <1>5
  <1>6. CASE t = [s EXCEPT !.ok = FALSE]
    BY <1>6 DEF Run
  <1>7. CASE <<l, h>> \in st \cap cert /\ t = [u EXCEPT !.out = Append(@, <<l, h>>), !.last[l] = h]
    <2> DEFINE o == Append(u.out, <<l, h>>)
    <2>1. u.out \in Seq(Pairs) /\ <<l, h>> \in Pairs
      BY <1>2 DEF Run, Pairs
    <2>2. o \in Seq(Pairs) /\ Len(o) = Len(u.out) + 1 /\ Len(u.out) \in Nat
      BY <2>1
    <2>3. \A i \in 1 .. (Len(u.out) + 1) : o[i] = IF i <= Len(u.out) THEN u.out[i] ELSE <<l, h>>
      BY <2>1
    <2> HIDE DEF o
    <2>4. Within(o, st \cap cert)
      BY <1>2, <1>7, <2>2, <2>3 DEF Within
    <2>5. t = [u EXCEPT !.out = o, !.last[l] = h]
      BY <1>7 DEF o
    <2>6. t.out = o /\ t.last = [u.last EXCEPT ![l] = h] /\ t.ok = u.ok
      BY <1>2, <2>5 DEF Run
    <2>7. t.last \in [Chains -> Nat] /\ t.ok \in BOOLEAN
      BY <1>2, <2>6 DEF Run
    <2>8. t \in Run
      BY <1>2, <2>2, <2>5, <2>6, <2>7 DEF Run
    <2> QED
      BY <2>4, <2>6, <2>8
  <1>8. t = s \/ t = u \/ t = [s EXCEPT !.ok = FALSE]
        \/ (<<l, h>> \in st \cap cert /\ t = [u EXCEPT !.out = Append(@, <<l, h>>), !.last[l] = h])
    BY <1>3 DEF NextOutcome
  <1> QED
    BY <1>4, <1>5, <1>6, <1>7, <1>8

\* How many blocks of chain l a commit of its block at height `to' goes through,
\* and what the commit goes through.
Ahead(l, to) == Len(Blocks(l, last[l], to))

PrevValues(g, st, cert, l, to) ==
  /\ g \in [0 .. Ahead(l, to) -> Run]
  /\ g[0] = Begin
  /\ \A k \in 1 .. Ahead(l, to) : g[k] = commit_next(st, cert, g[k - 1], <<l, last[l] + k>>)
  /\ \A k \in 0 .. Ahead(l, to) : Within(g[k].out, st \cap cert)
  /\ g[Ahead(l, to)] = commit_prev_block(st, cert, l, to)

\* commit_prev_block goes by commit_next from Begin, and adds blocks at hand
\* only.
LEMMA PrevFold ==
  ASSUME NEW st, NEW cert, NEW l \in Chains, NEW to \in Nat,
         last \in [Chains -> Nat],
         \A h \in (last[l] + 1) .. to : HasRefs(h, l)
  PROVE  \E g : PrevValues(g, st, cert, l, to)
  <1> DEFINE m == Ahead(l, to)
             from == last[l]
             q == Blocks(l, from, to)
             A == {u \in Run : Within(u.out, st \cap cert)}
             Step(u, k) == commit_next(st, cert, u, q[k])
             step == [p \in (1 .. m) \X A |-> Step(p[2], p[1])]
  <1>1. /\ from \in Nat /\ m \in Nat /\ DOMAIN q = 1 .. m
        /\ m = IF from <= to THEN to - from ELSE 0
        /\ \A k \in 1 .. m : q[k] = <<l, from + k>>
    <2>1. from \in Nat
      OBVIOUS
    <2>2. /\ DOMAIN q = 1 .. Len(q)
          /\ Len(q) = IF from <= to THEN to - from ELSE 0
          /\ \A i \in 1 .. (to - from) : q[i] = <<l, from + i>>
      BY <2>1, BlocksFacts
    <2>3. m = Len(q)
      BY DEF Ahead
    <2> HIDE DEF m, q, from
    <2> QED
      BY <2>1, <2>2, <2>3
  <1>2. ASSUME NEW k \in 1 .. m, NEW u \in A PROVE Step(u, k) \in A
    <2> DEFINE h == from + k
    <2>1. q[k] = <<l, h>> /\ h \in Nat /\ HasRefs(h, l)
      <3> HIDE DEF m, q
      <3>1. q[k] = <<l, h>> /\ h \in Nat /\ h \in (from + 1) .. to
        BY <1>1
      <3> QED
        BY <3>1
    <2> HIDE DEF h, m, q
    <2>2. u \in Run /\ Within(u.out, st \cap cert)
      OBVIOUS
    <2>3. /\ commit_next(st, cert, u, <<l, h>>) \in Run
          /\ Within(commit_next(st, cert, u, <<l, h>>).out, st \cap cert)
      BY <2>1, <2>2, CommitNextType
    <2> QED
      BY <2>1, <2>3
  <1>3. Begin \in A
    <2>1. /\ Begin.last = last /\ Begin.out = <<>> /\ Begin.ok = TRUE
          /\ Begin = [last |-> last, out |-> <<>>, ok |-> TRUE]
      BY DEF Begin
    <2>2. Begin \in Run
      BY DEF Begin, Run
    <2>3. Within(Begin.out, st \cap cert)
      BY <2>1 DEF Within
    <2> QED
      BY <2>2, <2>3
  <1> DEFINE Eq(it) ==
               it = [T \in SUBSET DOMAIN q |->
                       IF T = {} THEN Begin
                       ELSE LET x == Max(T)
                            IN  commit_next(st, cert, it[T \ {x}], q[x])]
  <1>4. step \in [(1 .. m) \X A -> A]
    <2> HIDE DEF A, Step, m
    <2> QED
      BY <1>2
  <1>5. \A k \in 1 .. m : \A u \in A : step[<<k, u>>] = Step(u, k)
    <2> HIDE DEF A, Step, m
    <2> QED
      OBVIOUS
  <1> HIDE DEF step
  <1>6. \E it : Eq(it)
    <2>1. PICK it : Folds(it, m, A, Begin, step)
      <3> HIDE DEF A, m
      <3> QED
        BY <1>1, <1>3, <1>4, FoldExists
    <2>2. ASSUME NEW T \in SUBSET (1 .. m), T # {}
          PROVE  step[<<Max(T), it[T \ {Max(T)}]>>] = Step(it[T \ {Max(T)}], Max(T))
      <3> HIDE DEF A, Step, m
      <3>1. Max(T) \in 1 .. m
        BY <1>1, <2>2, MaxIn
      <3>2. it[T \ {Max(T)}] \in A
        BY <2>1 DEF Folds
      <3> QED
        BY <1>5, <3>1, <3>2
    <2>3. it = [T \in SUBSET (1 .. m) |->
                  IF T = {} THEN Begin ELSE Step(it[T \ {Max(T)}], Max(T))]
      <3> HIDE DEF A, Step, m
      <3> QED
        BY <2>1, <2>2 DEF Folds
    <2> HIDE DEF m, q
    <2>4. Eq(it)
      BY <1>1, <2>3
    <2> QED
      BY <2>4
  <1>7. PICK it : Eq(it) /\ commit_prev_block(st, cert, l, to) = it[DOMAIN q]
    BY Zenon, <1>6 DEF FoldLeft, MapThenFoldSet, commit_prev_block
  <1>8. /\ it[{}] = Begin
        /\ \A T \in SUBSET (1 .. m) : T # {} => it[T] = Step(it[T \ {Max(T)}], Max(T))
    <2> HIDE DEF m, q
    <2> QED
      BY <1>1, <1>7
  <1> DEFINE g == Steps(it, m)
  <1>9. Values(g, m, A, Begin, step)
    <2>1. ASSUME NEW T \in SUBSET (1 .. m), T # {}, it[T \ {Max(T)}] \in A
          PROVE  it[T] = step[<<Max(T), it[T \ {Max(T)}]>>]
      <3> HIDE DEF A, Step, m
      <3>1. Max(T) \in 1 .. m
        BY <1>1, <2>1, MaxIn
      <3> QED
        BY <1>5, <1>8, <2>1, <3>1
    <2> HIDE DEF A, Step, m
    <2>2. Follows(it, m, A, Begin, step)
      BY <1>8, <2>1 DEF Follows
    <2> QED
      BY <1>1, <1>3, <1>4, <2>2, FoldValues
  <1>10. ASSUME NEW k \in 1 .. m PROVE g[k] = commit_next(st, cert, g[k - 1], <<l, from + k>>)
    <2> HIDE DEF m, g, q
    <2>1. k - 1 \in 0 .. m /\ q[k] = <<l, from + k>>
      BY <1>1
    <2>2. g[k] = Step(g[k - 1], k)
      <3> HIDE DEF A, Step
      <3>1. g[k - 1] \in A
        BY <1>9, <2>1 DEF Values
      <3> QED
        BY <1>5, <1>9, <3>1 DEF Values
    <2> QED
      BY <2>1, <2>2
  <1>11. g \in [0 .. m -> Run] /\ \A k \in 0 .. m : Within(g[k].out, st \cap cert)
    <2> HIDE DEF g, m
    <2> QED
      BY <1>9 DEF Values
  <1>12. g[m] = it[1 .. m]
    <2> HIDE DEF m
    <2> QED
      BY <1>1 DEF Steps
  <1>13. g[m] = commit_prev_block(st, cert, l, to)
    <2> HIDE DEF g, m, q
    <2> QED
      BY <1>1, <1>7, <1>12
  <1>14. PrevValues(g, st, cert, l, to)
    <2>1. g[0] = Begin
      BY <1>9 DEF Values
    <2> HIDE DEF g
    <2> QED
      BY <1>10, <1>11, <1>13, <2>1 DEF PrevValues
  <1> QED
    BY <1>14

-----------------------------------------------------------------------------
\* What the application has seen when the blocks in x follow those in s, and
\* what the fold goes through.
Send(s, x) == FoldLeft(AppendNew, s, x)

SendValues(g, S, s, x) ==
  /\ g \in [0 .. Len(x) -> Seq(S)]
  /\ g[0] = s
  /\ \A k \in 1 .. Len(x) : g[k] = AppendNew(g[k - 1], x[k])
  /\ g[Len(x)] = Send(s, x)

\* AppendNew adds a block at the end, or nothing.
LEMMA AppendNewFacts ==
  ASSUME NEW S, NEW s \in Seq(S), NEW b \in S
  PROVE  /\ AppendNew(s, b) \in Seq(S)
         /\ Len(AppendNew(s, b)) = IF b \in Range(s) THEN Len(s) ELSE Len(s) + 1
         /\ \A i \in 1 .. Len(s) : AppendNew(s, b)[i] = s[i]
         /\ b \notin Range(s) => AppendNew(s, b)[Len(s) + 1] = b
  <1>1. CASE b \in Range(s)
    BY <1>1 DEF AppendNew
  <1>2. CASE b \notin Range(s)
    <2>1. AppendNew(s, b) = Append(s, b)
      BY <1>2 DEF AppendNew
    <2> QED
      BY <1>2, <2>1
  <1> QED
    BY <1>1, <1>2

\* Sending goes block by block.
LEMMA SendFold ==
  ASSUME NEW S, NEW s \in Seq(S), NEW x \in Seq(S)
  PROVE  \E g : SendValues(g, S, s, x)
  <1> DEFINE m == Len(x)
             A == Seq(S)
             Step(u, k) == AppendNew(u, x[k])
             step == [p \in (1 .. m) \X A |-> Step(p[2], p[1])]
  <1>1. m \in Nat /\ DOMAIN x = 1 .. m
    OBVIOUS
  <1>2. ASSUME NEW k \in 1 .. m, NEW u \in A PROVE Step(u, k) \in A
    <2>1. x[k] \in S
      OBVIOUS
    <2> QED
      BY <2>1, AppendNewFacts
  <1>3. s \in A
    OBVIOUS
  <1> DEFINE Eq(it) ==
               it = [T \in SUBSET DOMAIN x |->
                       IF T = {} THEN s
                       ELSE LET y == Max(T)
                            IN  AppendNew(it[T \ {y}], x[y])]
  <1>4. step \in [(1 .. m) \X A -> A]
    <2> HIDE DEF A, Step, m
    <2> QED
      BY <1>2
  <1>5. \A k \in 1 .. m : \A u \in A : step[<<k, u>>] = Step(u, k)
    <2> HIDE DEF A, Step, m
    <2> QED
      OBVIOUS
  <1> HIDE DEF step
  <1>6. \E it : Eq(it)
    <2>1. PICK it : Folds(it, m, A, s, step)
      <3> HIDE DEF A, m
      <3> QED
        BY <1>1, <1>3, <1>4, FoldExists
    <2>2. ASSUME NEW T \in SUBSET (1 .. m), T # {}
          PROVE  step[<<Max(T), it[T \ {Max(T)}]>>] = Step(it[T \ {Max(T)}], Max(T))
      <3> HIDE DEF A, Step, m
      <3>1. Max(T) \in 1 .. m
        BY <1>1, <2>2, MaxIn
      <3>2. it[T \ {Max(T)}] \in A
        BY <2>1 DEF Folds
      <3> QED
        BY <1>5, <3>1, <3>2
    <2>3. it = [T \in SUBSET (1 .. m) |->
                  IF T = {} THEN s ELSE Step(it[T \ {Max(T)}], Max(T))]
      <3> HIDE DEF A, Step, m
      <3> QED
        BY <2>1, <2>2 DEF Folds
    <2> HIDE DEF m
    <2>4. Eq(it)
      BY <1>1, <2>3
    <2> QED
      BY <2>4
  <1>7. PICK it : Eq(it) /\ Send(s, x) = it[DOMAIN x]
    BY Zenon, <1>6 DEF FoldLeft, MapThenFoldSet, Send
  <1>8. /\ it[{}] = s
        /\ \A T \in SUBSET (1 .. m) : T # {} => it[T] = Step(it[T \ {Max(T)}], Max(T))
    <2> HIDE DEF m
    <2> QED
      BY <1>1, <1>7
  <1> DEFINE g == Steps(it, m)
  <1>9. Values(g, m, A, s, step)
    <2>1. ASSUME NEW T \in SUBSET (1 .. m), T # {}, it[T \ {Max(T)}] \in A
          PROVE  it[T] = step[<<Max(T), it[T \ {Max(T)}]>>]
      <3> HIDE DEF A, Step, m
      <3>1. Max(T) \in 1 .. m
        BY <1>1, <2>1, MaxIn
      <3> QED
        BY <1>5, <1>8, <2>1, <3>1
    <2> HIDE DEF A, Step, m
    <2>2. Follows(it, m, A, s, step)
      BY <1>8, <2>1 DEF Follows
    <2> QED
      BY <1>1, <1>3, <1>4, <2>2, FoldValues
  <1>10. ASSUME NEW k \in 1 .. m PROVE g[k] = AppendNew(g[k - 1], x[k])
    <2>1. k - 1 \in 0 .. m
      OBVIOUS
    <2> HIDE DEF m, g, A
    <2>2. g[k - 1] \in A
      BY <1>9, <2>1 DEF Values
    <2>3. g[k] = Step(g[k - 1], k)
      <3> HIDE DEF Step
      <3> QED
        BY <1>5, <1>9, <2>2 DEF Values
    <2> QED
      BY <2>3
  <1>11. g \in [0 .. m -> A] /\ g[0] = s
    <2> HIDE DEF g, m, A
    <2> QED
      BY <1>9 DEF Values
  <1>12. g[m] = it[1 .. m]
    <2> HIDE DEF m
    <2> QED
      BY <1>1 DEF Steps
  <1>13. g[m] = Send(s, x)
    <2> HIDE DEF g, m
    <2> QED
      BY <1>1, <1>7, <1>12
  <1>14. SendValues(g, S, s, x)
    <2> HIDE DEF g
    <2> QED
      BY <1>10, <1>11, <1>13 DEF SendValues
  <1> QED
    BY <1>14

\* What was sent stays where it is.
Extends(s, t) == Len(s) <= Len(t) /\ \A i \in 1 .. Len(s) : t[i] = s[i]

\* Sending keeps what was sent where it is.
LEMMA SendExtends ==
  ASSUME NEW S, NEW s \in Seq(S), NEW x \in Seq(S)
  PROVE  Send(s, x) \in Seq(S) /\ Extends(s, Send(s, x))
  <1>1. PICK g : SendValues(g, S, s, x)
    BY SendFold
  <1> DEFINE n == Len(x)
             C == {k \in 0 .. n : Extends(s, g[k])}
  <1>2. n \in Nat /\ \A k \in 1 .. n : x[k] \in S
    OBVIOUS
  <1>3. g \in [0 .. n -> Seq(S)] /\ g[0] = s /\ g[n] = Send(s, x)
        /\ \A k \in 1 .. n : g[k] = AppendNew(g[k - 1], x[k])
    BY <1>1 DEF SendValues
  <1> HIDE DEF n
  <1>4. 0 \in C
    BY <1>2, <1>3 DEF Extends
  <1>5. ASSUME NEW k \in 0 .. (n - 1), k \in C PROVE k + 1 \in C
    <2> DEFINE u == g[k]
               b == x[k + 1]
    <2>1. k + 1 \in 1 .. n /\ k + 1 \in 0 .. n /\ k \in 0 .. n /\ (k + 1) - 1 = k
      BY <1>2
    <2>2. u \in Seq(S) /\ b \in S /\ g[k + 1] = AppendNew(u, b) /\ Extends(s, u)
      BY <1>2, <1>3, <1>5, <2>1
    <2> HIDE DEF u, b
    <2>3. Extends(u, AppendNew(u, b))
      <3>1. /\ Len(AppendNew(u, b)) = IF b \in Range(u) THEN Len(u) ELSE Len(u) + 1
            /\ \A i \in 1 .. Len(u) : AppendNew(u, b)[i] = u[i]
        BY <2>2, AppendNewFacts
      <3>2. Len(u) \in Nat
        BY <2>2
      <3> QED
        BY <3>1, <3>2 DEF Extends
    <2>4. Extends(s, AppendNew(u, b))
      <3>1. AppendNew(u, b) \in Seq(S)
        BY <2>2, AppendNewFacts
      <3> QED
        BY <2>2, <2>3, <3>1 DEF Extends
    <2> QED
      BY <2>1, <2>2, <2>4
  <1>6. C = 0 .. n
    <2>1. C \in SUBSET (0 .. n)
      OBVIOUS
    <2> HIDE DEF C
    <2> QED
      BY <1>2, <1>4, <1>5, <2>1, Induct
  <1>7. n \in C
    BY <1>2, <1>6
  <1> QED
    BY <1>2, <1>3, <1>7

\* No block is twice in o.
Distinct(o) == \A i, k \in 1 .. Len(o) : o[i] = o[k] => i = k

\* Who has seen the start of o and is sent a part of o that follows or overlaps
\* it has seen o up to the end of that part.
LEMMA SendInOrder ==
  ASSUME NEW S, NEW o \in Seq(S), Distinct(o), NEW s \in Seq(S), NEW x \in Seq(S),
         NEW q \in Nat, q <= Len(s), Segment(o, 0, s), Segment(o, q, x)
  PROVE  /\ Segment(o, 0, Send(s, x))
         /\ q + Len(x) <= Len(Send(s, x))
  <1>1. PICK g : SendValues(g, S, s, x)
    BY SendFold
  <1> DEFINE n == Len(x)
             C == {k \in 0 .. n : Segment(o, 0, g[k]) /\ q + k <= Len(g[k])}
  <1>2. n \in Nat /\ \A k \in 1 .. n : x[k] \in S
    OBVIOUS
  <1>3. g \in [0 .. n -> Seq(S)] /\ g[0] = s /\ g[n] = Send(s, x)
        /\ \A k \in 1 .. n : g[k] = AppendNew(g[k - 1], x[k])
    BY <1>1 DEF SendValues
  <1>4. q + n <= Len(o) /\ Len(o) \in Nat /\ \A k \in 1 .. n : x[k] = o[q + k]
    BY DEF Segment
  <1> HIDE DEF n
  <1>5. 0 \in C
    BY <1>2, <1>3
  <1>6. ASSUME NEW k \in 0 .. (n - 1), k \in C PROVE k + 1 \in C
    <2> DEFINE u == g[k]
               b == x[k + 1]
               t == AppendNew(u, b)
    <2>1. k + 1 \in 1 .. n /\ k + 1 \in 0 .. n /\ k \in 0 .. n /\ (k + 1) - 1 = k
      BY <1>2
    <2>2. u \in Seq(S) /\ b \in S /\ g[k + 1] = t /\ Segment(o, 0, u) /\ q + k <= Len(u)
      BY <1>2, <1>3, <1>6, <2>1
    <2>3. b = o[q + k + 1] /\ q + k + 1 <= Len(o)
      BY <1>2, <1>4, <2>1
    <2> HIDE DEF u, b
    <2>4. \A i \in 1 .. Len(u) : u[i] = o[i] /\ i \in 1 .. Len(o)
      BY <1>4, <2>2 DEF Segment
    <2>5. CASE b \in Range(u)
      <3>1. PICK i \in 1 .. Len(u) : u[i] = b
        BY <2>2, <2>5 DEF Range
      <3>2. i = q + k + 1
        <4>1. q + k + 1 \in 1 .. Len(o) /\ i \in 1 .. Len(o) /\ o[i] = o[q + k + 1]
          BY <1>4, <2>3, <2>4, <3>1
        <4> QED
          BY <4>1 DEF Distinct
      <3>3. t = u
        BY <2>5 DEF AppendNew
      <3>4. q + (k + 1) <= Len(t)
        BY <2>2, <3>1, <3>2, <3>3
      <3> QED
        BY <2>1, <2>2, <3>3, <3>4
    <2>6. CASE b \notin Range(u)
      <3>1. Len(u) = q + k
        <4> SUFFICES ASSUME q + k + 1 <= Len(u) PROVE FALSE
          BY <2>2
        <4>1. q + k + 1 \in 1 .. Len(u) /\ u[q + k + 1] = b
          BY <2>2, <2>3, <2>4
        <4> QED
          BY <2>2, <2>6, <4>1 DEF Range
      <3>2. /\ t \in Seq(S) /\ Len(t) = Len(u) + 1
            /\ \A i \in 1 .. Len(u) : t[i] = u[i]
            /\ t[Len(u) + 1] = b
        BY <2>2, <2>6, AppendNewFacts
      <3> HIDE DEF t
      <3>3. \A i \in 1 .. Len(t) : t[i] = o[i]
        BY <2>2, <2>3, <2>4, <3>1, <3>2
      <3>4. Segment(o, 0, t)
        BY <2>3, <3>1, <3>2, <3>3 DEF Segment
      <3> QED
        BY <2>1, <2>2, <3>1, <3>2, <3>4
    <2> QED
      BY <2>5, <2>6
  <1>7. C = 0 .. n
    <2>1. C \in SUBSET (0 .. n)
      OBVIOUS
    <2> HIDE DEF C
    <2> QED
      BY <1>2, <1>5, <1>6, <2>1, Induct
  <1>8. n \in C
    <2>1. n \in 0 .. n
      BY ONLY <1>2
    <2> QED
      BY ONLY <2>1, <1>7, Zenon
  <1>9. Segment(o, 0, g[n]) /\ q + n <= Len(g[n])
    BY ONLY <1>8, Zenon
  <1> QED
    BY <1>3, <1>9 DEF n

-----------------------------------------------------------------------------
\* Where the blocks of an epoch are in the order o.  x.lo and x.hi are the
\* heights of the leader l before the epoch and after it, x.at[h] the height of
\* each chain when o has come to the leader's block at height h, and
\* x.pos[<<h, j>>] how long o is then, together with the blocks of the first j
\* chains that the next block of the leader references.
LaidOut(o, r, l, x) ==
  /\ x.lo \in Nat /\ x.hi \in Nat /\ x.lo <= x.hi
  /\ x.at \in [x.lo .. x.hi -> [Chains -> Nat]]
  /\ x.pos \in [(x.lo .. x.hi) \X (0 .. (Len(Keys) - 1)) -> Nat]
  /\ \A h \in x.lo .. x.hi : x.at[h][l] = h
  /\ \A h \in x.lo .. (x.hi - 1) : \A c \in Chains \ {l} :
       /\ r[h + 1][c] \in Nat
       /\ x.at[h + 1][c] = IF x.at[h][c] < r[h + 1][c] THEN r[h + 1][c] ELSE x.at[h][c]
  /\ \A h \in x.lo .. (x.hi - 1) : \A j \in 1 .. (Len(Keys) - 1) :
       LET c == Others(l)[j]
       IN  /\ Segment(o, x.pos[<<h, j - 1>>], Blocks(c, x.at[h][c], x.at[h + 1][c]))
           /\ x.pos[<<h, j>>] = x.pos[<<h, j - 1>>] + (x.at[h + 1][c] - x.at[h][c])
  /\ \A h \in x.lo .. (x.hi - 1) :
       /\ x.pos[<<h, Len(Keys) - 1>>] + 1 <= Len(o)
       /\ o[x.pos[<<h, Len(Keys) - 1>>] + 1] = <<l, h + 1>>
       /\ x.pos[<<h + 1, 0>>] = x.pos[<<h, Len(Keys) - 1>>] + 1

\* The places <<h, j>> in that order, and the heights of the chains there.
Place(x, h, j) ==
  /\ h \in x.lo .. x.hi
  /\ j \in 0 .. (Len(Keys) - 1)
  /\ j # 0 => h # x.hi

Mark(x, l, h, j) ==
  IF j = 0 THEN x.at[h]
  ELSE [c \in Chains |->
          IF \E i \in 1 .. j : Others(l)[i] = c THEN x.at[h + 1][c] ELSE x.at[h][c]]

\* At a place there are so many blocks, and each chain has a height.
LEMMA PlaceFacts ==
  ASSUME NEW o, NEW r, NEW l, NEW x, LaidOut(o, r, l, x), NEW h, NEW j, Place(x, h, j)
  PROVE  /\ h \in Nat /\ j \in Nat /\ x.pos[<<h, j>>] \in Nat
         /\ Mark(x, l, h, j) \in [Chains -> Nat]
  <1>1. /\ x.lo \in Nat /\ x.hi \in Nat
        /\ x.at \in [x.lo .. x.hi -> [Chains -> Nat]]
        /\ x.pos \in [(x.lo .. x.hi) \X (0 .. (Len(Keys) - 1)) -> Nat]
    BY DEF LaidOut
  <1>2. h \in x.lo .. x.hi /\ j \in 0 .. (Len(Keys) - 1) /\ (j # 0 => h # x.hi)
    BY DEF Place
  <1>3. x.pos[<<h, j>>] \in Nat
    BY <1>1, <1>2
  <1>4. Mark(x, l, h, j) \in [Chains -> Nat]
    <2>1. CASE j = 0
      BY <1>1, <1>2, <2>1 DEF Mark
    <2>2. CASE j # 0
      <3>1. h + 1 \in x.lo .. x.hi
        BY <1>1, <1>2, <2>2
      <3> QED
        BY <1>1, <1>2, <2>2, <3>1 DEF Mark
    <2> QED
      BY <2>1, <2>2
  <1> QED
    BY <1>1, <1>2, <1>3, <1>4

Raise(mark, c, to) == [mark EXCEPT ![c] = to]

\* From one place to the next: the j-th of the other chains rises, and after
\* all of them the leader's.
OtherRises(x, l, h, j, c) ==
  /\ Place(x, h, j - 1) /\ Place(x, h, j)
  /\ c \in Chains \ {l}
  /\ Mark(x, l, h, j - 1)[c] = x.at[h][c]
  /\ Mark(x, l, h, j) = Raise(Mark(x, l, h, j - 1), c, x.at[h + 1][c])

LeaderRises(x, l, h, n) ==
  /\ Place(x, h, n) /\ Place(x, h + 1, 0)
  /\ Mark(x, l, h, n)[l] = h
  /\ Mark(x, l, h + 1, 0) = Raise(Mark(x, l, h, n), l, h + 1)

\* At the j-th of the other chains that chain rises, and no other.
LEMMA MarkOther ==
  ASSUME NEW o, NEW r, NEW l \in Chains, NEW x, LaidOut(o, r, l, x),
         NEW h \in x.lo .. (x.hi - 1), NEW j \in 1 .. (Len(Keys) - 1)
  PROVE  OtherRises(x, l, h, j, Others(l)[j])
  <1> DEFINE c == Others(l)[j]
  <1>1. /\ x.lo \in Nat /\ x.hi \in Nat
        /\ x.at \in [x.lo .. x.hi -> [Chains -> Nat]]
    BY DEF LaidOut
  <1>2. /\ Len(Keys) - 1 \in Nat /\ j \in Nat /\ h \in Nat
        /\ h \in x.lo .. x.hi /\ h + 1 \in x.lo .. x.hi /\ h # x.hi
        /\ j - 1 \in 0 .. (Len(Keys) - 1) /\ j \in 0 .. (Len(Keys) - 1)
    <2>1. Len(Keys) - 1 \in Nat
      BY KeysFacts
    <2> QED
      BY <1>1, <2>1
  <1>3. Place(x, h, j - 1) /\ Place(x, h, j)
    BY <1>2 DEF Place
  <1>4. /\ c \in Chains \ {l}
        /\ \A i \in 1 .. (Len(Keys) - 1) : Others(l)[i] = c => i = j
    BY OthersFacts
  <1> DEFINE a == Mark(x, l, h, j - 1)
             b == Mark(x, l, h, j)
  <1>5. a \in [Chains -> Nat] /\ b \in [Chains -> Nat]
    BY <1>3, PlaceFacts
  <1>6. \A d \in Chains :
          a[d] = IF \E i \in 1 .. (j - 1) : Others(l)[i] = d THEN x.at[h + 1][d] ELSE x.at[h][d]
    <2>1. CASE j - 1 = 0
      <3>1. ~ \E i \in 1 .. (j - 1) : TRUE
        BY <2>1
      <3>2. a = x.at[h]
        BY <2>1 DEF Mark
      <3> QED
        BY <3>1, <3>2
    <2>2. CASE j - 1 # 0
      BY <2>2 DEF Mark
    <2> QED
      BY <2>1, <2>2
  <1>7. \A d \in Chains :
          b[d] = IF \E i \in 1 .. j : Others(l)[i] = d THEN x.at[h + 1][d] ELSE x.at[h][d]
    <2>1. j # 0
      OBVIOUS
    <2> QED
      BY <2>1 DEF Mark
  <1>8. a[c] = x.at[h][c]
    <2>1. \A i \in 1 .. (j - 1) : i \in 1 .. (Len(Keys) - 1) /\ i # j
      BY <1>2
    <2>2. ~ \E i \in 1 .. (j - 1) : Others(l)[i] = c
      BY <1>4, <2>1
    <2> HIDE DEF a, c
    <2> QED
      BY <1>4, <1>6, <2>2
  <1>9. ASSUME NEW d \in Chains PROVE b[d] = IF d = c THEN x.at[h + 1][c] ELSE a[d]
    <2>1. CASE d = c
      <3>1. j \in 1 .. j /\ Others(l)[j] = d
        BY <1>2, <2>1
      <3> HIDE DEF a, b, c
      <3> QED
        BY <1>7, <2>1, <3>1
    <2>2. CASE d # c
      <3>1. (\E i \in 1 .. j : Others(l)[i] = d) <=> (\E i \in 1 .. (j - 1) : Others(l)[i] = d)
        <4>1. \A i \in 1 .. j : i # j => i \in 1 .. (j - 1)
          BY <1>2
        <4>2. \A i \in 1 .. (j - 1) : i \in 1 .. j
          BY <1>2
        <4> QED
          BY <2>2, <4>1, <4>2
      <3> HIDE DEF a, b, c
      <3> QED
        BY <1>6, <1>7, <2>2, <3>1
    <2> QED
      BY <2>1, <2>2
  <1>10. b = Raise(a, c, x.at[h + 1][c])
    <2> HIDE DEF a, b, c
    <2> QED
      BY <1>5, <1>9 DEF Raise
  <1>11. OtherRises(x, l, h, j, c)
    <2> HIDE DEF c
    <2> QED
      BY <1>3, <1>4, <1>8, <1>10 DEF OtherRises
  <1> QED
    BY <1>11

\* Then the leader's chain rises by its block.
LEMMA MarkLeader ==
  ASSUME NEW o, NEW r, NEW l \in Chains, NEW x, LaidOut(o, r, l, x),
         NEW h \in x.lo .. (x.hi - 1)
  PROVE  LeaderRises(x, l, h, Len(Keys) - 1)
  <1> DEFINE n == Len(Keys) - 1
  <1>1. /\ x.lo \in Nat /\ x.hi \in Nat
        /\ x.at \in [x.lo .. x.hi -> [Chains -> Nat]]
        /\ \A k \in x.lo .. x.hi : x.at[k][l] = k
    BY DEF LaidOut
  <1>2. /\ n \in Nat /\ n # 0 /\ h \in Nat
        /\ h \in x.lo .. x.hi /\ h + 1 \in x.lo .. x.hi /\ h # x.hi
        /\ n \in 0 .. (Len(Keys) - 1) /\ 0 \in 0 .. (Len(Keys) - 1)
    <2>1. n \in Nat /\ n # 0
      BY KeysFacts
    <2> QED
      BY <1>1, <2>1
  <1>3. Place(x, h, n) /\ Place(x, h + 1, 0)
    BY <1>2 DEF Place
  <1> DEFINE a == Mark(x, l, h, n)
             b == x.at[h + 1]
  <1>4. Mark(x, l, h + 1, 0) = b
    BY DEF Mark
  <1>5. a \in [Chains -> Nat] /\ b \in [Chains -> Nat] /\ b[l] = h + 1
    BY <1>1, <1>2, <1>3, PlaceFacts
  <1>6. \A d \in Chains :
          a[d] = IF \E i \in 1 .. n : Others(l)[i] = d THEN b[d] ELSE x.at[h][d]
    BY <1>2 DEF Mark
  <1>7. \A d \in Chains : (\E i \in 1 .. n : Others(l)[i] = d) <=> d # l
    BY OthersFacts
  <1> HIDE DEF a, b
  <1>8. a[l] = h
    BY <1>1, <1>2, <1>6, <1>7
  <1>9. \A d \in Chains : d # l => a[d] = b[d]
    BY <1>6, <1>7
  <1>10. b = Raise(a, l, h + 1)
    BY <1>5, <1>9 DEF Raise
  <1> HIDE DEF n
  <1>11. LeaderRises(x, l, h, n)
    BY <1>3, <1>4, <1>8, <1>10 DEF a, LeaderRises
  <1> QED
    BY <1>11 DEF n

-----------------------------------------------------------------------------
\* The blocks up to the heights in mark, without those in gap.
Below(mark, gap) == {b \in Pairs : b[2] \in 1 .. mark[b[1]] /\ b \notin gap}

\* The first p blocks of o are these, each of them once.
Exact(o, p, mark, gap) ==
  /\ p \in Nat /\ p <= Len(o)
  /\ \A i \in 1 .. p : o[i] \in Below(mark, gap)
  /\ \A b \in Below(mark, gap) : \E i \in 1 .. p : o[i] = b
  /\ \A i, k \in 1 .. p : o[i] = o[k] => i = k

\* No block of gap is above the heights in mark.
Clear(mark, gap) == \A c \in Chains : \A i \in Nat : i > mark[c] => <<c, i>> \notin gap

\* A block is below the heights in mark if its height is at most that of its
\* chain.
LEMMA BelowFacts ==
  ASSUME NEW mark \in [Chains -> Nat], NEW gap, NEW b
  PROVE  b \in Below(mark, gap) <=>
           \E d \in Chains, i \in Nat :
             b = <<d, i>> /\ 1 <= i /\ i <= mark[d] /\ <<d, i>> \notin gap
  <1>1. ASSUME b \in Below(mark, gap)
        PROVE  \E d \in Chains, i \in Nat :
                 b = <<d, i>> /\ 1 <= i /\ i <= mark[d] /\ <<d, i>> \notin gap
    <2>1. b \in Pairs /\ b[2] \in 1 .. mark[b[1]] /\ b \notin gap
      BY <1>1 DEF Below
    <2>2. b[1] \in Chains /\ b[2] \in Nat /\ b = <<b[1], b[2]>>
      BY <2>1 DEF Pairs
    <2>3. mark[b[1]] \in Nat
      BY <2>2
    <2>4. 1 <= b[2] /\ b[2] <= mark[b[1]] /\ <<b[1], b[2]>> \notin gap
      BY <2>1, <2>2, <2>3
    <2> QED
      BY <2>2, <2>4
  <1>2. ASSUME NEW d \in Chains, NEW i \in Nat,
               b = <<d, i>>, 1 <= i, i <= mark[d], <<d, i>> \notin gap
        PROVE  b \in Below(mark, gap)
    <2>1. b \in Pairs /\ b[1] = d /\ b[2] = i
      BY <1>2 DEF Pairs
    <2>2. i \in 1 .. mark[d]
      BY <1>2
    <2> QED
      BY <1>2, <2>1, <2>2 DEF Below
  <1> QED
    BY <1>1, <1>2

\* One chain rises, by blocks that follow in o.
LEMMA ExactRises ==
  ASSUME NEW o \in Seq(Pairs), NEW p \in Nat, NEW mark \in [Chains -> Nat], NEW gap,
         Exact(o, p, mark, gap), NEW c \in Chains, NEW to \in Nat, mark[c] <= to,
         Clear(mark, gap), Segment(o, p, Blocks(c, mark[c], to))
  PROVE  /\ Exact(o, p + (to - mark[c]), Raise(mark, c, to), gap)
         /\ Clear(Raise(mark, c, to), gap)
  <1> DEFINE from == mark[c]
             new == Raise(mark, c, to)
             e == p + (to - from)
  <1>1. from \in Nat /\ from <= to /\ new \in [Chains -> Nat] /\ new[c] = to
        /\ \A d \in Chains : d # c => new[d] = mark[d]
    BY DEF Raise
  <1>2. e \in Nat /\ e <= Len(o) /\ Len(o) \in Nat
    <2>1. Len(Blocks(c, from, to)) = to - from
      BY <1>1, BlocksFacts
    <2> QED
      BY <1>1, <2>1 DEF Segment
  <1>3. \A i \in 1 .. (to - from) : o[p + i] = <<c, from + i>>
    <2>1. Len(Blocks(c, from, to)) = to - from
          /\ \A i \in 1 .. (to - from) : Blocks(c, from, to)[i] = <<c, from + i>>
      BY <1>1, BlocksFacts
    <2>2. Segment(o, p, Blocks(c, from, to))
      OBVIOUS
    <2> HIDE DEF from
    <2> QED
      BY <2>1, <2>2 DEF Segment
  <1> HIDE DEF from, new
  <1>4. \A i \in (p + 1) .. e : o[i] = <<c, from + (i - p)>> /\ i - p \in 1 .. (to - from)
    <2> TAKE i \in (p + 1) .. e
    <2>1. i - p \in 1 .. (to - from) /\ p + (i - p) = i
      BY <1>1
    <2> QED
      BY <1>3, <2>1
  <1> HIDE DEF e
  <1>5. /\ \A i \in 1 .. p : o[i] \in Below(mark, gap)
        /\ \A b \in Below(mark, gap) : \E i \in 1 .. p : o[i] = b
        /\ \A i, k \in 1 .. p : o[i] = o[k] => i = k
    BY DEF Exact
  <1>6. \A i \in 1 .. e : i \in 1 .. p \/ i \in (p + 1) .. e
    BY <1>2
  <1>7. ASSUME NEW i \in 1 .. p
        PROVE  \E d \in Chains, n \in Nat :
                 o[i] = <<d, n>> /\ 1 <= n /\ n <= mark[d] /\ <<d, n>> \notin gap
    BY <1>5, BelowFacts
  <1>8. ASSUME NEW i \in 1 .. e PROVE o[i] \in Below(new, gap)
    <2>1. CASE i \in 1 .. p
      <3>1. PICK d \in Chains, n \in Nat :
              o[i] = <<d, n>> /\ 1 <= n /\ n <= mark[d] /\ <<d, n>> \notin gap
        BY <1>7, <2>1
      <3>2. n <= new[d]
        <4>1. CASE d = c
          BY <1>1, <3>1, <4>1 DEF from
        <4>2. CASE d # c
          BY <1>1, <3>1, <4>2
        <4> QED
          BY <4>1, <4>2
      <3> QED
        BY <1>1, <3>1, <3>2, BelowFacts
    <2>2. CASE i \in (p + 1) .. e
      <3> DEFINE n == from + (i - p)
      <3>1. o[i] = <<c, n>> /\ n \in Nat /\ n > mark[c] /\ 1 <= n /\ n <= new[c]
        BY <1>1, <1>4, <2>2 DEF from
      <3> HIDE DEF n
      <3>2. <<c, n>> \notin gap
        BY <3>1 DEF Clear
      <3> QED
        BY <1>1, <3>1, <3>2, BelowFacts
    <2> QED
      BY <1>6, <2>1, <2>2
  <1>9. ASSUME NEW b \in Below(new, gap) PROVE \E i \in 1 .. e : o[i] = b
    <2>1. PICK d \in Chains, n \in Nat :
            b = <<d, n>> /\ 1 <= n /\ n <= new[d] /\ <<d, n>> \notin gap
      BY <1>1, BelowFacts
    <2>2. CASE n <= mark[d]
      <3>1. b \in Below(mark, gap)
        BY <2>1, <2>2, BelowFacts
      <3>2. PICK i \in 1 .. p : o[i] = b
        BY <1>5, <3>1
      <3>3. i \in 1 .. e
        <4>1. p <= e
          BY <1>1 DEF e
        <4> QED
          BY <1>2, <4>1
      <3> QED
        BY <3>2, <3>3
    <2>3. CASE ~(n <= mark[d])
      <3>1. d = c
        BY <1>1, <2>1, <2>3
      <3> DEFINE i == n - from
      <3>2. i \in 1 .. (to - from) /\ from + i = n
        BY <1>1, <2>1, <2>3, <3>1 DEF from
      <3>3. o[p + i] = b
        BY <1>3, <2>1, <3>1, <3>2
      <3>4. p + i \in 1 .. e
        BY <1>1, <3>2 DEF e
      <3> QED
        BY <3>3, <3>4
    <2> QED
      BY <2>2, <2>3
  <1>10. ASSUME NEW i \in 1 .. p, NEW k \in (p + 1) .. e PROVE o[i] # o[k]
    <2>1. PICK d \in Chains, n \in Nat :
            o[i] = <<d, n>> /\ 1 <= n /\ n <= mark[d] /\ <<d, n>> \notin gap
      BY <1>7
    <2>2. o[k] = <<c, from + (k - p)>> /\ k - p \in 1 .. (to - from)
      BY <1>4
    <2>3. d = c => n # from + (k - p)
      BY <1>1, <2>1, <2>2 DEF from
    <2> QED
      BY <2>1, <2>2, <2>3
  <1>11. ASSUME NEW i \in (p + 1) .. e, NEW k \in (p + 1) .. e, o[i] = o[k] PROVE i = k
    <2>1. <<c, from + (i - p)>> = <<c, from + (k - p)>>
      BY <1>4, <1>11
    <2> QED
      BY <1>1, <1>2, <2>1
  <1>12. \A i, k \in 1 .. e : o[i] = o[k] => i = k
    BY <1>5, <1>6, <1>10, <1>11
  <1>13. Exact(o, e, new, gap)
    BY <1>2, <1>8, <1>9, <1>12 DEF Exact
  <1>14. Clear(new, gap)
    <2> SUFFICES ASSUME NEW d \in Chains, NEW i \in Nat, i > new[d] PROVE <<d, i>> \notin gap
      BY DEF Clear
    <2>1. new[d] \in Nat /\ mark[d] \in Nat /\ mark[d] <= new[d]
      BY <1>1 DEF from
    <2> QED
      BY <2>1 DEF Clear
  <1> QED
    BY <1>13, <1>14 DEF e, new, from

\* At every place of the epoch: what is in o so far is what is below the heights.
LEMMA EpochExact ==
  ASSUME NEW o \in Seq(Pairs), NEW r, NEW l \in Chains, NEW x, LaidOut(o, r, l, x), NEW gap,
         Exact(o, x.pos[<<x.lo, 0>>], x.at[x.lo], gap), Clear(x.at[x.lo], gap),
         NEW h0, NEW j0, Place(x, h0, j0)
  PROVE  Exact(o, x.pos[<<h0, j0>>], Mark(x, l, h0, j0), gap)
  <1> DEFINE m == Len(Keys) - 1
             Good(h, j) == /\ Exact(o, x.pos[<<h, j>>], Mark(x, l, h, j), gap)
                           /\ Clear(Mark(x, l, h, j), gap)
  <1>1. /\ x.lo \in Nat /\ x.hi \in Nat /\ x.lo <= x.hi
        /\ x.at \in [x.lo .. x.hi -> [Chains -> Nat]]
        /\ x.pos \in [(x.lo .. x.hi) \X (0 .. m) -> Nat]
        /\ m \in Nat
    <2>1. m \in Nat
      BY ONLY KeysFacts
    <2> QED
      BY ONLY LaidOut(o, r, l, x), <2>1, Zenon DEF LaidOut
  <1>2. ASSUME NEW h \in x.lo .. (x.hi - 1), NEW j \in 1 .. m, Good(h, j - 1)
        PROVE  Good(h, j)
    <2> DEFINE c == Others(l)[j]
               a == Mark(x, l, h, j - 1)
               to == x.at[h + 1][c]
               p == x.pos[<<h, j - 1>>]
    <2>1. /\ Place(x, h, j - 1) /\ Place(x, h, j) /\ c \in Chains \ {l}
          /\ a[c] = x.at[h][c] /\ Mark(x, l, h, j) = Raise(a, c, to)
      <3>1. OtherRises(x, l, h, j, c)
        BY MarkOther
      <3> QED
        BY <3>1 DEF OtherRises
    <2>2. a \in [Chains -> Nat] /\ p \in Nat
      BY <2>1, PlaceFacts
    <2>3. /\ Segment(o, p, Blocks(c, x.at[h][c], to))
          /\ x.pos[<<h, j>>] = p + (to - x.at[h][c])
      BY DEF LaidOut
    <2>4. to \in Nat /\ x.at[h][c] <= to
      <3>1. /\ r[h + 1][c] \in Nat
            /\ to = IF x.at[h][c] < r[h + 1][c] THEN r[h + 1][c] ELSE x.at[h][c]
        BY <2>1 DEF LaidOut
      <3>2. x.at[h][c] \in Nat
        BY <2>1, <2>2
      <3> HIDE DEF to, c
      <3> QED
        BY <3>1, <3>2
    <2>5. Exact(o, p, a, gap) /\ Clear(a, gap)
      BY <1>2
    <2> HIDE DEF c, a, to, p
    <2>6. Exact(o, p + (to - a[c]), Raise(a, c, to), gap) /\ Clear(Raise(a, c, to), gap)
      <3>1. c \in Chains /\ Segment(o, p, Blocks(c, a[c], to)) /\ a[c] <= to
        BY <2>1, <2>3, <2>4
      <3> QED
        BY <2>2, <2>4, <2>5, <3>1, ExactRises
    <2> QED
      BY <2>1, <2>3, <2>6
  <1>3. ASSUME NEW h \in x.lo .. (x.hi - 1), Good(h, m) PROVE Good(h + 1, 0)
    <2> DEFINE a == Mark(x, l, h, m)
               p == x.pos[<<h, m>>]
    <2>1. /\ Place(x, h, m) /\ Place(x, h + 1, 0)
          /\ a[l] = h /\ Mark(x, l, h + 1, 0) = Raise(a, l, h + 1)
      <3>1. LeaderRises(x, l, h, m)
        BY MarkLeader
      <3> QED
        BY <3>1 DEF LeaderRises
    <2>2. a \in [Chains -> Nat] /\ p \in Nat /\ h \in Nat
      BY <2>1, PlaceFacts
    <2>3. p + 1 <= Len(o) /\ o[p + 1] = <<l, h + 1>> /\ x.pos[<<h + 1, 0>>] = p + 1
      BY DEF LaidOut
    <2>4. Exact(o, p, a, gap) /\ Clear(a, gap)
      BY <1>3
    <2> HIDE DEF a, p
    <2>5. Segment(o, p, Blocks(l, h, h + 1))
      <3>1. /\ Len(Blocks(l, h, h + 1)) = 1
            /\ \A i \in 1 .. 1 : Blocks(l, h, h + 1)[i] = <<l, h + i>>
        <4>1. h + 1 \in Nat /\ h <= h + 1 /\ (h + 1) - h = 1
          BY <2>2
        <4> QED
          BY <2>2, <4>1, BlocksFacts
      <3>2. p + 1 = p + Len(Blocks(l, h, h + 1))
        BY <3>1
      <3>3. \A i \in 1 .. 1 : Blocks(l, h, h + 1)[i] = o[p + i]
        <4> SUFFICES ASSUME NEW i \in 1 .. 1 PROVE Blocks(l, h, h + 1)[i] = o[p + i]
          OBVIOUS
        <4>1. i = 1
          OBVIOUS
        <4> QED
          BY <2>3, <3>1, <4>1
      <3> QED
        BY <2>3, <3>1, <3>2, <3>3 DEF Segment
    <2>6. /\ Exact(o, p + ((h + 1) - a[l]), Raise(a, l, h + 1), gap)
          /\ Clear(Raise(a, l, h + 1), gap)
      <3>1. h + 1 \in Nat /\ a[l] <= h + 1 /\ Segment(o, p, Blocks(l, a[l], h + 1))
        BY <2>1, <2>2, <2>5
      <3> QED
        BY <2>2, <2>4, <3>1, ExactRises
    <2>7. p + ((h + 1) - a[l]) = p + 1
      BY <2>1, <2>2
    <2> QED
      BY <2>1, <2>3, <2>6, <2>7
  <1> HIDE DEF Good
  <1>4. ASSUME NEW h \in x.lo .. (x.hi - 1), Good(h, 0) PROVE \A j \in 0 .. m : Good(h, j)
    <2> DEFINE C == {j \in 0 .. m : Good(h, j)}
    <2> HIDE DEF m
    <2>1. 0 \in C
      BY <1>1, <1>4
    <2>2. ASSUME NEW j \in 0 .. (m - 1), j \in C PROVE j + 1 \in C
      <3>1. j + 1 \in 1 .. m /\ j + 1 \in 0 .. m /\ (j + 1) - 1 = j
        BY <1>1
      <3>2. Good(h, (j + 1) - 1)
        BY <2>2, <3>1
      <3>3. Good(h, j + 1)
        BY <1>2, <3>1, <3>2
      <3> QED
        BY <3>1, <3>3
    <2>3. C \in SUBSET (0 .. m)
      OBVIOUS
    <2> HIDE DEF C
    <2>4. C = 0 .. m
      BY <1>1, <2>1, <2>2, <2>3, Induct
    <2> QED
      BY <2>4 DEF C
  <1>5. \A h \in x.lo .. x.hi : Good(h, 0)
    <2> DEFINE n == x.hi - x.lo
               C == {i \in 0 .. n : Good(x.lo + i, 0)}
    <2>1. n \in Nat
      BY <1>1
    <2>2. 0 \in C
      <3>1. Good(x.lo, 0)
        BY DEF Good, Mark
      <3>2. x.lo + 0 = x.lo
        BY <1>1
      <3> QED
        BY <2>1, <3>1, <3>2
    <2>3. ASSUME NEW i \in 0 .. (n - 1), i \in C PROVE i + 1 \in C
      <3> DEFINE h == x.lo + i
      <3>1. h \in x.lo .. (x.hi - 1) /\ i + 1 \in 0 .. n /\ h + 1 = x.lo + (i + 1)
        <4> DEFINE lo == x.lo
                   hi == x.hi
        <4>1. lo \in Nat /\ hi \in Nat /\ i \in 0 .. ((hi - lo) - 1)
          BY <1>1
        <4> HIDE DEF lo, hi
        <4>2. /\ lo + i \in lo .. (hi - 1) /\ i + 1 \in 0 .. (hi - lo)
              /\ (lo + i) + 1 = lo + (i + 1)
          BY ONLY <4>1
        <4> QED
          BY ONLY <4>2 DEF lo, hi
      <3>2. Good(h, 0)
        BY <2>3
      <3> HIDE DEF h, m, n
      <3>3. Good(h, m)
        BY <1>1, <1>4, <3>1, <3>2
      <3>4. Good(h + 1, 0)
        BY <1>3, <3>1, <3>3
      <3> QED
        BY <3>1, <3>4
    <2>4. C \in SUBSET (0 .. n)
      OBVIOUS
    <2> HIDE DEF C
    <2>5. C = 0 .. n
      BY <2>1, <2>2, <2>3, <2>4, Induct
    <2>6. ASSUME NEW h \in x.lo .. x.hi PROVE Good(h, 0)
      <3>1. h - x.lo \in 0 .. n /\ x.lo + (h - x.lo) = h
        <4>1. x.lo \in Nat /\ x.hi \in Nat
          BY <1>1
        <4> QED
          BY <4>1
      <3> QED
        BY <2>5, <3>1 DEF C
    <2> QED
      BY <2>6
  <1>6. Good(h0, j0)
    <2>1. h0 \in x.lo .. x.hi /\ j0 \in 0 .. m /\ (j0 # 0 => h0 # x.hi)
      BY DEF Place
    <2>2. CASE j0 = 0
      BY <1>5, <2>1, <2>2
    <2>3. CASE j0 # 0
      <3>1. h0 \in x.lo .. (x.hi - 1)
        BY <1>1, <2>1, <2>3
      <3> QED
        BY <1>4, <1>5, <2>1, <3>1
    <2> QED
      BY <2>2, <2>3
  <1> QED
    BY <1>6 DEF Good

-----------------------------------------------------------------------------
\* A commit that started when q blocks of the order had been sent has come to
\* the place <<h, j>>, or has stopped there: then it may also have put in
\* to_commit a part of the blocks that come next.
Going(o, x, l, q, s, h, j) ==
  /\ Place(x, h, j)
  /\ s.last = Mark(x, l, h, j)
  /\ Segment(o, q, s.out)
  /\ x.pos[<<h, j>>] <= q + Len(s.out)
  /\ s.ok => x.pos[<<h, j>>] = q + Len(s.out)

Passed(x, l, h, j, c) == Mark(x, l, h, j)[c] = x.at[h + 1][c]

\* The chains passed at a place have the heights of the leader's next block.
LEMMA MarkPassed ==
  ASSUME NEW x, NEW l \in Chains, NEW h, NEW j \in 0 .. (Len(Keys) - 1), NEW k \in 1 .. j
  PROVE  Passed(x, l, h, j, Others(l)[k])
  <1>1. j # 0 /\ k \in 1 .. (Len(Keys) - 1) /\ \E i \in 1 .. j : Others(l)[i] = Others(l)[k]
    BY KeysFacts
  <1>2. Others(l)[k] \in Chains
    BY <1>1, OthersFacts
  <1> QED
    BY <1>1, <1>2 DEF Mark, Passed

Adds(t, s, y) == t.out = s.out \o y

\* The length of two sequences put together.
LEMMA ConcatLen ==
  ASSUME NEW S, NEW a \in Seq(S), NEW b \in Seq(S)
  PROVE  Len(a \o b) = Len(a) + Len(b) /\ Len(a) \in Nat /\ Len(b) \in Nat
  BY ConcatProperties

\* Stopping half-way adds a part of the blocks that come next.
LEMMA GoingHalfway ==
  ASSUME NEW o \in Seq(Pairs), NEW r, NEW x, NEW l \in Chains, LaidOut(o, r, l, x),
         NEW q \in Nat, NEW s \in Run, NEW h \in x.lo .. (x.hi - 1),
         NEW k \in 1 .. (Len(Keys) - 1),
         Going(o, x, l, q, s, h, k - 1), s.ok, NEW c, c = Others(l)[k],
         s.last[c] < r[h + 1][c], NEW i \in s.last[c] .. r[h + 1][c],
         NEW t, t.last = s.last, Adds(t, s, Blocks(c, s.last[c], i)), ~t.ok
  PROVE  Going(o, x, l, q, t, h, k - 1)
  <1> DEFINE from == s.last[c]
             y == Blocks(c, from, i)
             p == x.pos[<<h, k - 1>>]
  <1>1. /\ Place(x, h, k - 1) /\ c \in Chains \ {l}
        /\ Mark(x, l, h, k - 1)[c] = x.at[h][c]
    <2>1. OtherRises(x, l, h, k, c)
      BY MarkOther
    <2> QED
      BY <2>1 DEF OtherRises
  <1>2. /\ s.last = Mark(x, l, h, k - 1) /\ Segment(o, q, s.out) /\ p = q + Len(s.out)
        /\ s.out \in Seq(Pairs) /\ Len(s.out) \in Nat
    BY DEF Going, Run
  <1>3. from = x.at[h][c] /\ from \in Nat /\ r[h + 1][c] \in Nat /\ x.at[h + 1][c] = r[h + 1][c]
    <2>1. from \in Nat
      BY <1>1 DEF Run
    <2>2. from = x.at[h][c]
      BY <1>1, <1>2
    <2>3. /\ r[h + 1][c] \in Nat
          /\ x.at[h + 1][c] = IF x.at[h][c] < r[h + 1][c] THEN r[h + 1][c] ELSE x.at[h][c]
      BY <1>1 DEF LaidOut
    <2> QED
      BY <2>1, <2>2, <2>3
  <1>4. Segment(o, p, Blocks(c, from, r[h + 1][c]))
    <2>1. Segment(o, x.pos[<<h, k - 1>>], Blocks(c, x.at[h][c], x.at[h + 1][c]))
      BY DEF LaidOut
    <2> QED
      BY <1>3, <2>1
  <1>5. p \in Nat /\ c \in Chains /\ i \in Nat /\ Len(o) \in Nat
    <2>1. p \in Nat
      BY <1>1, PlaceFacts
    <2>2. i \in Nat
      BY ONLY <1>3, i \in from .. r[h + 1][c]
    <2>3. Len(o) \in Nat
      BY ONLY o \in Seq(Pairs)
    <2> QED
      BY ONLY <1>1, <2>1, <2>2, <2>3, Zenon
  <1>6. t.last = s.last /\ t.out = s.out \o y /\ ~t.ok
    BY DEF Adds
  <1> HIDE DEF from, p
  <1>7. Segment(o, p, y) /\ y \in Seq(Pairs) /\ Len(y) \in Nat
    <2>1. i \in from .. r[h + 1][c]
      BY DEF from
    <2>2. Segment(o, p, y)
      BY <1>3, <1>4, <1>5, <2>1, SegmentOfBlocks
    <2>3. y \in Seq(Pairs)
      BY <1>3, <1>5, BlocksFacts
    <2> QED
      BY <2>2, <2>3
  <1> HIDE DEF y
  <1>8. Segment(o, q, s.out \o y)
    BY <1>2, <1>7, SegmentConcat
  <1>9. Len(s.out \o y) = Len(s.out) + Len(y)
    BY <1>2, <1>7, ConcatLen
  <1>10. x.pos[<<h, k - 1>>] <= q + Len(t.out)
    <2>1. p <= q + Len(t.out)
      <3>1. p = q + Len(s.out) /\ Len(s.out) \in Nat /\ Len(y) \in Nat
            /\ Len(t.out) = Len(s.out) + Len(y)
        BY <1>2, <1>6, <1>7, <1>9
      <3> QED
        BY <3>1
    <2> QED
      BY <2>1 DEF p
  <1> QED
    BY <1>1, <1>2, <1>6, <1>8, <1>10 DEF Going

\* Bringing a chain to the height referenced leads to the next place.
LEMMA GoingOn ==
  ASSUME NEW o \in Seq(Pairs), NEW r, NEW x, NEW l \in Chains, LaidOut(o, r, l, x),
         NEW q \in Nat, NEW s \in Run, NEW h \in x.lo .. (x.hi - 1),
         NEW k \in 1 .. (Len(Keys) - 1),
         Going(o, x, l, q, s, h, k - 1), s.ok, NEW c, c = Others(l)[k],
         s.last[c] < r[h + 1][c],
         NEW t, t.last = Raise(s.last, c, r[h + 1][c]),
         Adds(t, s, Blocks(c, s.last[c], r[h + 1][c]))
  PROVE  Going(o, x, l, q, t, h, k)
  <1> DEFINE from == s.last[c]
             to == r[h + 1][c]
             y == Blocks(c, from, to)
             p == x.pos[<<h, k - 1>>]
  <1>1. /\ Place(x, h, k - 1) /\ Place(x, h, k) /\ c \in Chains \ {l}
        /\ Mark(x, l, h, k - 1)[c] = x.at[h][c]
        /\ Mark(x, l, h, k) = Raise(Mark(x, l, h, k - 1), c, x.at[h + 1][c])
    <2>1. OtherRises(x, l, h, k, c)
      BY MarkOther
    <2> QED
      BY <2>1 DEF OtherRises
  <1>2. /\ s.last = Mark(x, l, h, k - 1) /\ Segment(o, q, s.out) /\ p = q + Len(s.out)
        /\ s.out \in Seq(Pairs) /\ Len(s.out) \in Nat
    BY DEF Going, Run
  <1>3. from = x.at[h][c] /\ from \in Nat /\ to \in Nat /\ x.at[h + 1][c] = to /\ from < to
    <2>1. from \in Nat
      BY <1>1 DEF Run
    <2>2. from = x.at[h][c]
      BY <1>1, <1>2
    <2>3. /\ to \in Nat
          /\ x.at[h + 1][c] = IF x.at[h][c] < to THEN to ELSE x.at[h][c]
      BY <1>1 DEF LaidOut
    <2> QED
      BY <2>1, <2>2, <2>3
  <1>4. Segment(o, p, y) /\ x.pos[<<h, k>>] = p + (to - from)
    <2>1. /\ Segment(o, x.pos[<<h, k - 1>>], Blocks(c, x.at[h][c], x.at[h + 1][c]))
          /\ x.pos[<<h, k>>] = x.pos[<<h, k - 1>>] + (x.at[h + 1][c] - x.at[h][c])
      BY DEF LaidOut
    <2> QED
      BY <1>3, <2>1
  <1>5. p \in Nat /\ c \in Chains
    <2>1. p \in Nat
      BY <1>1, PlaceFacts
    <2> QED
      BY <1>1, <2>1
  <1>6. t.last = Raise(s.last, c, to) /\ t.out = s.out \o y
    BY Zenon DEF Adds
  <1> HIDE DEF from, p, to
  <1>7. y \in Seq(Pairs) /\ Len(y) = to - from
    <2>1. from <= to
      BY ONLY <1>3
    <2>2. /\ y \in Seq(Pairs)
          /\ Len(y) = IF from <= to THEN to - from ELSE 0
      BY ONLY <1>3, <1>5, BlocksFacts
    <2> HIDE DEF y
    <2> QED
      BY ONLY <2>1, <2>2
  <1> HIDE DEF y
  <1>8. Segment(o, q, s.out \o y)
    BY <1>2, <1>4, <1>7, SegmentConcat
  <1>9. Len(s.out \o y) = Len(s.out) + (to - from)
    <2>1. Len(y) \in Nat
      BY <1>7
    <2>2. Len(s.out \o y) = Len(s.out) + Len(y)
      BY <1>2, <1>7, ConcatLen
    <2> QED
      BY <1>7, <2>2
  <1>10. t.last = Mark(x, l, h, k)
    BY <1>1, <1>2, <1>3, <1>6
  <1>11. x.pos[<<h, k>>] = q + Len(t.out)
    <2>1. Len(t.out) = Len(s.out) + (to - from)
      BY <1>6, <1>9
    <2>2. p = q + Len(s.out) /\ Len(s.out) \in Nat /\ x.pos[<<h, k>>] = p + (to - from)
          /\ from \in Nat /\ to \in Nat
      BY <1>2, <1>3, <1>4
    <2> QED
      BY <2>1, <2>2
  <1>12. q + Len(t.out) \in Nat
    BY <1>2, <1>3, <1>4, <1>11
  <1> QED
    BY <1>1, <1>6, <1>8, <1>10, <1>11, <1>12 DEF Going

\* The commit is below the leader's block at height h + 1: past the first k of
\* the other chains, unless it has stopped.
Reached(o, x, l, q, s, h, k) ==
  \E j \in 0 .. (Len(Keys) - 1) : Going(o, x, l, q, s, h, j) /\ (s.ok => k <= j)

\* One of the other chains: the commit goes past it, or stops.
LEMMA RefReaches ==
  ASSUME NEW o \in Seq(Pairs), NEW r, NEW x, NEW l \in Chains, LaidOut(o, r, l, x),
         NEW q \in Nat, NEW s \in Run, NEW h \in x.lo .. (x.hi - 1),
         NEW k \in 1 .. (Len(Keys) - 1), Reached(o, x, l, q, s, h, k - 1),
         NEW c, c = Others(l)[k], NEW have, NEW t, Outcome(have, s, t, c, r[h + 1][c])
  PROVE  Reached(o, x, l, q, t, h, k)
  <1> DEFINE m == Len(Keys) - 1
             from == s.last[c]
             to == r[h + 1][c]
  <1>1. PICK j \in 0 .. m : Going(o, x, l, q, s, h, j) /\ (s.ok => k - 1 <= j)
    BY DEF Reached
  <1>2. m \in Nat /\ k \in Nat /\ j \in Nat /\ k \in 0 .. m /\ k - 1 \in 0 .. m
    <2>1. m \in Nat
      BY KeysFacts
    <2> QED
      BY <2>1
  <1>3. /\ Place(x, h, k - 1) /\ Place(x, h, k) /\ c \in Chains \ {l}
        /\ Mark(x, l, h, k - 1)[c] = x.at[h][c]
        /\ Mark(x, l, h, k) = Raise(Mark(x, l, h, k - 1), c, x.at[h + 1][c])
    <2>1. OtherRises(x, l, h, k, c)
      BY MarkOther
    <2> QED
      BY <2>1 DEF OtherRises
  <1>4. /\ to \in Nat
        /\ x.at[h + 1][c] = IF x.at[h][c] < to THEN to ELSE x.at[h][c]
    BY <1>3 DEF LaidOut
  <1>5. x.pos[<<h, k>>] = x.pos[<<h, k - 1>>] + (x.at[h + 1][c] - x.at[h][c])
    BY DEF LaidOut
  <1>6. ASSUME k <= j PROVE from = x.at[h + 1][c] /\ to <= from
    <2>1. k \in 1 .. j
      BY <1>2, <1>6
    <2>2. Mark(x, l, h, j)[c] = x.at[h + 1][c]
      <3>1. Passed(x, l, h, j, Others(l)[k])
        BY <2>1, MarkPassed
      <3> QED
        BY <3>1 DEF Passed
    <2>3. from = x.at[h + 1][c]
      BY <1>1, <2>2 DEF Going
    <2>4. from \in Nat
      BY <1>3 DEF Run
    <2>5. Mark(x, l, h, k - 1) \in [Chains -> Nat]
      BY <1>3, PlaceFacts
    <2> DEFINE a0 == x.at[h][c]
               a1 == x.at[h + 1][c]
    <2>6. a0 \in Nat
      BY <1>3, <2>5
    <2>7. to \in Nat /\ a1 = (IF a0 < to THEN to ELSE a0) /\ from = a1
      BY ONLY <1>4, <2>3, Zenon
    <2> HIDE DEF from, to, a0, a1
    <2>8. from = a1 /\ to <= from
      BY ONLY <2>4, <2>6, <2>7
    <2> QED
      BY ONLY <2>8, Zenon DEF a1
  <1> SUFFICES \E i \in 0 .. m : Going(o, x, l, q, t, h, i) /\ (t.ok => k <= i)
    BY DEF Reached
  <1>7. ASSUME ~t.ok, t.last = s.last, t.out = s.out
        PROVE  Going(o, x, l, q, t, h, j)
    BY <1>1, <1>7 DEF Going
  <1>8. CASE t = [s EXCEPT !.ok = FALSE]
    <2>1. ~t.ok /\ t.last = s.last /\ t.out = s.out
      BY <1>8 DEF Run
    <2> QED
      BY <1>7, <2>1
  <1>9. CASE t = s /\ (s.ok => to <= from)
    <2>1. CASE ~s.ok
      BY <1>1, <1>9, <2>1
    <2>2. CASE s.ok /\ k <= j
      BY <1>1, <1>9, <2>2
    <2>3. CASE s.ok /\ ~(k <= j)
      <3>1. j = k - 1
        BY <1>1, <1>2, <2>3
      <3>2. s.last = Mark(x, l, h, k - 1) /\ from = x.at[h][c]
        BY <1>1, <1>3, <3>1 DEF Going
      <3>3. s.last \in [Chains -> Nat] /\ from \in Nat
        BY <1>3 DEF Run
      <3>4. x.at[h + 1][c] = from
        <4>1. to <= from
          BY <1>9, <2>3
        <4> HIDE DEF from, to
        <4> QED
          BY <1>4, <3>2, <3>3, <4>1
      <3>5. Mark(x, l, h, k) = s.last
        <4>1. Raise(s.last, c, from) = s.last
          BY <3>3 DEF Raise
        <4> QED
          BY <1>3, <3>2, <3>4, <4>1
      <3>6. x.pos[<<h, k>>] = x.pos[<<h, k - 1>>]
        <4>1. x.pos[<<h, k - 1>>] \in Nat
          BY <1>3, PlaceFacts
        <4>2. x.at[h + 1][c] - x.at[h][c] = 0
          <5> HIDE DEF from
          <5> QED
            BY <3>2, <3>3, <3>4
        <4> QED
          BY <1>5, <4>1, <4>2
      <3>7. Going(o, x, l, q, t, h, k)
        BY <1>1, <1>3, <1>9, <3>1, <3>5, <3>6 DEF Going
      <3> QED
        BY <1>2, <3>7
    <2> QED
      BY <2>1, <2>2, <2>3
  <1>10. ASSUME s.ok, from < to PROVE j = k - 1
    <2>1. from \in Nat
      BY <1>3 DEF Run
    <2>2. ~(k <= j)
      <3> HIDE DEF from, to
      <3> QED
        BY <1>4, <1>6, <1>10, <2>1
    <2> QED
      BY <1>1, <1>2, <1>10, <2>2
  <1>11. ASSUME s.ok, from < to, NEW i \in from .. to,
                t = [s EXCEPT !.out = @ \o Blocks(c, from, i), !.ok = FALSE]
         PROVE  Going(o, x, l, q, t, h, j) /\ ~t.ok
    <2>1. Going(o, x, l, q, s, h, k - 1) /\ j = k - 1
      BY <1>1, <1>10, <1>11
    <2>2. t.last = s.last /\ Adds(t, s, Blocks(c, from, i)) /\ ~t.ok
      BY <1>11 DEF Run, Adds
    <2>3. Going(o, x, l, q, t, h, k - 1)
      BY <1>11, <2>1, <2>2, GoingHalfway
    <2> QED
      BY <2>1, <2>2, <2>3
  <1>12. ASSUME s.ok, from < to,
                t = [s EXCEPT !.out = @ \o Blocks(c, from, to), !.last[c] = to]
         PROVE  Going(o, x, l, q, t, h, k)
    <2>1. Going(o, x, l, q, s, h, k - 1)
      BY <1>1, <1>10, <1>12
    <2>2. t.last = Raise(s.last, c, to) /\ Adds(t, s, Blocks(c, from, to))
      BY <1>12 DEF Run, Adds, Raise
    <2> QED
      BY <1>12, <2>1, <2>2, GoingOn
  <1> QED
    <2>1. \/ t = s /\ (s.ok => to <= from)
          \/ t = [s EXCEPT !.ok = FALSE]
          \/ s.ok /\ from < to
             /\ \E i \in from .. to :
                  t = [s EXCEPT !.out = @ \o Blocks(c, from, i), !.ok = FALSE]
          \/ s.ok /\ from < to
             /\ t = [s EXCEPT !.out = @ \o Blocks(c, from, to), !.last[c] = to]
      BY DEF Outcome
    <2>2. CASE s.ok /\ from < to
               /\ \E i \in from .. to :
                    t = [s EXCEPT !.out = @ \o Blocks(c, from, i), !.ok = FALSE]
      <3>1. Going(o, x, l, q, t, h, j) /\ ~t.ok
        BY <1>11, <2>2
      <3> QED
        BY <1>1, <3>1
    <2>3. CASE s.ok /\ from < to
               /\ t = [s EXCEPT !.out = @ \o Blocks(c, from, to), !.last[c] = to]
      <3>1. Going(o, x, l, q, t, h, k)
        BY <1>12, <2>3
      <3> QED
        BY <1>2, <3>1
    <2> QED
      BY <1>8, <1>9, <2>1, <2>2, <2>3

\* After the blocks that the leader's block at height h + 1 references.
LEMMA RefsReach ==
  ASSUME NEW o \in Seq(Pairs), NEW x, NEW l \in Chains,
         LaidOut(o, references[epoch + 1], l, x),
         NEW q \in Nat, NEW s \in Run, NEW h \in x.lo .. (x.hi - 1),
         Reached(o, x, l, q, s, h, 0), HasRefs(h + 1, l),
         NEW st, NEW cert, NEW g, RefValues(g, st, cert, l, h + 1, s)
  PROVE  Reached(o, x, l, q, g[Len(Keys) - 1], h, Len(Keys) - 1)
  <1> DEFINE m == Len(Keys) - 1
             r == references[epoch + 1]
             C == {k \in 0 .. m : Reached(o, x, l, q, g[k], h, k)}
  <1>1. m \in Nat
    BY KeysFacts
  <1>2. /\ g \in [0 .. m -> Run] /\ g[0] = s
        /\ \A k \in 1 .. m : g[k] = commit_ref(st, cert, <<l, h + 1>>, g[k - 1], Others(l)[k])
    BY DEF RefValues
  <1>3. \A k \in 1 .. m : Others(l)[k] \in Chains \ {l}
    BY OthersFacts
  <1> HIDE DEF m, r
  <1>4. 0 \in C
    BY <1>1, <1>2
  <1>5. ASSUME NEW k \in 0 .. (m - 1), k \in C PROVE k + 1 \in C
    <2> DEFINE c == Others(l)[k + 1]
               t == g[k + 1]
    <2>1. k + 1 \in 1 .. m /\ k + 1 \in 0 .. m /\ (k + 1) - 1 = k /\ k \in 0 .. m
      BY <1>1
    <2>2. g[k] \in Run /\ c \in Chains \ {l} /\ t = commit_ref(st, cert, <<l, h + 1>>, g[k], c)
      BY <1>2, <1>3, <2>1
    <2>3. Reached(o, x, l, q, g[k], h, (k + 1) - 1)
      BY <1>5, <2>1
    <2> HIDE DEF c, t
    <2>4. Ref(h + 1, c) \in Nat /\ Ref(h + 1, c) = r[h + 1][c]
      BY <2>2 DEF HasRefs, Ref, r
    <2>5. Outcome(st \cap cert, g[k], t, c, Ref(h + 1, c))
      BY <2>2, <2>4, CommitRefCases
    <2>6. Outcome(st \cap cert, g[k], t, c, r[h + 1][c])
      BY <2>4, <2>5
    <2>7. LaidOut(o, r, l, x)
      BY DEF r
    <2>8. k + 1 \in 1 .. (Len(Keys) - 1) /\ c = Others(l)[k + 1]
      BY <2>1 DEF m, c
    <2>9. Reached(o, x, l, q, t, h, k + 1)
      BY <2>2, <2>3, <2>6, <2>7, <2>8, RefReaches
    <2> QED
      BY <2>1, <2>9 DEF t
  <1>6. C \in SUBSET (0 .. m)
    OBVIOUS
  <1> HIDE DEF C
  <1>7. C = 0 .. m
    BY <1>1, <1>4, <1>5, <1>6, Induct
  <1>8. m \in C
    BY <1>1, <1>7
  <1> QED
    BY <1>8 DEF C, m

\* The leader's block itself follows.
LEMMA GoingLeader ==
  ASSUME NEW o \in Seq(Pairs), NEW r, NEW x, NEW l \in Chains, LaidOut(o, r, l, x),
         NEW q \in Nat, NEW s \in Run, NEW h \in x.lo .. (x.hi - 1),
         Going(o, x, l, q, s, h, Len(Keys) - 1), s.ok,
         NEW t, t.last = Raise(s.last, l, h + 1), Adds(t, s, << <<l, h + 1>> >>)
  PROVE  Going(o, x, l, q, t, h + 1, 0)
  <1> DEFINE m == Len(Keys) - 1
             y == << <<l, h + 1>> >>
             p == x.pos[<<h, m>>]
  <1>1. /\ Place(x, h, m) /\ Place(x, h + 1, 0)
        /\ Mark(x, l, h + 1, 0) = Raise(Mark(x, l, h, m), l, h + 1)
    <2>1. LeaderRises(x, l, h, m)
      BY MarkLeader
    <2> QED
      BY <2>1 DEF LeaderRises
  <1>2. /\ s.last = Mark(x, l, h, m) /\ Segment(o, q, s.out) /\ p = q + Len(s.out)
        /\ s.out \in Seq(Pairs) /\ Len(s.out) \in Nat
    BY DEF Going, Run
  <1>3. p \in Nat /\ h \in Nat
    BY <1>1, PlaceFacts
  <1>4. p + 1 <= Len(o) /\ o[p + 1] = <<l, h + 1>> /\ x.pos[<<h + 1, 0>>] = p + 1
    BY DEF LaidOut
  <1>5. t.out = s.out \o y
    BY DEF Adds
  <1> HIDE DEF m, p
  <1>6. y \in Seq(Pairs) /\ Len(y) = 1 /\ y[1] = <<l, h + 1>>
    <2>1. <<l, h + 1>> \in Pairs
      BY <1>3 DEF Pairs
    <2> QED
      BY <2>1
  <1> HIDE DEF y
  <1>7. Segment(o, p, y)
    <2>1. \A i \in 1 .. Len(y) : i = 1
      BY <1>6
    <2> QED
      BY <1>3, <1>4, <1>6, <2>1 DEF Segment
  <1>8. Segment(o, q, s.out \o y)
    BY <1>2, <1>6, <1>7, SegmentConcat
  <1>9. Len(s.out \o y) = Len(s.out) + Len(y)
    <2>1. s.out \in Seq(Pairs) /\ y \in Seq(Pairs)
      BY <1>2, <1>6
    <2> QED
      BY <2>1, ConcatLen
  <1>10. x.pos[<<h + 1, 0>>] = q + Len(t.out)
    <2>1. Len(t.out) = Len(s.out) + 1
      BY <1>5, <1>6, <1>9
    <2> QED
      BY <1>2, <1>4, <2>1
  <1>11. x.pos[<<h + 1, 0>>] \in Nat
    BY <1>3, <1>4
  <1>12. t.last = Mark(x, l, h + 1, 0)
    BY <1>1, <1>2
  <1> QED
    BY <1>1, <1>5, <1>8, <1>10, <1>11, <1>12 DEF Going

\* The commit has come to the leader's block at height h, unless it has stopped.
Arrived(o, x, l, q, s, h) ==
  \E k \in x.lo .. x.hi, j \in 0 .. (Len(Keys) - 1) :
    Going(o, x, l, q, s, k, j) /\ (s.ok => k = h)

\* A block of the leader: the commit arrives at it, or stops.
LEMMA NextArrives ==
  ASSUME NEW o \in Seq(Pairs), NEW x, NEW l \in Chains,
         LaidOut(o, references[epoch + 1], l, x),
         NEW q \in Nat, NEW s \in Run, NEW h \in x.lo .. (x.hi - 1),
         Arrived(o, x, l, q, s, h), HasRefs(h + 1, l),
         NEW st, NEW cert, Within(s.out, st \cap cert)
  PROVE  Arrived(o, x, l, q, commit_next(st, cert, s, <<l, h + 1>>), h + 1)
  <1> DEFINE m == Len(Keys) - 1
             t == commit_next(st, cert, s, <<l, h + 1>>)
  <1>1. PICK k \in x.lo .. x.hi, j \in 0 .. m : Going(o, x, l, q, s, k, j) /\ (s.ok => k = h)
    BY DEF Arrived
  <1>2. PICK g : /\ RefValues(g, st, cert, l, h + 1, s)
                 /\ NextOutcome(st \cap cert, s, t, g[Len(Keys) - 1], l, h + 1)
    BY CommitNextCases
  <1> DEFINE u == g[m]
  <1>3. m \in Nat /\ m \in 0 .. m /\ 0 \in 0 .. m
    BY KeysFacts
  <1>4. u \in Run
    BY <1>2, <1>3 DEF RefValues
  <1>5. x.lo \in Nat /\ x.hi \in Nat /\ h \in x.lo .. x.hi /\ h + 1 \in x.lo .. x.hi /\ h # h + 1
    <2>1. x.lo \in Nat /\ x.hi \in Nat
      BY DEF LaidOut
    <2> QED
      BY <2>1
  <1>6. NextOutcome(st \cap cert, s, t, u, l, h + 1)
    BY <1>2
  <1>7. ASSUME s.ok
        PROVE  /\ \E i \in 0 .. m : Going(o, x, l, q, u, h, i) /\ (u.ok => m <= i)
               /\ u.ok => Going(o, x, l, q, u, h, m)
    <2>1. Reached(o, x, l, q, s, h, 0)
      BY <1>1, <1>7 DEF Reached
    <2>2. Reached(o, x, l, q, u, h, m)
      BY <1>2, <2>1, RefsReach
    <2> HIDE DEF u, m
    <2>3. PICK i \in 0 .. (Len(Keys) - 1) : Going(o, x, l, q, u, h, i) /\ (u.ok => m <= i)
      BY <2>2 DEF Reached
    <2>4. m <= i => i = m
      BY <1>3 DEF m
    <2> QED
      BY <2>3, <2>4 DEF m
  <1> HIDE DEF t, u, m
  <1>8. CASE ~s.ok
    <2>1. t = s
      BY <1>6, <1>8 DEF NextOutcome
    <2> QED
      BY <1>1, <1>8, <2>1 DEF Arrived, t, m
  <1>9. CASE s.ok /\ <<l, h + 1>> \notin st \cap cert
    <2>1. t = [s EXCEPT !.ok = FALSE]
      BY <1>6, <1>9 DEF NextOutcome
    <2>2. ~t.ok /\ t.last = s.last /\ t.out = s.out
      BY <2>1 DEF Run
    <2>3. Going(o, x, l, q, t, k, j)
      BY <1>1, <2>2 DEF Going
    <2> QED
      BY <1>1, <2>2, <2>3 DEF Arrived, t, m
  <1>10. CASE s.ok /\ <<l, h + 1>> \in st \cap cert /\ ~u.ok
    <2>1. t = u
      BY <1>6, <1>10 DEF NextOutcome
    <2>2. PICK i \in 0 .. m : Going(o, x, l, q, t, h, i)
      BY <1>7, <1>10, <2>1
    <2> QED
      BY <1>5, <1>10, <2>1, <2>2 DEF Arrived, t, m
  <1>11. CASE s.ok /\ <<l, h + 1>> \in st \cap cert /\ u.ok
    <2>1. t = [u EXCEPT !.out = Append(@, <<l, h + 1>>), !.last[l] = h + 1]
      BY <1>6, <1>11 DEF NextOutcome
    <2>2. t.last = Raise(u.last, l, h + 1) /\ Adds(t, u, << <<l, h + 1>> >>)
      <3>1. t.last = Raise(u.last, l, h + 1) /\ t.out = Append(u.out, <<l, h + 1>>)
        BY <1>4, <2>1 DEF Run, Raise
      <3>2. u.out \in Seq(Pairs) /\ <<l, h + 1>> \in Pairs
        BY <1>4, <1>5 DEF Run, Pairs
      <3>3. Append(u.out, <<l, h + 1>>) = u.out \o << <<l, h + 1>> >>
        BY <3>2, AppendIsConcat
      <3> QED
        BY <3>1, <3>3 DEF Adds
    <2>3. Going(o, x, l, q, u, h, Len(Keys) - 1)
      BY <1>7, <1>11 DEF m
    <2>4. Going(o, x, l, q, t, h + 1, 0)
      BY <1>4, <1>11, <2>2, <2>3, GoingLeader
    <2> QED
      BY <1>3, <1>5, <2>4 DEF Arrived, t, m
  <1> QED
    BY <1>8, <1>9, <1>10, <1>11

\* At a place the leader's chain has the height of the place.
LEMMA MarkOwn ==
  ASSUME NEW o, NEW r, NEW l \in Chains, NEW x, LaidOut(o, r, l, x), NEW h, NEW j,
         Place(x, h, j)
  PROVE  Mark(x, l, h, j)[l] = h
  <1>1. h \in x.lo .. x.hi /\ j \in 0 .. (Len(Keys) - 1)
    BY DEF Place
  <1>2. x.at[h][l] = h
    BY <1>1 DEF LaidOut
  <1>3. CASE j = 0
    BY <1>2, <1>3 DEF Mark
  <1>4. CASE j # 0
    <2>1. \A i \in 1 .. j : i \in 1 .. (Len(Keys) - 1)
      BY <1>1, KeysFacts
    <2>2. ~ \E i \in 1 .. j : Others(l)[i] = l
      BY <2>1, OthersFacts
    <2> QED
      BY <1>2, <1>4, <2>2 DEF Mark
  <1> QED
    BY <1>3, <1>4

\* The whole of a commit, from the place where the chains are.
LEMMA PrevArrives ==
  ASSUME NEW o \in Seq(Pairs), NEW x, NEW l \in Chains,
         LaidOut(o, references[epoch + 1], l, x),
         NEW h0, NEW j0, Place(x, h0, j0), last = Mark(x, l, h0, j0),
         x.pos[<<h0, j0>>] <= Len(o),
         NEW to \in Nat, to <= x.hi, \A h \in (last[l] + 1) .. to : HasRefs(h, l),
         NEW st, NEW cert
  PROVE  LET s == commit_prev_block(st, cert, l, to)
         IN  /\ s \in Run /\ Within(s.out, st \cap cert)
             /\ Arrived(o, x, l, x.pos[<<h0, j0>>], s, IF h0 <= to THEN to ELSE h0)
  <1> DEFINE n == Ahead(l, to)
             q == x.pos[<<h0, j0>>]
             s == commit_prev_block(st, cert, l, to)
  <1>1. last \in [Chains -> Nat] /\ q \in Nat /\ h0 \in Nat
    BY PlaceFacts
  <1>2. last[l] = h0
    BY MarkOwn
  <1>3. PICK g : PrevValues(g, st, cert, l, to)
    BY <1>1, PrevFold
  <1>4. n \in Nat /\ n = IF h0 <= to THEN to - h0 ELSE 0
    <2>1. Len(Blocks(l, h0, to)) = IF h0 <= to THEN to - h0 ELSE 0
      BY <1>1, BlocksFacts
    <2>2. n = IF h0 <= to THEN to - h0 ELSE 0
      BY <1>2, <2>1 DEF Ahead
    <2> HIDE DEF n
    <2> QED
      BY <1>1, <2>2
  <1>5. /\ g \in [0 .. n -> Run] /\ g[0] = Begin /\ g[n] = s
        /\ \A k \in 1 .. n : g[k] = commit_next(st, cert, g[k - 1], <<l, h0 + k>>)
        /\ \A k \in 0 .. n : Within(g[k].out, st \cap cert)
    BY <1>2, <1>3 DEF PrevValues
  <1> DEFINE C == {k \in 0 .. n : Arrived(o, x, l, q, g[k], h0 + k)}
  <1> HIDE DEF n, s, q
  <1>6. 0 \in C
    <2>1. Begin.last = last /\ Begin.out = <<>> /\ Begin.ok = TRUE
      BY DEF Begin
    <2>2. Segment(o, q, Begin.out)
      <3>1. Len(<<>>) = 0
        OBVIOUS
      <3>2. q <= Len(o)
        BY DEF q
      <3> QED
        BY <1>1, <2>1, <3>1, <3>2 DEF Segment
    <2>3. q + Len(Begin.out) = q
      BY <1>1, <2>1
    <2>4. Going(o, x, l, q, Begin, h0, j0)
      BY <1>1, <2>1, <2>2, <2>3 DEF Going, q
    <2>5. h0 \in x.lo .. x.hi /\ j0 \in 0 .. (Len(Keys) - 1)
      BY DEF Place
    <2>6. h0 + 0 = h0
      BY <1>1
    <2> QED
      BY <1>4, <1>5, <2>4, <2>5, <2>6 DEF Arrived
  <1>7. ASSUME NEW k \in 0 .. (n - 1), k \in C PROVE k + 1 \in C
    <2> DEFINE h == h0 + k
    <2>1. k + 1 \in 1 .. n /\ k + 1 \in 0 .. n /\ (k + 1) - 1 = k /\ k \in 0 .. n
          /\ h + 1 = h0 + (k + 1)
      BY <1>1, <1>4
    <2>2. h \in x.lo .. (x.hi - 1) /\ h + 1 \in (last[l] + 1) .. to
      <3>1. x.lo \in Nat /\ x.hi \in Nat
        BY DEF LaidOut
      <3>2. h0 \in x.lo .. x.hi
        BY DEF Place
      <3> QED
        BY <1>1, <1>2, <1>4, <3>1, <3>2
    <2>3. Arrived(o, x, l, q, g[k], h)
      BY <1>7
    <2>4. g[k] \in Run /\ Within(g[k].out, st \cap cert)
          /\ g[k + 1] = commit_next(st, cert, g[k], <<l, h + 1>>)
      BY <1>5, <2>1
    <2> HIDE DEF h
    <2>5. HasRefs(h + 1, l)
      BY <2>2
    <2>6. Arrived(o, x, l, q, g[k + 1], h + 1)
      BY <1>1, <2>2, <2>3, <2>4, <2>5, NextArrives
    <2> QED
      BY <2>1, <2>6
  <1>8. C \in SUBSET (0 .. n)
    OBVIOUS
  <1> HIDE DEF C
  <1>9. C = 0 .. n
    BY <1>4, <1>6, <1>7, <1>8, Induct
  <1>10. n \in 0 .. n /\ n \in C
    BY <1>4, <1>9
  <1>11. Arrived(o, x, l, q, s, h0 + n)
    BY <1>5, <1>10 DEF C
  <1>12. h0 + n = IF h0 <= to THEN to ELSE h0
    BY <1>1, <1>4
  <1>13. s \in Run /\ Within(s.out, st \cap cert)
    BY <1>5, <1>10
  <1>14. Arrived(o, x, l, q, s, IF h0 <= to THEN to ELSE h0)
    BY <1>11, <1>12
  <1> QED
    BY <1>13, <1>14 DEF s, q

\* The application has seen the start of the order, at least to the place where
\* the chains are.
InStep(o, x, l, mark, y) ==
  /\ Segment(o, 0, y)
  /\ \E h \in x.lo .. x.hi, j \in 0 .. (Len(Keys) - 1) :
       Place(x, h, j) /\ mark = Mark(x, l, h, j) /\ x.pos[<<h, j>>] <= Len(y)

\* A commit that did not stop has come to the end of the epoch.
AtEnd(x, s, y) ==
  s.ok => s.last = x.at[x.hi] /\ x.pos[<<x.hi, 0>>] <= Len(y)

\* A commit keeps it so, and reaches the end of the epoch unless it stops.
LEMMA CommitInStep ==
  ASSUME NEW o \in Seq(Pairs), Distinct(o), NEW x, NEW l \in Chains,
         LaidOut(o, references[epoch + 1], l, x),
         sent \in Seq(Pairs), InStep(o, x, l, last, sent),
         NEW to \in Nat, to <= x.hi, \A h \in (last[l] + 1) .. to : HasRefs(h, l),
         NEW st, NEW cert
  PROVE  LET s == commit_prev_block(st, cert, l, to)
         IN  /\ InStep(o, x, l, s.last, Send(sent, s.out))
             /\ to = x.hi => AtEnd(x, s, Send(sent, s.out))
  <1> DEFINE s == commit_prev_block(st, cert, l, to)
             t == Send(sent, s.out)
  <1>1. PICK h0 \in x.lo .. x.hi, j0 \in 0 .. (Len(Keys) - 1) :
          Place(x, h0, j0) /\ last = Mark(x, l, h0, j0) /\ x.pos[<<h0, j0>>] <= Len(sent)
    BY DEF InStep
  <1> DEFINE q == x.pos[<<h0, j0>>]
             e == IF h0 <= to THEN to ELSE h0
  <1>2. q \in Nat /\ h0 \in Nat /\ x.hi \in Nat /\ x.lo \in Nat
    <2>1. q \in Nat /\ h0 \in Nat
      BY <1>1, PlaceFacts
    <2> QED
      BY <2>1 DEF LaidOut
  <1>3. Segment(o, 0, sent) /\ Len(sent) <= Len(o) /\ q <= Len(o)
    <2>1. Segment(o, 0, sent) /\ Len(sent) \in Nat /\ Len(o) \in Nat
      BY DEF InStep
    <2>2. Len(sent) <= Len(o)
      BY <2>1 DEF Segment
    <2> QED
      BY <1>1, <1>2, <2>1, <2>2
  <1>4. s \in Run /\ Arrived(o, x, l, q, s, e)
    BY <1>1, <1>3, PrevArrives
  <1> HIDE DEF s, q, e
  <1>5. PICK h \in x.lo .. x.hi, j \in 0 .. (Len(Keys) - 1) :
          Going(o, x, l, q, s, h, j) /\ (s.ok => h = e)
    BY <1>4 DEF Arrived
  <1>6. /\ Place(x, h, j) /\ s.last = Mark(x, l, h, j) /\ Segment(o, q, s.out)
        /\ x.pos[<<h, j>>] <= q + Len(s.out)
    BY <1>5 DEF Going
  <1>7. s.out \in Seq(Pairs)
    BY <1>4 DEF Run
  <1>8. t \in Seq(Pairs) /\ Segment(o, 0, t) /\ q + Len(s.out) <= Len(t)
    <2>1. q <= Len(sent)
      BY <1>1 DEF q
    <2>2. t \in Seq(Pairs)
      BY <1>7, SendExtends
    <2>3. Segment(o, 0, t) /\ q + Len(s.out) <= Len(t)
      BY <1>2, <1>3, <1>6, <1>7, <2>1, SendInOrder
    <2> QED
      BY <2>2, <2>3
  <1> HIDE DEF t
  <1>9. x.pos[<<h, j>>] <= Len(t)
    <2>1. x.pos[<<h, j>>] \in Nat
      BY <1>6, PlaceFacts
    <2>2. Len(s.out) \in Nat /\ Len(t) \in Nat
      BY ONLY <1>7, <1>8
    <2> DEFINE d == x.pos[<<h, j>>]
               a == Len(s.out)
               b == Len(t)
    <2>3. d <= q + a /\ q + a <= b /\ d \in Nat /\ a \in Nat /\ b \in Nat /\ q \in Nat
      BY ONLY <1>2, <1>6, <1>8, <2>1, <2>2, Zenon
    <2> HIDE DEF d, a, b
    <2>4. d <= b
      BY ONLY <2>3
    <2> QED
      BY ONLY <2>4, Zenon DEF d, b
  <1>10. InStep(o, x, l, s.last, t)
    BY <1>6, <1>8, <1>9 DEF InStep
  <1>11. ASSUME s.ok, to = x.hi
         PROVE  s.last = x.at[x.hi] /\ x.pos[<<x.hi, 0>>] <= Len(t)
    <2>1. h = x.hi
      BY <1>1, <1>2, <1>5, <1>11 DEF e
    <2>2. j = 0
      BY <1>6, <2>1 DEF Place
    <2> QED
      BY <1>6, <1>9, <2>1, <2>2 DEF Mark
  <1> QED
    BY <1>10, <1>11 DEF s, t, AtEnd

-----------------------------------------------------------------------------
\* A part of a is a part of a \o b, and b follows a.
LEMMA SegmentJoined ==
  ASSUME NEW S, NEW a \in Seq(S), NEW b \in Seq(S)
  PROVE  /\ \A q \in Nat : \A y \in Seq(S) : Segment(a, q, y) => Segment(a \o b, q, y)
         /\ \A q \in Nat : \A y \in Seq(S) : Segment(b, q, y) => Segment(a \o b, Len(a) + q, y)
         /\ Segment(a \o b, Len(a), b)
  <1>1. /\ Len(a) \in Nat /\ Len(b) \in Nat /\ Len(a \o b) = Len(a) + Len(b)
        /\ \A i \in 1 .. (Len(a) + Len(b)) :
             (a \o b)[i] = IF i <= Len(a) THEN a[i] ELSE b[i - Len(a)]
    BY ConcatProperties
  <1> DEFINE z == a \o b
  <1> HIDE DEF z
  <1>2. /\ Len(z) = Len(a) + Len(b)
        /\ \A i \in 1 .. (Len(a) + Len(b)) :
             z[i] = IF i <= Len(a) THEN a[i] ELSE b[i - Len(a)]
    BY <1>1 DEF z
  <1>3. ASSUME NEW q \in Nat, NEW y \in Seq(S), Segment(a, q, y) PROVE Segment(z, q, y)
    <2>1. Len(y) \in Nat /\ q + Len(y) <= Len(a) /\ \A i \in 1 .. Len(y) : y[i] = a[q + i]
      BY <1>3 DEF Segment
    <2>2. \A i \in 1 .. Len(y) : z[q + i] = a[q + i]
      BY <1>1, <1>2, <2>1
    <2> QED
      BY <1>1, <1>2, <2>1, <2>2 DEF Segment
  <1>4. ASSUME NEW q \in Nat, NEW y \in Seq(S), Segment(b, q, y)
        PROVE  Segment(z, Len(a) + q, y)
    <2>1. Len(y) \in Nat /\ q + Len(y) <= Len(b) /\ \A i \in 1 .. Len(y) : y[i] = b[q + i]
      BY <1>4 DEF Segment
    <2>2. ASSUME NEW i \in 1 .. Len(y) PROVE z[(Len(a) + q) + i] = b[q + i]
      <3>1. /\ (Len(a) + q) + i \in 1 .. (Len(a) + Len(b))
            /\ ~((Len(a) + q) + i <= Len(a))
            /\ ((Len(a) + q) + i) - Len(a) = q + i
        BY <1>1, <2>1
      <3> QED
        BY <1>2, <3>1
    <2>3. (Len(a) + q) + Len(y) <= Len(z)
      BY <1>1, <1>2, <2>1
    <2> QED
      BY <2>1, <2>2, <2>3 DEF Segment
  <1>5. Segment(z, Len(a), b)
    <2>1. Segment(b, 0, b)
      BY <1>1 DEF Segment
    <2>2. Segment(z, Len(a) + 0, b)
      BY <1>4, <2>1
    <2>3. Len(a) + 0 = Len(a)
      BY <1>1
    <2> QED
      BY <2>2, <2>3
  <1> QED
    BY <1>3, <1>4, <1>5 DEF z

\* Where each of the sequences in seqs is in the flattened one.
Offsets(p, f, seqs) ==
  /\ p \in [0 .. Len(seqs) -> Nat]
  /\ p[0] = 0 /\ p[Len(seqs)] = Len(f)
  /\ \A i \in 1 .. Len(seqs) :
       p[i] = p[i - 1] + Len(seqs[i]) /\ Segment(f, p[i - 1], seqs[i])

\* FlattenSeq puts the sequences one after the other.
LEMMA FlattenFacts ==
  ASSUME NEW S, NEW seqs \in Seq(Seq(S))
  PROVE  FlattenSeq(seqs) \in Seq(S) /\ \E p : Offsets(p, FlattenSeq(seqs), seqs)
  <1> DEFINE n == Len(seqs)
             A == Seq(S)
             Next1(k, u) == IF k = 1 THEN seqs[1] ELSE u \o seqs[k]
             step == [w \in (1 .. n) \X A |-> Next1(w[1], w[2])]
             Eq(f) == f = [i \in 1 .. n |-> IF i = 1 THEN seqs[i] ELSE f[i - 1] \o seqs[i]]
  <1>1. n \in Nat /\ \A i \in 1 .. n : seqs[i] \in A
    OBVIOUS
  <1>2. CASE n = 0
    <2>1. seqs = <<>>
      BY <1>2
    <2>2. FlattenSeq(seqs) = <<>>
      BY <1>2, <2>1 DEF FlattenSeq
    <2> DEFINE p == [i \in 0 .. n |-> 0]
    <2>3. p \in [0 .. Len(seqs) -> Nat] /\ p[0] = 0 /\ p[Len(seqs)] = 0
      BY <1>2
    <2>4. 1 .. Len(seqs) = {} /\ Len(<<>>) = 0 /\ <<>> \in Seq(S)
      BY <1>2
    <2> HIDE DEF p
    <2>5. Offsets(p, FlattenSeq(seqs), seqs)
      BY <2>2, <2>3, <2>4 DEF Offsets
    <2> QED
      BY <2>2, <2>4, <2>5
  <1>3. CASE n # 0
    <2>1. ASSUME NEW k \in 1 .. n, NEW u \in A PROVE Next1(k, u) \in A
      <3>1. seqs[1] \in A /\ seqs[k] \in A
        BY <1>1
      <3>2. u \o seqs[k] \in A
        BY <3>1, ConcatProperties
      <3> QED
        BY <3>1, <3>2
    <2>2. step \in [(1 .. n) \X A -> A] /\ \A k \in 1 .. n : \A u \in A : step[<<k, u>>] = Next1(k, u)
      <3> HIDE DEF n, A, Next1
      <3> QED
        BY <2>1
    <2>3. <<>> \in A
      OBVIOUS
    <2> HIDE DEF step
    <2>4. PICK it : Folds(it, n, A, <<>>, step)
      <3> HIDE DEF n, A
      <3> QED
        BY <1>1, <2>2, <2>3, FoldExists
    <2>5. Follows(it, n, A, <<>>, step)
      BY <2>4 DEF Folds, Follows
    <2> DEFINE g == Steps(it, n)
    <2>6. Values(g, n, A, <<>>, step)
      <3> HIDE DEF n, A
      <3> QED
        BY <1>1, <2>2, <2>3, <2>5, FoldValues
    <2> HIDE DEF g
    <2>7. \A k \in 1 .. n : g[k] = Next1(k, g[k - 1])
      <3> HIDE DEF n, A, Next1
      <3>1. \A k \in 1 .. n : k - 1 \in 0 .. n
        BY <1>1
      <3>2. \A k \in 1 .. n : g[k - 1] \in A
        BY <2>6, <3>1 DEF Values
      <3> QED
        BY <2>2, <2>6, <3>2 DEF Values
    <2> DEFINE f1 == [i \in 1 .. n |-> g[i]]
    <2>8. Eq(f1)
      <3>1. ASSUME NEW i \in 1 .. n
            PROVE  g[i] = IF i = 1 THEN seqs[i] ELSE f1[i - 1] \o seqs[i]
        <4>1. i # 1 => i - 1 \in 1 .. n
          BY <1>1
        <4>2. i # 1 => f1[i - 1] = g[i - 1]
          BY <4>1
        <4>3. g[i] = Next1(i, g[i - 1])
          BY <2>7
        <4> HIDE DEF f1, n
        <4> QED
          BY <4>2, <4>3
      <3> QED
        BY <3>1
    <2>9. \E f : Eq(f)
      BY <2>8
    <2>10. PICK f : Eq(f) /\ FlattenSeq(seqs) = f[n]
      BY Zenon, <1>3, <2>9 DEF FlattenSeq
    <2> DEFINE p == [i \in 0 .. n |-> IF i = 0 THEN 0 ELSE Len(f[i])]
               C == {k \in 0 .. n :
                      k # 0 => /\ f[k] \in A
                               /\ \A i \in 1 .. k : /\ p[i] = p[i - 1] + Len(seqs[i])
                                                    /\ p[i - 1] \in Nat
                                                    /\ Segment(f[k], p[i - 1], seqs[i])}
    <2>11. \A i \in 1 .. n : f[i] = IF i = 1 THEN seqs[i] ELSE f[i - 1] \o seqs[i]
      BY <2>10
    <2>12. p[0] = 0 /\ \A i \in 1 .. n : p[i] = Len(f[i])
      BY <1>1
    <2> HIDE DEF n, p, Eq
    <2>13. 0 \in C
      BY <1>1
    <2>14. ASSUME NEW k \in 0 .. (n - 1), k \in C PROVE k + 1 \in C
      <3>1. k + 1 \in 1 .. n /\ k + 1 \in 0 .. n /\ (k + 1) - 1 = k /\ k \in Nat
        BY <1>1
      <3>2. seqs[k + 1] \in A
        BY <1>1, <3>1
      <3>3. CASE k = 0
        <4>1. f[1] = seqs[1] /\ p[1] = Len(seqs[1]) /\ seqs[1] \in A
          BY <2>11, <2>12, <3>1, <3>2, <3>3
        <4>2. Segment(seqs[1], 0, seqs[1])
          BY <4>1 DEF Segment
        <4>3. \A i \in 1 .. 1 : i = 1 /\ i - 1 = 0
          OBVIOUS
        <4>4. p[1] = 0 + Len(seqs[1])
          BY <4>1
        <4>5. k + 1 = 1
          BY <3>3
        <4> QED
          BY <2>12, <3>1, <4>1, <4>2, <4>3, <4>4, <4>5
      <3>4. CASE k # 0
        <4> DEFINE a == f[k]
                   b == seqs[k + 1]
        <4>1. /\ a \in A
              /\ \A i \in 1 .. k : /\ p[i] = p[i - 1] + Len(seqs[i])
                                   /\ p[i - 1] \in Nat
                                   /\ Segment(a, p[i - 1], seqs[i])
          BY <2>14, <3>4
        <4>2. f[k + 1] = a \o b
          <5>1. f[k + 1] = IF k + 1 = 1 THEN seqs[k + 1] ELSE f[(k + 1) - 1] \o seqs[k + 1]
            BY <2>11, <3>1
          <5>2. k + 1 # 1
            BY <3>1, <3>4
          <5> QED
            BY <3>1, <5>1, <5>2
        <4>3. b \in A /\ k \in 1 .. n
          BY <1>1, <3>1, <3>2, <3>4
        <4>4. p[k] = Len(a) /\ p[k + 1] = Len(f[k + 1])
          BY <2>12, <3>1, <4>3
        <4>5. \A i \in 1 .. k : seqs[i] \in A
          <5>1. \A i \in 1 .. k : i \in 1 .. n
            BY <1>1, <3>1
          <5> QED
            BY <1>1, <5>1
        <4> HIDE DEF a, b
        <4>6. a \o b \in A /\ Len(a \o b) = Len(a) + Len(b) /\ Len(a) \in Nat
          BY <4>1, <4>3, ConcatProperties
        <4>7. \A i \in 1 .. k : Segment(a \o b, p[i - 1], seqs[i])
          BY <4>1, <4>3, <4>5, SegmentJoined
        <4>8. Segment(a \o b, Len(a), b)
          BY <4>1, <4>3, SegmentJoined
        <4>9. ASSUME NEW i \in 1 .. (k + 1)
              PROVE  /\ p[i] = p[i - 1] + Len(seqs[i])
                     /\ p[i - 1] \in Nat
                     /\ Segment(f[k + 1], p[i - 1], seqs[i])
          <5>1. i \in 1 .. k \/ i = k + 1
            BY <3>1
          <5>2. CASE i \in 1 .. k
            BY <4>1, <4>2, <4>7, <5>2
          <5>3. CASE i = k + 1
            <6>1. i - 1 = k /\ seqs[i] = b
              BY <3>1, <5>3 DEF b
            <6> QED
              BY <4>2, <4>4, <4>6, <4>8, <5>3, <6>1
          <5> QED
            BY <5>1, <5>2, <5>3
        <4> QED
          BY <3>1, <4>2, <4>6, <4>9
      <3> QED
        BY <3>3, <3>4
    <2>15. C \in SUBSET (0 .. n)
      OBVIOUS
    <2> HIDE DEF C
    <2>16. C = 0 .. n
      BY <1>1, <2>13, <2>14, <2>15, Induct
    <2>17. n \in 0 .. n /\ n \in C /\ n \in 1 .. n
      BY <1>1, <1>3, <2>16
    <2>18. /\ f[n] \in A
           /\ \A i \in 1 .. n : /\ p[i] = p[i - 1] + Len(seqs[i])
                                /\ p[i - 1] \in Nat
                                /\ Segment(f[n], p[i - 1], seqs[i])
      BY <1>3, <2>17 DEF C
    <2>19. p \in [0 .. n -> Nat]
      <3>1. ASSUME NEW i \in 0 .. n PROVE p[i] \in Nat
        <4>1. CASE i = 0
          BY <2>12, <4>1
        <4>2. CASE i = n
          BY <1>3, <2>12, <2>17, <2>18, <4>2
        <4>3. CASE i # 0 /\ i # n
          <5>1. i + 1 \in 1 .. n /\ (i + 1) - 1 = i
            BY <1>1, <4>3
          <5> QED
            BY <2>18, <5>1
        <4> QED
          BY <4>1, <4>2, <4>3
      <3> QED
        BY <3>1 DEF p
    <2>20. p[n] = Len(f[n])
      BY <2>12, <2>17
    <2>21. Offsets(p, f[n], seqs)
      BY <2>12, <2>18, <2>19, <2>20 DEF Offsets, n
    <2> QED
      BY <2>10, <2>18, <2>21
  <1> QED
    BY <1>2, <1>3

\* A part of a part of o is a part of o.
LEMMA SegmentNested ==
  ASSUME NEW S, NEW o \in Seq(S), NEW y \in Seq(S), NEW z \in Seq(S),
         NEW q \in Nat, NEW p \in Nat, Segment(o, q, y), Segment(y, p, z)
  PROVE  Segment(o, q + p, z)
  <1>1. Len(o) \in Nat /\ Len(y) \in Nat /\ Len(z) \in Nat
    OBVIOUS
  <1>2. /\ q + Len(y) <= Len(o) /\ \A i \in 1 .. Len(y) : y[i] = o[q + i]
        /\ p + Len(z) <= Len(y) /\ \A i \in 1 .. Len(z) : z[i] = y[p + i]
    BY DEF Segment
  <1>3. ASSUME NEW i \in 1 .. Len(z) PROVE z[i] = o[(q + p) + i]
    <2>1. p + i \in 1 .. Len(y) /\ q + (p + i) = (q + p) + i
      BY <1>1, <1>2
    <2>2. z[i] = y[p + i] /\ y[p + i] = o[q + (p + i)]
      BY <1>2, <2>1
    <2> QED
      BY <2>1, <2>2
  <1>4. (q + p) + Len(z) <= Len(o)
    BY <1>1, <1>2
  <1> QED
    BY <1>3, <1>4 DEF Segment

\* The height of chain d that the leader's blocks up to height h reference.
Cover(r, l, base, h, d) == Max({base[d]} \cup {r[i][d] : i \in (base[l] + 1) .. h})

\* It starts at base and rises to what the next block references, if higher.
Covers(r, l, base, hi, d) ==
  /\ Cover(r, l, base, base[l], d) = base[d]
  /\ \A h \in base[l] .. hi : Cover(r, l, base, h, d) \in Nat
  /\ \A h \in base[l] .. (hi - 1) :
       Cover(r, l, base, h + 1, d) =
         IF Cover(r, l, base, h, d) < r[h + 1][d]
         THEN r[h + 1][d] ELSE Cover(r, l, base, h, d)

\* References cover a chain up to the highest of them.
LEMMA CoverFacts ==
  ASSUME NEW r, NEW l, NEW base, NEW d, base[l] \in Nat, base[d] \in Nat,
         NEW hi \in Nat, base[l] <= hi, \A i \in (base[l] + 1) .. hi : r[i][d] \in Nat
  PROVE  Covers(r, l, base, hi, d)
  <1> DEFINE lo == base[l]
             T(h) == {base[d]} \cup {r[i][d] : i \in (lo + 1) .. h}
             Top1(S, v) == v \in S /\ \A y \in S : v >= y
             n == hi - lo
             C == {k \in 0 .. n : \E v \in Nat : Top1(T(lo + k), v)}
  <1>1. lo \in Nat /\ n \in Nat
    OBVIOUS
  <1>2. ASSUME NEW h \in lo .. hi PROVE T(h) \in SUBSET Nat
    <2>1. \A i \in (lo + 1) .. h : i \in (lo + 1) .. hi
      OBVIOUS
    <2> QED
      BY <2>1
  <1>3. ASSUME NEW S \in SUBSET Nat, NEW v \in Nat, Top1(S, v) PROVE Max(S) = v
    <2>1. \A w \in S : (\A y \in S : w >= y) => w = v
      BY <1>3
    <2>2. v \in S /\ \A y \in S : v >= y
      BY <1>3
    <2> QED
      BY <2>1, <2>2 DEF Max
  <1>4. T(lo) = {base[d]}
    <2>1. (lo + 1) .. lo = {}
      OBVIOUS
    <2> QED
      BY <2>1
  <1>5. ASSUME NEW h \in lo .. (hi - 1) PROVE T(h + 1) = T(h) \cup {r[h + 1][d]}
    <2>1. (lo + 1) .. (h + 1) = ((lo + 1) .. h) \cup {h + 1}
      OBVIOUS
    <2> QED
      BY <2>1
  <1>6. ASSUME NEW h \in lo .. (hi - 1), NEW v \in Nat, Top1(T(h), v)
        PROVE  /\ r[h + 1][d] \in Nat
               /\ Top1(T(h + 1), IF v < r[h + 1][d] THEN r[h + 1][d] ELSE v)
    <2>1. h + 1 \in (lo + 1) .. hi /\ h \in lo .. hi
      BY <1>1
    <2>2. r[h + 1][d] \in Nat /\ T(h) \in SUBSET Nat
      BY <1>2, <2>1
    <2> DEFINE w == r[h + 1][d]
               U == T(h)
    <2>3. T(h + 1) = U \cup {w}
      BY <1>5
    <2>4. v \in U /\ \A y \in U : v >= y
      BY <1>6
    <2> DEFINE Z == T(h + 1)
               z == IF v < w THEN w ELSE v
    <2>5. w \in Nat /\ \A y \in U : y \in Nat
      BY <2>2
    <2>6. \A y : y \in Z <=> y \in U \/ y = w
      BY <2>3
    <2> HIDE DEF w, U, Z
    <2>7. z \in Z /\ \A y \in Z : z >= y
      <3>1. ASSUME NEW y \in Z PROVE z >= y
        <4>1. CASE y \in U
          BY <2>4, <2>5, <4>1
        <4>2. CASE y = w
          BY <2>5, <4>2
        <4> QED
          BY <2>6, <4>1, <4>2
      <3>2. z \in Z
        BY <2>4, <2>6
      <3> QED
        BY <3>1, <3>2
    <2>8. Top1(Z, z)
      BY <2>7
    <2> QED
      BY <2>5, <2>8 DEF w, Z
  <1>7. Top1(T(lo), base[d])
    BY <1>4
  <1> HIDE DEF T, Top1, lo
  <1>8. \A h \in lo .. hi : \E v \in Nat : Top1(T(h), v)
    <2> HIDE DEF n
    <2>1. 0 \in C
      <3>1. lo + 0 = lo
        BY <1>1
      <3> QED
        BY <1>1, <1>7, <3>1
    <2>2. ASSUME NEW k \in 0 .. (n - 1), k \in C PROVE k + 1 \in C
      <3>1. k + 1 \in 0 .. n /\ lo + (k + 1) = (lo + k) + 1 /\ lo + k \in lo .. (hi - 1)
        BY <1>1 DEF n
      <3>2. PICK v \in Nat : Top1(T(lo + k), v)
        BY <2>2
      <3> DEFINE w == IF v < r[(lo + k) + 1][d] THEN r[(lo + k) + 1][d] ELSE v
      <3>3. w \in Nat /\ Top1(T((lo + k) + 1), w)
        BY <1>6, <3>1, <3>2
      <3> HIDE DEF w
      <3> QED
        BY <3>1, <3>3
    <2>3. C \in SUBSET (0 .. n)
      OBVIOUS
    <2> HIDE DEF C
    <2>4. C = 0 .. n
      BY <1>1, <2>1, <2>2, <2>3, Induct
    <2>5. ASSUME NEW h \in lo .. hi PROVE \E v \in Nat : Top1(T(h), v)
      <3>1. h - lo \in 0 .. n /\ lo + (h - lo) = h
        BY <1>1 DEF n
      <3> QED
        BY <2>4, <3>1 DEF C
    <2> QED
      BY <2>5
  <1>9. \A h : Cover(r, l, base, h, d) = Max(T(h))
    BY DEF Cover, T, lo
  <1>10. Cover(r, l, base, lo, d) = base[d]
    <2>1. lo \in lo .. hi
      BY <1>1 DEF lo
    <2> QED
      BY <1>2, <1>3, <1>7, <1>9, <2>1
  <1>11. ASSUME NEW h \in lo .. hi PROVE Cover(r, l, base, h, d) \in Nat
    BY <1>2, <1>3, <1>8, <1>9
  <1>12. ASSUME NEW h \in lo .. (hi - 1)
         PROVE  Cover(r, l, base, h + 1, d) =
                  IF Cover(r, l, base, h, d) < r[h + 1][d]
                  THEN r[h + 1][d] ELSE Cover(r, l, base, h, d)
    <2>1. h \in lo .. hi /\ h + 1 \in lo .. hi
      BY <1>1
    <2>2. PICK v \in Nat : Top1(T(h), v)
      BY <1>8, <2>1
    <2>3. Cover(r, l, base, h, d) = v
      BY <1>2, <1>3, <1>9, <2>1, <2>2
    <2> DEFINE w == IF v < r[h + 1][d] THEN r[h + 1][d] ELSE v
    <2>4. w \in Nat /\ Top1(T(h + 1), w)
      BY <1>6, <2>2
    <2> HIDE DEF w
    <2>5. Cover(r, l, base, h + 1, d) = w
      BY <1>2, <1>3, <1>9, <2>1, <2>4
    <2> QED
      BY <2>3, <2>5 DEF w
  <1> QED
    BY <1>10, <1>11, <1>12 DEF lo, Covers

\* The blocks that the leader's block at height h adds below it, chain by chain.
Under(r, l, base, h) ==
  [k \in 1 .. (Len(Keys) - 1) |->
     Blocks(Others(l)[k], Cover(r, l, base, h - 1, Others(l)[k]),
                          Cover(r, l, base, h, Others(l)[k]))]

Layers(r, l, base, top) ==
  [i \in 1 .. (top - base[l]) |->
     FlattenSeq(Under(r, l, base, base[l] + i)) \o << <<l, base[l] + i>> >>]

\* OrderOf of the model, by the definitions above.
LEMMA OrderOfLayers ==
  ASSUME NEW e, NEW base, NEW top, get_leader(e) \in Chains
  PROVE  OrderOf(e, base, top) =
           FlattenSeq(Layers(references[e + 1], get_leader(e), base, top))
  <1> DEFINE l == get_leader(e)
             r == references[e + 1]
             others == Others(l)
  <1>1. DOMAIN others = 1 .. (Len(Keys) - 1)
    <2>1. others \in Seq(Chains) /\ Len(others) = Len(Keys) - 1
      BY OthersFacts
    <2> QED
      BY <2>1, LenProperties
  <1> DEFINE before(h) ==
               [k \in DOMAIN others |->
                  Blocks(others[k], Cover(r, l, base, h - 1, others[k]),
                                    Cover(r, l, base, h, others[k]))]
  <1>2. OrderOf(e, base, top) =
          FlattenSeq([i \in 1 .. (top - base[l]) |->
                        FlattenSeq(before(base[l] + i)) \o << <<l, base[l] + i>> >>])
    BY Zenon DEF OrderOf, Cover
  <1>3. \A h : before(h) = Under(r, l, base, h)
    BY <1>1 DEF Under
  <1> HIDE DEF before, l, r
  <1>4. [i \in 1 .. (top - base[l]) |->
           FlattenSeq(before(base[l] + i)) \o << <<l, base[l] + i>> >>]
          = Layers(r, l, base, top)
    BY <1>3 DEF Layers
  <1> QED
    BY <1>2, <1>4 DEF l, r

\* What Under and Layers are when the references are numbers.
LEMMA UnderFacts ==
  ASSUME NEW r, NEW l \in Chains, NEW base \in [Chains -> Nat], NEW hi \in Nat, base[l] <= hi,
         \A i \in (base[l] + 1) .. hi : \A c \in Chains \ {l} : r[i][c] \in Nat,
         NEW h \in (base[l] + 1) .. hi
  PROVE  /\ Under(r, l, base, h) \in Seq(Seq(Pairs))
         /\ Len(Under(r, l, base, h)) = Len(Keys) - 1
         /\ \A k \in 1 .. (Len(Keys) - 1) :
              LET c == Others(l)[k]
              IN  /\ Under(r, l, base, h)[k] =
                       Blocks(c, Cover(r, l, base, h - 1, c), Cover(r, l, base, h, c))
                  /\ Len(Under(r, l, base, h)[k]) =
                       Cover(r, l, base, h, c) - Cover(r, l, base, h - 1, c)
  <1> DEFINE m == Len(Keys) - 1
             u == Under(r, l, base, h)
             cov(i, c) == Cover(r, l, base, i, c)
  <1>1. m \in Nat
    BY KeysFacts
  <1>2. ASSUME NEW k \in 1 .. m
        PROVE  LET c == Others(l)[k]
               IN  /\ u[k] = Blocks(c, cov(h - 1, c), cov(h, c))
                   /\ Len(u[k]) = cov(h, c) - cov(h - 1, c)
                   /\ u[k] \in Seq(Pairs)
    <2> DEFINE c == Others(l)[k]
    <2>1. c \in Chains \ {l}
      BY OthersFacts
    <2>2. u[k] = Blocks(c, cov(h - 1, c), cov(h, c))
      BY DEF Under
    <2> HIDE DEF c
    <2>3. base[l] \in Nat /\ base[c] \in Nat /\ \A i \in (base[l] + 1) .. hi : r[i][c] \in Nat
      BY <2>1
    <2>4. /\ \A i \in base[l] .. hi : cov(i, c) \in Nat
          /\ \A i \in base[l] .. (hi - 1) :
               cov(i + 1, c) = IF cov(i, c) < r[i + 1][c] THEN r[i + 1][c] ELSE cov(i, c)
      <3>1. Covers(r, l, base, hi, c)
        BY <2>3, CoverFacts
      <3> QED
        BY <3>1 DEF Covers
    <2>5. h - 1 \in base[l] .. (hi - 1) /\ h - 1 \in base[l] .. hi /\ h \in base[l] .. hi
          /\ (h - 1) + 1 = h
      BY <2>3
    <2> HIDE DEF cov
    <2>6. cov(h - 1, c) \in Nat /\ cov(h, c) \in Nat
          /\ cov(h, c) = IF cov(h - 1, c) < r[h][c] THEN r[h][c] ELSE cov(h - 1, c)
      <3>1. cov((h - 1) + 1, c) =
              IF cov(h - 1, c) < r[(h - 1) + 1][c] THEN r[(h - 1) + 1][c] ELSE cov(h - 1, c)
        BY <2>4, <2>5
      <3> QED
        BY <2>4, <2>5, <3>1
    <2>7. cov(h - 1, c) <= cov(h, c)
      BY <2>6
    <2>8. /\ Blocks(c, cov(h - 1, c), cov(h, c)) \in Seq(Pairs)
          /\ Len(Blocks(c, cov(h - 1, c), cov(h, c))) = cov(h, c) - cov(h - 1, c)
      BY <2>1, <2>6, <2>7, BlocksFacts
    <2> HIDE DEF u
    <2>9. /\ u[k] = Blocks(c, cov(h - 1, c), cov(h, c))
          /\ Len(u[k]) = cov(h, c) - cov(h - 1, c)
          /\ u[k] \in Seq(Pairs)
      BY <2>2, <2>8
    <2> QED
      BY <2>9 DEF c
  <1>3. u \in Seq(Seq(Pairs)) /\ Len(u) = m
    <2>1. u = [k \in 1 .. m |-> u[k]]
      BY DEF Under
    <2>2. \A k \in 1 .. m : u[k] \in Seq(Pairs)
      BY <1>2
    <2> HIDE DEF u, m
    <2>3. u \in [1 .. m -> Seq(Pairs)]
      BY <2>1, <2>2
    <2> QED
      BY <1>1, <2>3
  <1> HIDE DEF u, m
  <1>4. \A k \in 1 .. m : LET c == Others(l)[k]
                          IN  /\ u[k] = Blocks(c, cov(h - 1, c), cov(h, c))
                              /\ Len(u[k]) = cov(h, c) - cov(h - 1, c)
    BY <1>2
  <1> QED
    BY <1>3, <1>4 DEF u, m

\* x lays out the whole of o, from the heights in base to the leader's height
\* top, which may be below the one it starts at.
Whole(o, r, l, base, top, x) ==
  /\ x.lo = base[l]
  /\ x.hi = IF base[l] <= top THEN top ELSE base[l]
  /\ x.at[x.lo] = base
  /\ x.pos[<<x.lo, 0>>] = 0
  /\ x.pos[<<x.hi, 0>>] = Len(o)
  /\ \A h \in x.lo .. x.hi : \A c \in Chains \ {l} : x.at[h][c] = Cover(r, l, base, h, c)

\* Some x lays out the order of an epoch.
LEMMA LayersLaid ==
  ASSUME NEW r, NEW l \in Chains, NEW base \in [Chains -> Nat], NEW top \in Int,
         \A i \in (base[l] + 1) .. top : \A c \in Chains \ {l} : r[i][c] \in Nat
  PROVE  LET o == FlattenSeq(Layers(r, l, base, top))
         IN  o \in Seq(Pairs) /\ \E x : LaidOut(o, r, l, x) /\ Whole(o, r, l, base, top, x)
  <1> DEFINE m == Len(Keys) - 1
             lo == base[l]
             hi == IF base[l] <= top THEN top ELSE base[l]
             n == hi - lo
             u(i) == Under(r, l, base, lo + i)
             y == Layers(r, l, base, top)
             o == FlattenSeq(y)
             cov(h, c) == Cover(r, l, base, h, c)
  <1>1. /\ m \in Nat /\ m # 0 /\ lo \in Nat /\ hi \in Nat /\ lo <= hi /\ n \in Nat
        /\ 1 .. (top - lo) = 1 .. n
        /\ \A i \in (lo + 1) .. hi : i \in (lo + 1) .. top
    <2>1. m \in Nat /\ m # 0
      BY ONLY KeysFacts
    <2>2. lo \in Nat
      OBVIOUS
    <2> HIDE DEF m, lo
    <2>3. CASE lo <= top
      BY <2>1, <2>2, <2>3 DEF lo
    <2>4. CASE ~(lo <= top)
      <3>1. hi = lo /\ n = 0 /\ 1 .. (top - lo) = {} /\ 1 .. n = {}
        BY <2>2, <2>4 DEF lo
      <3> QED
        BY <2>1, <2>2, <3>1
    <2> QED
      BY <2>3, <2>4
  <1>2. base[l] = lo /\ \A i \in (base[l] + 1) .. hi : \A c \in Chains \ {l} : r[i][c] \in Nat
    BY <1>1
  <1>3. y = [i \in 1 .. n |-> FlattenSeq(u(i)) \o << <<l, lo + i>> >>]
    BY <1>1 DEF Layers
  <1> HIDE DEF lo, hi, n, m, y
  <1>4. \A h \in (lo + 1) .. hi :
          /\ Under(r, l, base, h) \in Seq(Seq(Pairs))
          /\ Len(Under(r, l, base, h)) = m
          /\ \A k \in 1 .. m :
               LET c == Others(l)[k]
               IN  /\ Under(r, l, base, h)[k] = Blocks(c, cov(h - 1, c), cov(h, c))
                   /\ Len(Under(r, l, base, h)[k]) = cov(h, c) - cov(h - 1, c)
    <2> TAKE h \in (lo + 1) .. hi
    <2>1. base[l] <= hi /\ h \in (base[l] + 1) .. hi /\ hi \in Nat
      BY ONLY <1>1, <1>2, h \in (lo + 1) .. hi
    <2>2. /\ Under(r, l, base, h) \in Seq(Seq(Pairs))
          /\ Len(Under(r, l, base, h)) = Len(Keys) - 1
          /\ \A k \in 1 .. (Len(Keys) - 1) :
               LET c == Others(l)[k]
               IN  /\ Under(r, l, base, h)[k] =
                        Blocks(c, Cover(r, l, base, h - 1, c), Cover(r, l, base, h, c))
                   /\ Len(Under(r, l, base, h)[k]) =
                        Cover(r, l, base, h, c) - Cover(r, l, base, h - 1, c)
      BY ONLY <1>2, <2>1, l \in Chains, base \in [Chains -> Nat], UnderFacts, Zenon
    <2> QED
      BY ONLY <2>2, Zenon DEF m
  <1>5. \A i \in 1 .. n : lo + i \in (lo + 1) .. hi
    BY <1>1 DEF n
  <1>6. \A i \in 1 .. n : u(i) \in Seq(Seq(Pairs)) /\ Len(u(i)) = m
    BY <1>4, <1>5
  <1> HIDE DEF u
  <1>7. \A i \in 1 .. n : /\ FlattenSeq(u(i)) \in Seq(Pairs)
                          /\ \E p : Offsets(p, FlattenSeq(u(i)), u(i))
    BY <1>6, FlattenFacts
  <1>8. ASSUME NEW i \in 1 .. n
        PROVE  /\ y[i] = FlattenSeq(u(i)) \o << <<l, lo + i>> >>
               /\ y[i] \in Seq(Pairs) /\ Len(y[i]) = Len(FlattenSeq(u(i))) + 1
               /\ y[i][Len(FlattenSeq(u(i))) + 1] = <<l, lo + i>>
               /\ Segment(y[i], 0, FlattenSeq(u(i)))
    <2> DEFINE f == FlattenSeq(u(i))
               b == <<l, lo + i>>
    <2>1. f \in Seq(Pairs) /\ y[i] = f \o <<b>>
      BY <1>3, <1>7
    <2>2. b \in Pairs
      BY <1>1 DEF Pairs
    <2> HIDE DEF f, b
    <2>3. <<b>> \in Seq(Pairs) /\ Len(<<b>>) = 1 /\ <<b>>[1] = b
      BY <2>2
    <2> DEFINE w == <<b>>
    <2> HIDE DEF w
    <2>4. w \in Seq(Pairs) /\ Len(w) = 1 /\ w[1] = b /\ y[i] = f \o w
      BY <2>1, <2>3 DEF w
    <2>5. /\ f \o w \in Seq(Pairs) /\ Len(f \o w) = Len(f) + 1 /\ Len(f) \in Nat
          /\ \A j \in 1 .. (Len(f) + 1) :
               (f \o w)[j] = IF j <= Len(f) THEN f[j] ELSE w[j - Len(f)]
      <3>1. /\ f \o w \in Seq(Pairs) /\ Len(f \o w) = Len(f) + Len(w) /\ Len(f) \in Nat
            /\ \A j \in 1 .. (Len(f) + Len(w)) :
                 (f \o w)[j] = IF j <= Len(f) THEN f[j] ELSE w[j - Len(f)]
        BY <2>1, <2>4, ConcatProperties
      <3> QED
        BY <2>4, <3>1
    <2>6. (f \o w)[Len(f) + 1] = b
      <3>1. Len(f) + 1 \in 1 .. (Len(f) + 1) /\ ~(Len(f) + 1 <= Len(f))
            /\ (Len(f) + 1) - Len(f) = 1
        BY <2>5
      <3> QED
        BY <2>4, <2>5, <3>1
    <2>7. Segment(f \o w, 0, f)
      <3>1. Segment(f, 0, f)
        BY <2>1 DEF Segment
      <3> QED
        BY <2>1, <2>4, <3>1, SegmentJoined
    <2>8. /\ y[i] = f \o <<b>> /\ y[i] \in Seq(Pairs) /\ Len(y[i]) = Len(f) + 1
          /\ y[i][Len(f) + 1] = b /\ Segment(y[i], 0, f)
      BY <2>1, <2>4, <2>5, <2>6, <2>7
    <2> QED
      BY <2>8 DEF f, b
  <1>9. y \in Seq(Seq(Pairs)) /\ Len(y) = n
    <2>1. y \in [1 .. n -> Seq(Pairs)]
      <3>1. y = [i \in 1 .. n |-> y[i]]
        BY <1>3
      <3> QED
        BY <1>8, <3>1
    <2> QED
      BY <1>1, <2>1
  <1>10. o \in Seq(Pairs) /\ \E p : Offsets(p, o, y)
    BY <1>9, FlattenFacts
  <1> HIDE DEF o
  <1>11. PICK po : Offsets(po, o, y)
    BY <1>10
  <1> DEFINE f(i) == FlattenSeq(u(i))
             pi(i) == CHOOSE p : Offsets(p, f(i), u(i))
             at == [h \in lo .. hi |-> [c \in Chains |-> IF c = l THEN h ELSE cov(h, c)]]
             pos == [w \in (lo .. hi) \X (0 .. m) |->
                       IF w[1] = hi THEN po[n] ELSE po[w[1] - lo] + pi((w[1] - lo) + 1)[w[2]]]
             x == [lo |-> lo, hi |-> hi, at |-> at, pos |-> pos]
  <1>12. \A i \in 1 .. n : Offsets(pi(i), f(i), u(i))
    BY <1>7
  <1>13. /\ po \in [0 .. n -> Nat] /\ po[0] = 0 /\ po[n] = Len(o)
         /\ \A i \in 1 .. n : po[i] = po[i - 1] + Len(y[i]) /\ Segment(o, po[i - 1], y[i])
    BY <1>9, <1>11 DEF Offsets
  <1> HIDE DEF pi, f
  <1>14. \A i \in 1 .. n :
           /\ pi(i) \in [0 .. m -> Nat] /\ pi(i)[0] = 0 /\ pi(i)[m] = Len(f(i))
           /\ \A k \in 1 .. m : /\ pi(i)[k] = pi(i)[k - 1] + Len(u(i)[k])
                                /\ Segment(f(i), pi(i)[k - 1], u(i)[k])
    BY <1>6, <1>12 DEF Offsets
  <1>15. \A c \in Chains \ {l} :
           /\ cov(lo, c) = base[c]
           /\ \A h \in lo .. hi : cov(h, c) \in Nat
           /\ \A h \in lo .. (hi - 1) :
                cov(h + 1, c) = IF cov(h, c) < r[h + 1][c] THEN r[h + 1][c] ELSE cov(h, c)
    <2> TAKE c \in Chains \ {l}
    <2>1. Covers(r, l, base, hi, c)
      <3>1. base[l] \in Nat /\ base[c] \in Nat /\ base[l] <= hi /\ hi \in Nat
            /\ \A i \in (base[l] + 1) .. hi : r[i][c] \in Nat
        BY <1>1, <1>2
      <3> QED
        BY <3>1, CoverFacts
    <2> QED
      BY <1>2, <2>1 DEF Covers
  <1> HIDE DEF cov
  <1>16. /\ x.lo = lo /\ x.hi = hi /\ x.at = at /\ x.pos = pos
    OBVIOUS
  <1>17. at \in [lo .. hi -> [Chains -> Nat]]
    <2>1. ASSUME NEW h \in lo .. hi, NEW c \in Chains
          PROVE  (IF c = l THEN h ELSE cov(h, c)) \in Nat
      BY <1>1, <1>15
    <2> QED
      BY <2>1
  <1>18. \A h \in lo .. hi : at[h][l] = h /\ \A c \in Chains \ {l} : at[h][c] = cov(h, c)
    OBVIOUS
  <1> HIDE DEF at
  <1>19. ASSUME NEW h \in lo .. (hi - 1), NEW j \in 0 .. m
         PROVE  /\ (h - lo) + 1 \in 1 .. n /\ h - lo \in 0 .. n
                /\ ((h - lo) + 1) - 1 = h - lo /\ lo + ((h - lo) + 1) = h + 1
                /\ pos[<<h, j>>] = po[h - lo] + pi((h - lo) + 1)[j]
    <2>1. /\ h \in lo .. hi /\ h # hi
          /\ (h - lo) + 1 \in 1 .. n /\ h - lo \in 0 .. n
          /\ ((h - lo) + 1) - 1 = h - lo /\ lo + ((h - lo) + 1) = h + 1
      BY <1>1 DEF n
    <2>2. pos[<<h, j>>] = po[h - lo] + pi((h - lo) + 1)[j]
      <3>1. <<h, j>> \in (lo .. hi) \X (0 .. m) /\ <<h, j>>[1] = h /\ <<h, j>>[2] = j
        BY <2>1
      <3> QED
        BY <2>1, <3>1
    <2> QED
      BY <2>1, <2>2
  <1>20. \A j \in 0 .. m : pos[<<hi, j>>] = po[n]
    <2> TAKE j \in 0 .. m
    <2>1. <<hi, j>> \in (lo .. hi) \X (0 .. m) /\ <<hi, j>>[1] = hi
      BY <1>1
    <2> QED
      BY <2>1
  <1>21. pos \in [(lo .. hi) \X (0 .. m) -> Nat]
    <2>1. ASSUME NEW h \in lo .. hi, NEW j \in 0 .. m PROVE pos[<<h, j>>] \in Nat
      <3>1. CASE h = hi
        <4>1. n \in 0 .. n
          BY <1>1
        <4> QED
          BY <1>13, <1>20, <3>1, <4>1
      <3>2. CASE h # hi
        <4>1. h \in lo .. (hi - 1)
          BY <1>1, <3>2
        <4>2. po[h - lo] \in Nat /\ pi((h - lo) + 1)[j] \in Nat
          BY <1>13, <1>14, <1>19, <4>1
        <4>3. pos[<<h, j>>] = po[h - lo] + pi((h - lo) + 1)[j]
          BY <1>19, <4>1
        <4> HIDE DEF pos
        <4> QED
          BY <4>2, <4>3
      <3> QED
        BY <3>1, <3>2
    <2>2. \A w \in (lo .. hi) \X (0 .. m) : w = <<w[1], w[2]>> /\ w[1] \in lo .. hi /\ w[2] \in 0 .. m
      OBVIOUS
    <2>3. \A w \in (lo .. hi) \X (0 .. m) : pos[w] \in Nat
      <3> HIDE DEF pos
      <3> QED
        BY <2>1, <2>2
    <2>4. pos = [w \in (lo .. hi) \X (0 .. m) |-> pos[w]]
      OBVIOUS
    <2> HIDE DEF pos
    <2> QED
      BY <2>3, <2>4
  <1> HIDE DEF pos, x
  <1>22. Whole(o, r, l, base, top, x)
    <2>1. at[lo] = base
      <3>1. lo \in lo .. hi
        BY <1>1
      <3>2. at[lo][l] = lo /\ \A c \in Chains \ {l} : at[lo][c] = cov(lo, c)
        BY <1>18, <3>1
      <3>3. at[lo] \in [Chains -> Nat]
        BY <1>17, <3>1
      <3>4. \A c \in Chains : at[lo][c] = base[c]
        BY <1>2, <1>15, <3>2
      <3> QED
        BY <3>3, <3>4
    <2>2. pos[<<lo, 0>>] = 0
      <3>1. CASE lo = hi
        <4>1. n = 0 /\ 0 \in 0 .. m
          BY <1>1, <3>1 DEF n
        <4> QED
          BY <1>13, <1>20, <3>1, <4>1
      <3>2. CASE lo # hi
        <4>1. lo \in lo .. (hi - 1) /\ 0 \in 0 .. m /\ lo - lo = 0
          BY <1>1, <3>2
        <4>2. pos[<<lo, 0>>] = po[0] + pi(0 + 1)[0] /\ 0 + 1 \in 1 .. n
          BY <1>19, <4>1
        <4>3. pi(0 + 1)[0] = 0
          BY <1>14, <4>2
        <4> QED
          BY <1>13, <4>2, <4>3
      <3> QED
        BY <3>1, <3>2
    <2>3. pos[<<hi, 0>>] = Len(o)
      <3>1. 0 \in 0 .. m
        BY <1>1
      <3> QED
        BY <1>13, <1>20, <3>1
    <2>4. hi = IF base[l] <= top THEN top ELSE base[l]
      BY DEF hi
    <2>5. \A h \in x.lo .. x.hi : \A c \in Chains \ {l} : x.at[h][c] = Cover(r, l, base, h, c)
      BY Zenon, <1>16, <1>18 DEF cov
    <2>6. /\ x.lo = base[l] /\ x.hi = IF base[l] <= top THEN top ELSE base[l]
          /\ x.at[x.lo] = base /\ x.pos[<<x.lo, 0>>] = 0 /\ x.pos[<<x.hi, 0>>] = Len(o)
      BY <1>2, <1>16, <2>1, <2>2, <2>3, <2>4
    <2> QED
      BY Zenon, <2>5, <2>6 DEF Whole
  <1>23. ASSUME NEW h \in lo .. (hi - 1), NEW c \in Chains \ {l}
         PROVE  /\ r[h + 1][c] \in Nat
                /\ at[h + 1][c] = IF at[h][c] < r[h + 1][c] THEN r[h + 1][c] ELSE at[h][c]
    <2>1. h + 1 \in (lo + 1) .. hi /\ h \in lo .. hi /\ h + 1 \in lo .. hi
      BY <1>1
    <2>2. at[h][c] = cov(h, c) /\ at[h + 1][c] = cov(h + 1, c)
      BY <1>18, <2>1
    <2>3. r[h + 1][c] \in Nat
      BY <1>2, <2>1
    <2> QED
      BY <1>15, <2>2, <2>3
  <1>24. ASSUME NEW h \in lo .. (hi - 1), NEW j \in 1 .. m, NEW c, c = Others(l)[j]
         PROVE  /\ Segment(o, pos[<<h, j - 1>>], Blocks(c, at[h][c], at[h + 1][c]))
                /\ pos[<<h, j>>] = pos[<<h, j - 1>>] + (at[h + 1][c] - at[h][c])
    <2> DEFINE i == (h - lo) + 1
    <2>1. j \in 0 .. m /\ j - 1 \in 0 .. m /\ 0 \in 0 .. m /\ c \in Chains \ {l}
      <3>1. c \in Chains \ {l}
        BY <1>24, OthersFacts DEF m
      <3> QED
        BY <1>1, <3>1
    <2>2. /\ i \in 1 .. n /\ i - 1 \in 0 .. n /\ lo + i = h + 1
          /\ pos[<<h, j - 1>>] = po[i - 1] + pi(i)[j - 1]
          /\ pos[<<h, j>>] = po[i - 1] + pi(i)[j]
      BY <1>19, <2>1
    <2>3. h + 1 \in (lo + 1) .. hi /\ h \in lo .. hi /\ h + 1 \in lo .. hi /\ (h + 1) - 1 = h
      BY <1>1
    <2>4. at[h][c] = cov(h, c) /\ at[h + 1][c] = cov(h + 1, c)
      BY <1>18, <2>1, <2>3
    <2> HIDE DEF i
    <2>5. /\ u(i)[j] = Blocks(c, cov(h, c), cov(h + 1, c))
          /\ Len(u(i)[j]) = cov(h + 1, c) - cov(h, c)
      <3>1. /\ Under(r, l, base, h + 1)[j] = Blocks(c, cov((h + 1) - 1, c), cov(h + 1, c))
            /\ Len(Under(r, l, base, h + 1)[j]) = cov(h + 1, c) - cov((h + 1) - 1, c)
        BY <1>4, <1>24, <2>3
      <3> QED
        BY <2>2, <2>3, <3>1 DEF u
    <2>6. /\ pi(i)[j] = pi(i)[j - 1] + Len(u(i)[j])
          /\ Segment(f(i), pi(i)[j - 1], u(i)[j])
          /\ pi(i)[j - 1] \in Nat /\ pi(i)[j] \in Nat
      BY <1>14, <2>1, <2>2
    <2>7. Segment(o, po[i - 1], y[i]) /\ po[i - 1] \in Nat
      BY <1>13, <2>2
    <2>8. Segment(o, po[i - 1] + pi(i)[j - 1], u(i)[j])
      <3>1. f(i) \in Seq(Pairs) /\ y[i] \in Seq(Pairs) /\ Segment(y[i], 0, f(i))
        BY <1>7, <1>8, <2>2 DEF f
      <3>2. u(i)[j] \in Seq(Pairs)
        BY <1>6, <2>1, <2>2
      <3>3. Segment(o, po[i - 1] + 0, f(i))
        BY <1>10, <2>7, <3>1, SegmentNested
      <3>4. po[i - 1] + 0 = po[i - 1]
        BY <2>7
      <3>5. Segment(o, po[i - 1], f(i))
        BY <3>3, <3>4
      <3> QED
        BY <1>10, <2>6, <2>7, <3>1, <3>2, <3>5, SegmentNested
    <2>9. cov(h, c) \in Nat /\ cov(h + 1, c) \in Nat
      BY <1>15, <2>1, <2>3
    <2>10. pos[<<h, j>>] = pos[<<h, j - 1>>] + (at[h + 1][c] - at[h][c])
      <3>1. pi(i)[j] = pi(i)[j - 1] + (at[h + 1][c] - at[h][c])
        BY <2>4, <2>5, <2>6
      <3>2. at[h + 1][c] - at[h][c] \in Int
        <4>1. at[h][c] \in Nat /\ at[h + 1][c] \in Nat
          BY <2>4, <2>9
        <4> QED
          BY <4>1
      <3>3. po[i - 1] \in Nat /\ pi(i)[j - 1] \in Nat
        BY <2>6, <2>7
      <3>4. \A p, a \in Nat : \A d \in Int : p + (a + d) = (p + a) + d
        OBVIOUS
      <3>5. po[i - 1] + (pi(i)[j - 1] + (at[h + 1][c] - at[h][c]))
              = (po[i - 1] + pi(i)[j - 1]) + (at[h + 1][c] - at[h][c])
        BY <3>2, <3>3, <3>4
      <3> QED
        BY Zenon, <2>2, <3>1, <3>5
    <2> QED
      BY <2>2, <2>4, <2>5, <2>8, <2>10
  <1>25. ASSUME NEW h \in lo .. (hi - 1)
         PROVE  /\ pos[<<h, m>>] + 1 <= Len(o)
                /\ o[pos[<<h, m>>] + 1] = <<l, h + 1>>
                /\ pos[<<h + 1, 0>>] = pos[<<h, m>>] + 1
    <2> DEFINE i == (h - lo) + 1
               k == Len(f(i))
    <2>1. m \in 0 .. m /\ 0 \in 0 .. m
      BY <1>1
    <2>2. /\ i \in 1 .. n /\ i - 1 \in 0 .. n /\ lo + i = h + 1 /\ i = (h - lo) + 1
          /\ pos[<<h, m>>] = po[i - 1] + pi(i)[m]
      BY <1>19, <2>1
    <2> HIDE DEF i
    <2>3. pi(i)[m] = k
      BY <1>14, <2>2
    <2>4. f(i) \in Seq(Pairs) /\ Len(y[i]) = k + 1 /\ y[i][k + 1] = <<l, h + 1>>
      <3>1. /\ f(i) \in Seq(Pairs) /\ Len(y[i]) = Len(f(i)) + 1
            /\ y[i][Len(f(i)) + 1] = <<l, lo + i>>
        BY <1>7, <1>8, <2>2 DEF f
      <3> QED
        BY <2>2, <3>1
    <2>5. k \in Nat /\ k + 1 \in 1 .. Len(y[i])
      <3>1. k \in Nat
        BY <2>4
      <3> HIDE DEF k
      <3> QED
        BY <2>4, <3>1
    <2> HIDE DEF k
    <2>6. /\ po[i] = po[i - 1] + Len(y[i]) /\ Segment(o, po[i - 1], y[i])
          /\ po[i - 1] \in Nat
      BY <1>13, <2>2
    <2>7. /\ po[i - 1] + Len(y[i]) <= Len(o)
          /\ y[i][k + 1] = o[po[i - 1] + (k + 1)]
      BY <2>5, <2>6 DEF Segment
    <2>8. pos[<<h, m>>] + 1 = po[i - 1] + (k + 1) /\ po[i] = po[i - 1] + (k + 1)
      <3>1. pos[<<h, m>>] = po[i - 1] + k
        BY <2>2, <2>3
      <3>2. po[i - 1] \in Nat /\ k \in Nat
        BY <2>5, <2>6
      <3>3. po[i] = po[i - 1] + (k + 1)
        BY <2>4, <2>6
      <3>4. (po[i - 1] + k) + 1 = po[i - 1] + (k + 1)
        BY <3>2
      <3> QED
        BY Zenon, <3>1, <3>3, <3>4
    <2>9. pos[<<h + 1, 0>>] = po[i]
      <3>1. CASE h + 1 = hi
        <4>1. i = n
          BY <1>1, <2>2, <3>1 DEF n
        <4> QED
          BY <1>20, <2>1, <3>1, <4>1
      <3>2. CASE h + 1 # hi
        <4>1. h + 1 \in lo .. (hi - 1) /\ (h + 1) - lo = i
          BY <1>1, <2>2, <3>2
        <4>2. pos[<<h + 1, 0>>] = po[i] + pi(i + 1)[0] /\ i + 1 \in 1 .. n
          BY <1>19, <2>1, <4>1
        <4>3. pi(i + 1)[0] = 0
          BY <1>14, <4>2
        <4>4. po[i] \in Nat
          BY <2>5, <2>6, <2>8
        <4> QED
          BY <4>2, <4>3, <4>4
      <3> QED
        BY <3>1, <3>2
    <2> QED
      BY <2>4, <2>7, <2>8, <2>9
  <1>26. LaidOut(o, r, l, x)
    <2>1. \A h \in lo .. hi : at[h][l] = h
      BY <1>18
    <2>2. \A h \in lo .. (hi - 1) : \A j \in 1 .. m :
            LET c == Others(l)[j]
            IN  /\ Segment(o, pos[<<h, j - 1>>], Blocks(c, at[h][c], at[h + 1][c]))
                /\ pos[<<h, j>>] = pos[<<h, j - 1>>] + (at[h + 1][c] - at[h][c])
      BY <1>24
    <2>3. /\ x.lo \in Nat /\ x.hi \in Nat /\ x.lo <= x.hi
          /\ x.at \in [x.lo .. x.hi -> [Chains -> Nat]]
          /\ x.pos \in [(x.lo .. x.hi) \X (0 .. m) -> Nat]
      <3>1. lo \in Nat /\ hi \in Nat /\ lo <= hi
        BY <1>1
      <3> QED
        BY Zenon, <1>16, <1>17, <1>21, <3>1
    <2>4. \A h \in x.lo .. x.hi : x.at[h][l] = h
      BY Zenon, <1>16, <2>1
    <2>5. \A h \in x.lo .. (x.hi - 1) : \A c \in Chains \ {l} :
            /\ r[h + 1][c] \in Nat
            /\ x.at[h + 1][c] = IF x.at[h][c] < r[h + 1][c] THEN r[h + 1][c] ELSE x.at[h][c]
      <3>1. \A h \in lo .. (hi - 1) : \A c \in Chains \ {l} :
              /\ r[h + 1][c] \in Nat
              /\ at[h + 1][c] = IF at[h][c] < r[h + 1][c] THEN r[h + 1][c] ELSE at[h][c]
        BY <1>23
      <3> QED
        BY ONLY <1>16, <3>1
    <2>6. \A h \in x.lo .. (x.hi - 1) : \A j \in 1 .. m :
            LET c == Others(l)[j]
            IN  /\ Segment(o, x.pos[<<h, j - 1>>], Blocks(c, x.at[h][c], x.at[h + 1][c]))
                /\ x.pos[<<h, j>>] = x.pos[<<h, j - 1>>] + (x.at[h + 1][c] - x.at[h][c])
      BY Zenon, <1>16, <2>2
    <2>7. \A h \in x.lo .. (x.hi - 1) :
            /\ x.pos[<<h, m>>] + 1 <= Len(o)
            /\ o[x.pos[<<h, m>>] + 1] = <<l, h + 1>>
            /\ x.pos[<<h + 1, 0>>] = x.pos[<<h, m>>] + 1
      <3>1. \A h \in lo .. (hi - 1) :
              /\ pos[<<h, m>>] + 1 <= Len(o)
              /\ o[pos[<<h, m>>] + 1] = <<l, h + 1>>
              /\ pos[<<h + 1, 0>>] = pos[<<h, m>>] + 1
        BY <1>25
      <3> QED
        BY Zenon, <1>16, <3>1
    <2> QED
      BY Zenon, <2>3, <2>4, <2>5, <2>6, <2>7 DEF LaidOut, m
  <1> QED
    BY <1>10, <1>22, <1>26 DEF o, y

-----------------------------------------------------------------------------
\* What lays out a lays out a \o b.
LEMMA LaidBefore ==
  ASSUME NEW a \in Seq(Pairs), NEW b \in Seq(Pairs), NEW r, NEW l \in Chains, NEW x,
         LaidOut(a, r, l, x)
  PROVE  LaidOut(a \o b, r, l, x)
  <1> DEFINE m == Len(Keys) - 1
             o == a \o b
  <1>1. /\ o \in Seq(Pairs) /\ Len(o) = Len(a) + Len(b) /\ Len(a) \in Nat /\ Len(b) \in Nat
        /\ \A i \in 1 .. Len(a) : o[i] = a[i]
    <2>1. \A i \in 1 .. (Len(a) + Len(b)) :
            (a \o b)[i] = IF i <= Len(a) THEN a[i] ELSE b[i - Len(a)]
      BY ConcatProperties
    <2>2. Len(a) \in Nat /\ Len(b) \in Nat /\ Len(a \o b) = Len(a) + Len(b)
      BY ConcatLen
    <2>3. \A i \in 1 .. Len(a) : i \in 1 .. (Len(a) + Len(b)) /\ i <= Len(a)
      BY <2>2
    <2> QED
      BY <2>1, <2>2, <2>3
  <1>2. \A q \in Nat : \A y \in Seq(Pairs) : Segment(a, q, y) => Segment(o, q, y)
    BY SegmentJoined
  <1> HIDE DEF o
  <1>3. /\ x.lo \in Nat /\ x.hi \in Nat /\ x.lo <= x.hi
        /\ x.at \in [x.lo .. x.hi -> [Chains -> Nat]]
        /\ x.pos \in [(x.lo .. x.hi) \X (0 .. m) -> Nat]
    BY ONLY LaidOut(a, r, l, x), Zenon DEF LaidOut
  <1>4. m \in Nat /\ m # 0 /\ \A j \in 1 .. m : Others(l)[j] \in Chains
    <2>1. m \in Nat /\ m # 0
      BY ONLY KeysFacts
    <2>2. \A j \in 1 .. m : Others(l)[j] \in Chains \ {l}
      BY OthersFacts
    <2> QED
      BY <2>1, <2>2
  <1> HIDE DEF m
  <1>5. ASSUME NEW h \in x.lo .. (x.hi - 1), NEW j \in 1 .. m, NEW c, c = Others(l)[j],
               Segment(a, x.pos[<<h, j - 1>>], Blocks(c, x.at[h][c], x.at[h + 1][c]))
        PROVE  Segment(o, x.pos[<<h, j - 1>>], Blocks(c, x.at[h][c], x.at[h + 1][c]))
    <2>1. x.pos[<<h, j - 1>>] \in Nat
      <3>1. h \in x.lo .. x.hi /\ j - 1 \in 0 .. m
        BY <1>3, <1>4
      <3> QED
        BY <1>3, <3>1
    <2>2. Blocks(c, x.at[h][c], x.at[h + 1][c]) \in Seq(Pairs)
      <3>1. h \in x.lo .. x.hi /\ h + 1 \in x.lo .. x.hi
        BY <1>3
      <3>2. c \in Chains
        BY <1>4, <1>5
      <3>3. x.at[h][c] \in Nat /\ x.at[h + 1][c] \in Nat
        BY <1>3, <3>1, <3>2
      <3> QED
        BY <3>2, <3>3, BlocksFacts
    <2> QED
      BY <1>2, <1>5, <2>1, <2>2
  <1>6. \A h \in x.lo .. (x.hi - 1) : \A j \in 1 .. m :
          LET c == Others(l)[j]
          IN  /\ Segment(o, x.pos[<<h, j - 1>>], Blocks(c, x.at[h][c], x.at[h + 1][c]))
              /\ x.pos[<<h, j>>] = x.pos[<<h, j - 1>>] + (x.at[h + 1][c] - x.at[h][c])
    <2>1. \A h \in x.lo .. (x.hi - 1) : \A j \in 1 .. m :
            LET c == Others(l)[j]
            IN  /\ Segment(a, x.pos[<<h, j - 1>>], Blocks(c, x.at[h][c], x.at[h + 1][c]))
                /\ x.pos[<<h, j>>] = x.pos[<<h, j - 1>>] + (x.at[h + 1][c] - x.at[h][c])
      BY Zenon DEF LaidOut, m
    <2> QED
      BY Zenon, <1>5, <2>1
  <1>7. ASSUME NEW h \in x.lo .. (x.hi - 1)
        PROVE  /\ x.pos[<<h, m>>] + 1 <= Len(o)
               /\ o[x.pos[<<h, m>>] + 1] = <<l, h + 1>>
               /\ x.pos[<<h + 1, 0>>] = x.pos[<<h, m>>] + 1
    <2> DEFINE p == x.pos[<<h, m>>]
    <2>1. p + 1 <= Len(a) /\ a[p + 1] = <<l, h + 1>> /\ x.pos[<<h + 1, 0>>] = p + 1
      BY DEF LaidOut, m
    <2>2. p \in Nat
      <3>1. h \in x.lo .. x.hi /\ m \in 0 .. m
        BY <1>3, <1>4
      <3> QED
        BY <1>3, <3>1
    <2> HIDE DEF p
    <2>3. p + 1 \in 1 .. Len(a) /\ p + 1 <= Len(o)
      BY <1>1, <2>1, <2>2
    <2>4. o[p + 1] = <<l, h + 1>>
      BY <1>1, <2>1, <2>3
    <2> QED
      BY <2>1, <2>3, <2>4 DEF p
  <1>8. /\ \A h \in x.lo .. x.hi : x.at[h][l] = h
        /\ \A h \in x.lo .. (x.hi - 1) : \A c \in Chains \ {l} :
             /\ r[h + 1][c] \in Nat
             /\ x.at[h + 1][c] = IF x.at[h][c] < r[h + 1][c] THEN r[h + 1][c] ELSE x.at[h][c]
    BY DEF LaidOut
  <1>9. LaidOut(o, r, l, x)
    BY Zenon, <1>3, <1>6, <1>7, <1>8 DEF LaidOut, m
  <1> QED
    BY <1>9 DEF o

\* z is x, k blocks later in the order.
Later(z, x, k) ==
  /\ z.lo = x.lo /\ z.hi = x.hi /\ z.at = x.at
  /\ \A w \in (x.lo .. x.hi) \X (0 .. (Len(Keys) - 1)) : z.pos[w] = k + x.pos[w]

\* What lays out b lays out a \o b, later.
LEMMA LaidAfter ==
  ASSUME NEW a \in Seq(Pairs), NEW b \in Seq(Pairs), NEW r, NEW l \in Chains, NEW x,
         LaidOut(b, r, l, x)
  PROVE  \E z : Later(z, x, Len(a)) /\ LaidOut(a \o b, r, l, z)
  <1> DEFINE m == Len(Keys) - 1
             o == a \o b
             n == Len(a)
             pos == [w \in (x.lo .. x.hi) \X (0 .. m) |-> n + x.pos[w]]
             z == [lo |-> x.lo, hi |-> x.hi, at |-> x.at, pos |-> pos]
  <1>1. /\ Len(o) = n + Len(b) /\ n \in Nat /\ Len(b) \in Nat
        /\ \A i \in 1 .. Len(b) : o[n + i] = b[i]
    <2>1. \A i \in 1 .. (Len(a) + Len(b)) :
            (a \o b)[i] = IF i <= Len(a) THEN a[i] ELSE b[i - Len(a)]
      BY ConcatProperties
    <2>2. Len(a) \in Nat /\ Len(b) \in Nat /\ Len(a \o b) = Len(a) + Len(b)
      BY ConcatLen
    <2>3. \A i \in 1 .. Len(b) : /\ Len(a) + i \in 1 .. (Len(a) + Len(b))
                                 /\ ~(Len(a) + i <= Len(a)) /\ (Len(a) + i) - Len(a) = i
      BY <2>2
    <2> QED
      BY <2>1, <2>2, <2>3
  <1>2. \A q \in Nat : \A y \in Seq(Pairs) : Segment(b, q, y) => Segment(o, n + q, y)
    BY SegmentJoined
  <1> HIDE DEF o, n
  <1>3. /\ x.lo \in Nat /\ x.hi \in Nat /\ x.lo <= x.hi
        /\ x.at \in [x.lo .. x.hi -> [Chains -> Nat]]
        /\ x.pos \in [(x.lo .. x.hi) \X (0 .. m) -> Nat]
    BY ONLY LaidOut(b, r, l, x), Zenon DEF LaidOut
  <1>4. m \in Nat /\ m # 0 /\ \A j \in 1 .. m : Others(l)[j] \in Chains
    <2>1. m \in Nat /\ m # 0
      BY ONLY KeysFacts
    <2>2. \A j \in 1 .. m : Others(l)[j] \in Chains \ {l}
      BY OthersFacts
    <2> QED
      BY <2>1, <2>2
  <1> HIDE DEF m
  <1>5. z.lo = x.lo /\ z.hi = x.hi /\ z.at = x.at /\ z.pos = pos
    OBVIOUS
  <1> HIDE DEF z
  <1>6. pos \in [(x.lo .. x.hi) \X (0 .. m) -> Nat]
    BY <1>1, <1>3
  <1>7. ASSUME NEW h \in x.lo .. x.hi, NEW j \in 0 .. m
        PROVE  pos[<<h, j>>] = n + x.pos[<<h, j>>] /\ x.pos[<<h, j>>] \in Nat
    <2>1. <<h, j>> \in (x.lo .. x.hi) \X (0 .. m)
      OBVIOUS
    <2> QED
      BY <1>3, <2>1
  <1>8. \A w \in (x.lo .. x.hi) \X (0 .. m) : pos[w] = n + x.pos[w]
    OBVIOUS
  <1> HIDE DEF pos
  <1>9. Later(z, x, n)
    BY <1>5, <1>8 DEF Later, m
  <1>10. ASSUME NEW h \in x.lo .. (x.hi - 1), NEW j \in 1 .. m, NEW c, c = Others(l)[j]
         PROVE  /\ Segment(o, pos[<<h, j - 1>>], Blocks(c, x.at[h][c], x.at[h + 1][c]))
                /\ pos[<<h, j>>] = pos[<<h, j - 1>>] + (x.at[h + 1][c] - x.at[h][c])
    <2>1. /\ Segment(b, x.pos[<<h, j - 1>>], Blocks(c, x.at[h][c], x.at[h + 1][c]))
          /\ x.pos[<<h, j>>] = x.pos[<<h, j - 1>>] + (x.at[h + 1][c] - x.at[h][c])
      BY Zenon, <1>10 DEF LaidOut, m
    <2>2. h \in x.lo .. x.hi /\ h + 1 \in x.lo .. x.hi /\ j - 1 \in 0 .. m /\ j \in 0 .. m
      BY <1>3, <1>4
    <2>3. /\ pos[<<h, j - 1>>] = n + x.pos[<<h, j - 1>>] /\ x.pos[<<h, j - 1>>] \in Nat
          /\ pos[<<h, j>>] = n + x.pos[<<h, j>>] /\ x.pos[<<h, j>>] \in Nat
      BY <1>7, <2>2
    <2>4. c \in Chains /\ x.at[h][c] \in Nat /\ x.at[h + 1][c] \in Nat
      <3>1. c \in Chains
        BY <1>4, <1>10
      <3> QED
        BY <1>3, <2>2, <3>1
    <2>5. Blocks(c, x.at[h][c], x.at[h + 1][c]) \in Seq(Pairs)
      BY <2>4, BlocksFacts
    <2>6. Segment(o, pos[<<h, j - 1>>], Blocks(c, x.at[h][c], x.at[h + 1][c]))
      BY <1>2, <2>1, <2>3, <2>5
    <2>7. pos[<<h, j>>] = pos[<<h, j - 1>>] + (x.at[h + 1][c] - x.at[h][c])
      <3> DEFINE d == x.at[h + 1][c] - x.at[h][c]
                 p == x.pos[<<h, j - 1>>]
      <3>1. d \in Int
        BY <2>4
      <3> HIDE DEF d, p
      <3>2. n + (p + d) = (n + p) + d
        BY <1>1, <2>3, <3>1 DEF p
      <3> QED
        BY Zenon, <2>1, <2>3, <3>2 DEF d, p
    <2> QED
      BY <2>6, <2>7
  <1>11. ASSUME NEW h \in x.lo .. (x.hi - 1)
         PROVE  /\ pos[<<h, m>>] + 1 <= Len(o)
                /\ o[pos[<<h, m>>] + 1] = <<l, h + 1>>
                /\ pos[<<h + 1, 0>>] = pos[<<h, m>>] + 1
    <2> DEFINE p == x.pos[<<h, m>>]
    <2>1. p + 1 <= Len(b) /\ b[p + 1] = <<l, h + 1>> /\ x.pos[<<h + 1, 0>>] = p + 1
      BY DEF LaidOut, m
    <2>2. h \in x.lo .. x.hi /\ h + 1 \in x.lo .. x.hi /\ m \in 0 .. m /\ 0 \in 0 .. m
      BY <1>3, <1>4
    <2>3. p \in Nat /\ pos[<<h, m>>] = n + p /\ pos[<<h + 1, 0>>] = n + (p + 1)
      BY <1>7, <2>1, <2>2
    <2> HIDE DEF p
    <2>4. p + 1 \in 1 .. Len(b) /\ (n + p) + 1 = n + (p + 1) /\ (n + p) + 1 <= Len(o)
      BY <1>1, <2>1, <2>3
    <2>5. o[n + (p + 1)] = <<l, h + 1>>
      BY <1>1, <2>1, <2>4
    <2> QED
      BY <2>3, <2>4, <2>5
  <1>12. /\ \A h \in x.lo .. x.hi : x.at[h][l] = h
         /\ \A h \in x.lo .. (x.hi - 1) : \A c \in Chains \ {l} :
              /\ r[h + 1][c] \in Nat
              /\ x.at[h + 1][c] = IF x.at[h][c] < r[h + 1][c] THEN r[h + 1][c] ELSE x.at[h][c]
    BY DEF LaidOut
  <1>13. /\ z.lo \in Nat /\ z.hi \in Nat /\ z.lo <= z.hi
         /\ z.at \in [z.lo .. z.hi -> [Chains -> Nat]]
         /\ z.pos \in [(z.lo .. z.hi) \X (0 .. m) -> Nat]
    BY Zenon, <1>3, <1>5, <1>6
  <1>14. /\ \A h \in z.lo .. z.hi : z.at[h][l] = h
         /\ \A h \in z.lo .. (z.hi - 1) : \A c \in Chains \ {l} :
              /\ r[h + 1][c] \in Nat
              /\ z.at[h + 1][c] = IF z.at[h][c] < r[h + 1][c] THEN r[h + 1][c] ELSE z.at[h][c]
    BY ONLY <1>5, <1>12
  <1>15. \A h \in z.lo .. (z.hi - 1) : \A j \in 1 .. m :
           LET c == Others(l)[j]
           IN  /\ Segment(o, z.pos[<<h, j - 1>>], Blocks(c, z.at[h][c], z.at[h + 1][c]))
               /\ z.pos[<<h, j>>] = z.pos[<<h, j - 1>>] + (z.at[h + 1][c] - z.at[h][c])
    <2>1. \A h \in x.lo .. (x.hi - 1) : \A j \in 1 .. m :
            LET c == Others(l)[j]
            IN  /\ Segment(o, pos[<<h, j - 1>>], Blocks(c, x.at[h][c], x.at[h + 1][c]))
                /\ pos[<<h, j>>] = pos[<<h, j - 1>>] + (x.at[h + 1][c] - x.at[h][c])
      BY Zenon, <1>10
    <2> QED
      BY Zenon, <1>5, <2>1
  <1>16. \A h \in z.lo .. (z.hi - 1) :
           /\ z.pos[<<h, m>>] + 1 <= Len(o)
           /\ o[z.pos[<<h, m>>] + 1] = <<l, h + 1>>
           /\ z.pos[<<h + 1, 0>>] = z.pos[<<h, m>>] + 1
    BY Zenon, <1>5, <1>11
  <1>17. LaidOut(o, r, l, z)
    BY Zenon, <1>13, <1>14, <1>15, <1>16 DEF LaidOut, m
  <1> QED
    BY <1>9, <1>17 DEF o, n

-----------------------------------------------------------------------------
Zeros == [c \in Chains |-> 0]

\* The blocks that the epoch change gives up: those of the first leader above
\* the height decided and below the one at which its chain restarts.
Gap == {First} \X ((decided + 1) .. (Restart - 1))

\* Blocks of the leader reference heights.
Referencing ==
  /\ \A h \in 1 .. decided : \A c \in Chains \ {First} : references[1][h][c] \in Nat
  /\ \A h \in 1 .. (Top[Second] - 2) :
       \A c \in Chains \ {Second} : references[2][h][c] \in Nat

\* What the assumption on the constants says of the heights.
LEMMA ConstantsFacts ==
  /\ Decisions \subseteq Nat /\ \A d \in Decisions : d >= 1 /\ d >= Top[First] - 2
  /\ NEXT_EPOCH_HEIGHT \in Nat /\ NEXT_EPOCH_HEIGHT >= 3
  /\ \A c \in Chains : Top[c] \in Nat /\ Referenced[c] \subseteq Nat
  /\ Top[Second] >= 3
  /\ decided \in Decisions => Restart \in Nat /\ Restart - 1 \in Nat /\ decided <= Restart - 1
  <1>1. /\ First \in Chains /\ Second \in Chains
    BY KeysFacts
  <1>2. /\ Top \in [Chains -> Nat] /\ Referenced \in [Chains -> SUBSET Nat]
        /\ Decisions \subseteq 1 .. Top[First]
        /\ \A h \in Decisions : h >= Top[First] - 2
        /\ NEXT_EPOCH_HEIGHT \in Nat /\ NEXT_EPOCH_HEIGHT >= 3 /\ Top[Second] >= 3
    BY CommitAssumption
  <1>3. Decisions \subseteq Nat /\ \A d \in Decisions : d >= 1
    BY <1>1, <1>2
  <1>4. decided \in Decisions => Restart \in Nat /\ Restart - 1 \in Nat /\ decided <= Restart - 1
    BY <1>2, <1>3 DEF Restart
  <1> QED
    BY <1>2, <1>3, <1>4

\* The references are heights from the start.
LEMMA InitReferencing ==
  ASSUME Init
  PROVE  Referencing
  <1>1. decided \in Decisions
    BY DEF Init
  <1>2. PICK r \in References(0, 1 .. decided, {}),
             q \in References(1, 1 .. (Top[Second] - 2), {Restart}) : references = <<r, q>>
    BY DEF Init
  <1>3. \A h \in 1 .. decided : \A c \in Chains \ {First} : r[h][c] \in Nat
    <2>1. \A c \in Chains \ {First} : \A h \in 1 .. decided :
            r[h][c] \in Referenced[c] \cup {0} \cup (IF c = First THEN {} ELSE {})
      BY <1>2 DEF References, First
    <2> QED
      BY <2>1, ConstantsFacts
  <1>4. \A h \in 1 .. (Top[Second] - 2) : \A c \in Chains \ {Second} : q[h][c] \in Nat
    <2>1. \A c \in Chains \ {Second} : \A h \in 1 .. (Top[Second] - 2) :
            q[h][c] \in Referenced[c] \cup {0} \cup (IF c = First THEN {Restart} ELSE {})
      BY <1>2 DEF References, Second
    <2>2. Restart \in Nat
      BY <1>1, ConstantsFacts
    <2> QED
      BY <2>1, <2>2, ConstantsFacts
  <1>5. references[1] = r /\ references[2] = q
    BY <1>2
  <1> QED
    BY <1>3, <1>4, <1>5 DEF Referencing

\* Where the first epoch leaves the chains.
LEMMA CoverAtChange ==
  ASSUME decided \in Nat, NEW c \in Chains, c # First
  PROVE  AtChange[c] = Cover(references[1], First, Zeros, decided, c)
  <1>1. AtChange[c] = Max({0} \cup {references[1][h][c] : h \in 1 .. decided})
    BY DEF AtChange
  <1>2. Zeros[c] = 0 /\ Zeros[First] + 1 = 1
    BY KeysFacts DEF Zeros
  <1>3. Cover(references[1], First, Zeros, decided, c)
          = Max({Zeros[c]} \cup {references[1][i][c] : i \in (Zeros[First] + 1) .. decided})
    BY DEF Cover
  <1> QED
    BY Zenon, <1>1, <1>2, <1>3

\* Nothing of the order is below the heights at which the chains start.
LEMMA ExactAtStart ==
  ASSUME NEW o \in Seq(Pairs)
  PROVE  Exact(o, 0, Zeros, {}) /\ Clear(Zeros, {})
  <1>1. \A b \in Pairs : b[2] \notin 1 .. Zeros[b[1]]
    BY DEF Pairs, Zeros
  <1>2. Below(Zeros, {}) = {}
    BY <1>1 DEF Below
  <1> QED
    BY <1>2 DEF Exact, Clear

\* The first leader's chain jumps over the gap, which adds no block.
LEMMA ExactJumps ==
  ASSUME decided \in Decisions, NEW o, NEW p, NEW mark \in [Chains -> Nat],
         mark[First] = decided, Exact(o, p, mark, {})
  PROVE  /\ Exact(o, p, Raise(mark, First, Restart - 1), Gap)
         /\ Clear(Raise(mark, First, Restart - 1), Gap)
  <1> DEFINE up == Raise(mark, First, Restart - 1)
  <1>1. /\ First \in Chains /\ decided \in Nat /\ Restart - 1 \in Nat /\ decided <= Restart - 1
    BY KeysFacts, ConstantsFacts
  <1>2. up[First] = Restart - 1 /\ \A c \in Chains : c # First => up[c] = mark[c]
    BY <1>1 DEF Raise
  <1> HIDE DEF up
  <1>3. \A b \in Pairs : b \in Gap <=> b[1] = First /\ b[2] \in (decided + 1) .. (Restart - 1)
    BY DEF Pairs, Gap
  <1>4. Below(up, Gap) = Below(mark, {})
    <2>1. ASSUME NEW b \in Pairs
          PROVE  (b[2] \in 1 .. up[b[1]] /\ b \notin Gap) <=> b[2] \in 1 .. mark[b[1]]
      <3>1. b[1] \in Chains /\ b[2] \in Nat
        BY DEF Pairs
      <3>2. CASE b[1] = First
        <4>1. b \in Gap <=> b[2] \in (decided + 1) .. (Restart - 1)
          BY <1>3, <3>2
        <4>2. up[b[1]] = Restart - 1 /\ mark[b[1]] = decided
          BY <1>2, <3>2
        <4> QED
          BY <1>1, <3>1, <4>1, <4>2
      <3>3. CASE b[1] # First
        BY <1>2, <1>3, <3>1, <3>3
      <3> QED
        BY <3>2, <3>3
    <2> QED
      BY <2>1 DEF Below
  <1>5. Clear(up, Gap)
    <2> SUFFICES ASSUME NEW c \in Chains, NEW i \in Nat, i > up[c] PROVE <<c, i>> \notin Gap
      BY DEF Clear
    <2> QED
      BY <1>1, <1>2 DEF Gap
  <1>6. Exact(o, p, up, Gap)
    BY <1>4 DEF Exact
  <1> QED
    BY <1>5, <1>6 DEF up

\* At every place of an epoch the order has the blocks below the heights.
Everywhere(x, l, gap) ==
  \A h \in x.lo .. x.hi : \A j \in 0 .. (Len(Keys) - 1) :
    Place(x, h, j) => Exact(order, x.pos[<<h, j>>], Mark(x, l, h, j), gap)

\* The order: x lays out what it has of epoch 0 and y what it has of epoch 1.
Layout(x, y) ==
  /\ order \in Seq(Pairs) /\ Distinct(order)
  /\ LaidOut(order, references[1], First, x)
  /\ LaidOut(order, references[2], Second, y)
  /\ x.lo = 0 /\ x.at[0] = Zeros /\ x.pos[<<0, 0>>] = 0
  /\ x.hi = decided /\ Top[Second] - 2 <= y.hi
  /\ y.at[y.lo] = Raise(x.at[x.hi], First, Restart - 1)
  /\ y.pos[<<y.lo, 0>>] = x.pos[<<x.hi, 0>>]
  /\ Everywhere(x, First, {}) /\ Everywhere(y, Second, Gap)

\* The references of the first epoch lay out the first part of the order, those
\* of the second the rest.
LEMMA FirstLaid ==
  ASSUME decided \in Decisions, Referencing
  PROVE  LET a == OrderOf(0, Zeros, decided)
         IN  a \in Seq(Pairs) /\ \E x : /\ LaidOut(a, references[1], First, x)
                                        /\ Whole(a, references[1], First, Zeros, decided, x)
  <1>1. First \in Chains /\ get_leader(0) = First /\ decided \in Int /\ 0 + 1 = 1
    BY KeysFacts, ConstantsFacts DEF First
  <1>2. OrderOf(0, Zeros, decided) = FlattenSeq(Layers(references[1], First, Zeros, decided))
    <2>1. OrderOf(0, Zeros, decided) =
            FlattenSeq(Layers(references[0 + 1], get_leader(0), Zeros, decided))
      BY <1>1, OrderOfLayers
    <2> QED
      BY <1>1, <2>1
  <1>3. /\ Zeros \in [Chains -> Nat]
        /\ \A i \in (Zeros[First] + 1) .. decided : \A c \in Chains \ {First} :
             references[1][i][c] \in Nat
    <2>1. Zeros \in [Chains -> Nat] /\ Zeros[First] + 1 = 1
      BY <1>1 DEF Zeros
    <2> QED
      BY <2>1 DEF Referencing
  <1> QED
    BY <1>1, <1>2, <1>3, LayersLaid

\* And of the second epoch, from where the first leaves the chains.
LEMMA SecondLaid ==
  ASSUME Referencing, AtChange \in [Chains -> Nat]
  PROVE  LET top == Top[Second] - 2
             b == OrderOf(1, AtChange, top)
         IN  b \in Seq(Pairs) /\ \E y : /\ LaidOut(b, references[2], Second, y)
                                        /\ Whole(b, references[2], Second, AtChange, top, y)
  <1> DEFINE top == Top[Second] - 2
  <1>1. Second \in Chains /\ get_leader(1) = Second /\ top \in Int /\ 1 + 1 = 2
    BY KeysFacts, ConstantsFacts DEF Second
  <1>2. OrderOf(1, AtChange, top) = FlattenSeq(Layers(references[2], Second, AtChange, top))
    <2>1. OrderOf(1, AtChange, top) =
            FlattenSeq(Layers(references[1 + 1], get_leader(1), AtChange, top))
      BY <1>1, OrderOfLayers
    <2> QED
      BY <1>1, <2>1
  <1>3. \A i \in (AtChange[Second] + 1) .. top : \A c \in Chains \ {Second} :
          references[2][i][c] \in Nat
    <2>1. AtChange[Second] \in Nat
      BY <1>1
    <2>2. \A i \in (AtChange[Second] + 1) .. top : i \in 1 .. top
      BY <1>1, <2>1
    <2> QED
      BY <2>2 DEF Referencing
  <1> HIDE DEF top
  <1>4. LET b == FlattenSeq(Layers(references[2], Second, AtChange, top))
        IN  b \in Seq(Pairs) /\ \E y : /\ LaidOut(b, references[2], Second, y)
                                       /\ Whole(b, references[2], Second, AtChange, top, y)
    BY <1>1, <1>3, LayersLaid
  <1> QED
    BY <1>2, <1>4 DEF top

\* The second part starts where the first ends, with the first leader's chain
\* at the end of the gap.
LEMMA AtChangeIs ==
  ASSUME decided \in Decisions, NEW a, NEW x, LaidOut(a, references[1], First, x),
         Whole(a, references[1], First, Zeros, decided, x)
  PROVE  /\ x.lo = 0 /\ x.hi = decided /\ x.at[0] = Zeros
         /\ x.pos[<<0, 0>>] = 0 /\ x.pos[<<decided, 0>>] = Len(a)
         /\ x.at[decided] \in [Chains -> Nat]
         /\ AtChange = Raise(x.at[decided], First, Restart - 1)
         /\ AtChange \in [Chains -> Nat]
  <1>1. /\ First \in Chains /\ Zeros[First] = 0 /\ decided \in Nat /\ 0 <= decided
        /\ Restart - 1 \in Nat
    BY KeysFacts, ConstantsFacts DEF Zeros
  <1>2. /\ x.lo = 0 /\ x.hi = decided /\ x.at[0] = Zeros
        /\ x.pos[<<0, 0>>] = 0 /\ x.pos[<<decided, 0>>] = Len(a)
        /\ \A c \in Chains \ {First} :
             x.at[decided][c] = Cover(references[1], First, Zeros, decided, c)
    <2>1. x.lo = 0 /\ x.hi = decided
      BY <1>1 DEF Whole
    <2>2. decided \in x.lo .. x.hi
      BY <1>1, <2>1
    <2> QED
      BY <2>1, <2>2 DEF Whole
  <1>3. x.at[decided] \in [Chains -> Nat]
    <2>1. x.at \in [x.lo .. x.hi -> [Chains -> Nat]] /\ decided \in x.lo .. x.hi
      BY <1>1, <1>2 DEF LaidOut
    <2> QED
      BY <2>1
  <1>4. \A c \in Chains : AtChange[c] = IF c = First THEN Restart - 1 ELSE x.at[decided][c]
    <2>1. AtChange[First] = Restart - 1
      BY <1>1 DEF AtChange
    <2>2. \A c \in Chains \ {First} : AtChange[c] = x.at[decided][c]
      BY <1>1, <1>2, CoverAtChange
    <2> QED
      BY <2>1, <2>2
  <1>5. AtChange = [c \in Chains |-> AtChange[c]]
    BY DEF AtChange
  <1>6. AtChange = [c \in Chains |-> IF c = First THEN Restart - 1 ELSE x.at[decided][c]]
    BY <1>4, <1>5
  <1>7. AtChange = Raise(x.at[decided], First, Restart - 1)
    BY <1>1, <1>3, <1>6 DEF Raise
  <1>8. AtChange \in [Chains -> Nat]
    BY <1>1, <1>3, <1>6
  <1> QED
    BY <1>2, <1>3, <1>7, <1>8

\* What holds where an epoch starts holds at every place of it.
LEMMA LaidEverywhere ==
  ASSUME order \in Seq(Pairs), NEW r, NEW l \in Chains, NEW x, LaidOut(order, r, l, x), NEW gap,
         Exact(order, x.pos[<<x.lo, 0>>], x.at[x.lo], gap), Clear(x.at[x.lo], gap)
  PROVE  Everywhere(x, l, gap)
  BY EpochExact DEF Everywhere

\* The order has a layout from the start.
LEMMA InitLayout ==
  ASSUME Init
  PROVE  \E x, y : Layout(x, y)
  <1> DEFINE a == OrderOf(0, Zeros, decided)
             top == Top[Second] - 2
             b == OrderOf(1, AtChange, top)
  <1>1. /\ decided \in Decisions /\ Referencing /\ order = a \o b
        /\ First \in Chains /\ Second \in Chains
    BY InitReferencing, KeysFacts DEF Init, TotalOrder, Zeros
  <1>2. a \in Seq(Pairs) /\ \E x : /\ LaidOut(a, references[1], First, x)
                                   /\ Whole(a, references[1], First, Zeros, decided, x)
    BY <1>1, FirstLaid
  <1>3. PICK x : /\ LaidOut(a, references[1], First, x)
                 /\ Whole(a, references[1], First, Zeros, decided, x)
    BY <1>2
  <1>4. /\ x.lo = 0 /\ x.hi = decided /\ x.at[0] = Zeros
        /\ x.pos[<<0, 0>>] = 0 /\ x.pos[<<decided, 0>>] = Len(a)
        /\ x.at[decided] \in [Chains -> Nat]
        /\ AtChange = Raise(x.at[decided], First, Restart - 1)
        /\ AtChange \in [Chains -> Nat]
    BY <1>1, <1>3, AtChangeIs
  <1>5. b \in Seq(Pairs) /\ \E y : /\ LaidOut(b, references[2], Second, y)
                                   /\ Whole(b, references[2], Second, AtChange, top, y)
    BY <1>1, <1>4, SecondLaid
  <1>6. PICK y : /\ LaidOut(b, references[2], Second, y)
                 /\ Whole(b, references[2], Second, AtChange, top, y)
    BY <1>5
  <1>7. order \in Seq(Pairs) /\ Len(order) = Len(a) + Len(b) /\ Len(a) \in Nat /\ Len(b) \in Nat
    <2>1. a \o b \in Seq(Pairs)
      BY <1>2, <1>5
    <2> QED
      BY <1>1, <1>2, <1>5, <2>1, ConcatLen
  <1>8. LaidOut(order, references[1], First, x)
    BY <1>1, <1>2, <1>3, <1>5, LaidBefore
  <1>9. PICK z : Later(z, y, Len(a)) /\ LaidOut(order, references[2], Second, z)
    BY <1>1, <1>2, <1>5, <1>6, LaidAfter
  <1> HIDE DEF a, b
  <1>10. /\ y.lo \in Nat /\ y.hi \in Nat /\ y.lo <= y.hi /\ top <= y.hi
         /\ y.at[y.lo] = AtChange /\ y.pos[<<y.lo, 0>>] = 0 /\ y.pos[<<y.hi, 0>>] = Len(b)
    <2>1. y.lo \in Nat /\ y.hi \in Nat /\ y.lo <= y.hi
      BY <1>6 DEF LaidOut
    <2>2. /\ y.hi = IF AtChange[Second] <= top THEN top ELSE AtChange[Second]
          /\ y.at[y.lo] = AtChange /\ y.pos[<<y.lo, 0>>] = 0 /\ y.pos[<<y.hi, 0>>] = Len(b)
      BY <1>6 DEF Whole
    <2>3. top \in Int /\ AtChange[Second] \in Nat
      BY <1>1, <1>4, ConstantsFacts
    <2> HIDE DEF top
    <2>4. top <= y.hi
      BY <2>2, <2>3
    <2> QED
      BY <2>1, <2>2, <2>4
  <1> HIDE DEF top
  <1>11. /\ z.lo = y.lo /\ z.hi = y.hi /\ z.at = y.at
         /\ z.pos[<<z.lo, 0>>] = Len(a) /\ z.pos[<<z.hi, 0>>] = Len(order)
    <2>1. 0 \in 0 .. (Len(Keys) - 1) /\ y.lo \in y.lo .. y.hi /\ y.hi \in y.lo .. y.hi
      BY <1>10, KeysFacts
    <2>2. /\ <<y.lo, 0>> \in (y.lo .. y.hi) \X (0 .. (Len(Keys) - 1))
          /\ <<y.hi, 0>> \in (y.lo .. y.hi) \X (0 .. (Len(Keys) - 1))
      BY <2>1
    <2>3. /\ z.lo = y.lo /\ z.hi = y.hi /\ z.at = y.at
          /\ z.pos[<<y.lo, 0>>] = Len(a) + y.pos[<<y.lo, 0>>]
          /\ z.pos[<<y.hi, 0>>] = Len(a) + y.pos[<<y.hi, 0>>]
      BY <1>9, <2>2 DEF Later
    <2>4. Len(a) + 0 = Len(a)
      BY <1>7
    <2> QED
      BY <1>7, <1>10, <2>3, <2>4
  <1>12. Everywhere(x, First, {})
    BY <1>1, <1>4, <1>7, <1>8, ExactAtStart, LaidEverywhere
  <1>13. Exact(order, Len(a), x.at[decided], {}) /\ x.at[decided][First] = decided
    <2>1. decided \in x.lo .. x.hi /\ 0 \in 0 .. (Len(Keys) - 1)
      BY <1>1, <1>4, KeysFacts, ConstantsFacts
    <2>2. Place(x, decided, 0)
      BY <2>1 DEF Place
    <2>3. Exact(order, x.pos[<<decided, 0>>], Mark(x, First, decided, 0), {})
      BY <1>12, <2>1, <2>2 DEF Everywhere
    <2>4. Mark(x, First, decided, 0) = x.at[decided]
      BY DEF Mark
    <2>5. x.at[decided][First] = decided
      BY <1>8, <2>1 DEF LaidOut
    <2> QED
      BY <1>4, <2>3, <2>4, <2>5
  <1>14. Exact(order, Len(a), AtChange, Gap) /\ Clear(AtChange, Gap)
    BY <1>1, <1>4, <1>13, ExactJumps
  <1>15. z.at[z.lo] = AtChange
    BY <1>10, <1>11
  <1>16. Everywhere(z, Second, Gap)
    BY <1>1, <1>7, <1>9, <1>11, <1>14, <1>15, LaidEverywhere
  <1>17. Distinct(order)
    <2>1. z.hi \in z.lo .. z.hi /\ 0 \in 0 .. (Len(Keys) - 1)
      BY <1>10, <1>11, KeysFacts
    <2>2. Place(z, z.hi, 0)
      BY <2>1 DEF Place
    <2>3. Exact(order, z.pos[<<z.hi, 0>>], Mark(z, Second, z.hi, 0), Gap)
      BY <1>16, <2>1, <2>2 DEF Everywhere
    <2> QED
      BY <1>11, <2>3 DEF Exact, Distinct
  <1>18. z.at[z.lo] = Raise(x.at[x.hi], First, Restart - 1)
    BY <1>4, <1>15
  <1>19. z.pos[<<z.lo, 0>>] = x.pos[<<x.hi, 0>>]
    BY <1>4, <1>11
  <1>20. Top[Second] - 2 <= z.hi
    BY <1>10, <1>11 DEF top
  <1>21. Layout(x, z)
    BY <1>4, <1>7, <1>8, <1>9, <1>12, <1>16, <1>17, <1>18, <1>19, <1>20 DEF Layout
  <1> QED
    BY <1>21

-----------------------------------------------------------------------------
\* Unless a commit stopped half-way when the epoch ended, the application is in
\* step with the chains ...
Here(x, y) ==
  /\ epoch = 0 => InStep(order, x, First, last, sent)
  /\ epoch = 1 => InStep(order, y, Second, last, sent)

\* ... and if one did, what it had seen by then is in order.
Broken ==
  cut # None =>
    /\ epoch = 1 /\ cut <= Len(sent) /\ cut <= Len(order)
    /\ \A i \in 1 .. cut : sent[i] = order[i]

IInv ==
  /\ TypeOK
  /\ Referencing
  /\ Broken
  /\ \E x, y : Layout(x, y) /\ (cut = None => Here(x, y))

\* Blocks have heights, and the QC of a block certifies a block of the model.
LEMMA BlockFacts ==
  ASSUME decided \in Decisions
  PROVE  /\ Block \subseteq Pairs /\ \A b \in Block : b[2] >= 1
         /\ \A b \in Block : Parent(b) \subseteq Block
         /\ \A h \in 1 .. Top[First] : <<First, h>> \in Block
         /\ \A h : <<Second, h>> \in Block => h \in 1 .. Top[Second]
  <1>1. First \in Chains /\ Second \in Chains /\ First # Second
    BY KeysFacts
  <1>2. /\ \A c \in Chains : Top[c] \in Nat
        /\ Restart \in Nat /\ MaxNext \in Nat
    BY ConstantsFacts, CommitAssumption
  <1>3. ASSUME NEW b
        PROVE  b \in Block <=>
                 \/ \E c \in Chains : \E h \in 1 .. Top[c] : b = <<c, h>>
                 \/ \E h \in Restart .. (Restart + MaxNext - 1) : b = <<First, h>>
    BY DEF Block
  <1>4. Block \subseteq Pairs
    <2> SUFFICES ASSUME NEW b \in Block PROVE b \in Pairs
      OBVIOUS
    <2>1. CASE \E c \in Chains : \E h \in 1 .. Top[c] : b = <<c, h>>
      BY <1>2, <2>1 DEF Pairs
    <2>2. CASE \E h \in Restart .. (Restart + MaxNext - 1) : b = <<First, h>>
      <3>1. PICK h \in Restart .. (Restart + MaxNext - 1) : b = <<First, h>>
        BY <2>2
      <3>2. h \in Nat
        BY <1>2
      <3> QED
        BY <1>1, <3>1, <3>2 DEF Pairs
    <2> QED
      BY <1>3, <2>1, <2>2
  <1>5. \A b \in Block : Parent(b) \subseteq Block
    <2> SUFFICES ASSUME NEW b \in Block, b[2] \notin {1, Restart}
                 PROVE  <<b[1], b[2] - 1>> \in Block
      BY DEF Parent
    <2>1. CASE \E c \in Chains : \E h \in 1 .. Top[c] : b = <<c, h>>
      <3>1. PICK c \in Chains : \E h \in 1 .. Top[c] : b = <<c, h>>
        BY <2>1
      <3>2. PICK h \in 1 .. Top[c] : b = <<c, h>>
        BY <3>1
      <3>3. b[1] = c /\ b[2] = h /\ Top[c] \in Nat
        BY <1>2, <3>2
      <3>4. h - 1 \in 1 .. Top[c]
        BY <3>3
      <3> QED
        BY <1>3, <3>3, <3>4
    <2>2. CASE \E h \in Restart .. (Restart + MaxNext - 1) : b = <<First, h>>
      <3>1. PICK h \in Restart .. (Restart + MaxNext - 1) : b = <<First, h>>
        BY <2>2
      <3>2. b[1] = First /\ b[2] = h
        BY <3>1
      <3>3. h - 1 \in Restart .. (Restart + MaxNext - 1)
        BY <1>2, <3>2
      <3> QED
        BY <1>3, <3>2, <3>3
    <2> QED
      BY <1>3, <2>1, <2>2
  <1>6. \A h \in 1 .. Top[First] : <<First, h>> \in Block
    BY <1>1, <1>3
  <1>7. \A h : <<Second, h>> \in Block => h \in 1 .. Top[Second]
    BY <1>1, <1>3
  <1>8. \A b \in Block : b[2] >= 1
    <2>1. Restart >= 1
      BY ConstantsFacts DEF Restart
    <2> QED
      BY <1>2, <1>3, <2>1
  <1> QED
    BY <1>4, <1>5, <1>6, <1>7, <1>8

\* What a commit leaves, whatever it found.
LEMMA CommitTyped ==
  ASSUME TypeOK, NEW l \in Chains, NEW to \in Nat,
         \A h \in (last[l] + 1) .. to : HasRefs(h, l),
         NEW st \in SUBSET Block, NEW cert \in SUBSET Block,
         NEW s, s = commit_prev_block(st, cert, l, to), commit(s.out)
  PROVE  /\ s.last \in [Chains -> Nat] /\ s.ok \in BOOLEAN
         /\ sent' = Send(sent, s.out) /\ sent' \in Seq(Block)
         /\ Extends(sent, sent') /\ again' \subseteq Range(sent')
  <1>1. last \in [Chains -> Nat] /\ sent \in Seq(Block) /\ again \subseteq Range(sent)
    BY DEF TypeOK
  <1>2. PICK g : PrevValues(g, st, cert, l, to)
    BY <1>1, PrevFold
  <1>3. s \in Run /\ Within(s.out, st \cap cert)
    <2>1. Ahead(l, to) \in Nat
      <3>1. last[l] \in Nat
        BY <1>1
      <3> QED
        BY <3>1, BlocksFacts DEF Ahead
    <2>2. Ahead(l, to) \in 0 .. Ahead(l, to)
      BY <2>1
    <2> QED
      BY <1>2, <2>2 DEF PrevValues
  <1>4. s.last \in [Chains -> Nat] /\ s.ok \in BOOLEAN /\ s.out \in Seq(Pairs)
    BY <1>3 DEF Run
  <1>5. s.out \in Seq(Block)
    <2>1. \A i \in 1 .. Len(s.out) : s.out[i] \in Block
      BY <1>3 DEF Within
    <2>2. s.out \in [1 .. Len(s.out) -> Pairs] /\ Len(s.out) \in Nat
      BY <1>4
    <2>3. s.out \in [1 .. Len(s.out) -> Block]
      BY <2>1, <2>2
    <2> QED
      BY <2>2, <2>3
  <1>6. sent' = Send(sent, s.out) /\ again' = again \cup (Range(s.out) \cap Range(sent))
    BY DEF commit, Send
  <1>7. sent' \in Seq(Block) /\ Extends(sent, sent')
    BY <1>1, <1>5, <1>6, SendExtends
  <1>8. Range(sent) \subseteq Range(sent')
    <2>1. /\ DOMAIN sent = 1 .. Len(sent) /\ DOMAIN sent' = 1 .. Len(sent')
          /\ Len(sent) \in Nat /\ Len(sent') \in Nat
      BY <1>1, <1>7
    <2>2. \A i \in DOMAIN sent : i \in DOMAIN sent' /\ sent'[i] = sent[i]
      BY <1>7, <2>1 DEF Extends
    <2> QED
      BY <2>2 DEF Range
  <1>9. again' \subseteq Range(sent')
    BY <1>1, <1>6, <1>8
  <1> QED
    BY <1>4, <1>6, <1>7, <1>9

\* The commits that the code starts find references in every block they pass.
LEMMA CommitHeights ==
  ASSUME TypeOK, Referencing, NEW st, NEW c, NEW h, <<c, h>> \in Block, CommitsHead(st, c, h)
  PROVE  /\ h - 2 \in Nat
         /\ epoch = 0 => c = First /\ h - 2 <= decided
         /\ epoch = 1 => c = Second /\ h - 2 <= Top[Second] - 2
         /\ \A i \in (last[c] + 1) .. (h - 2) : HasRefs(i, c)
  <1>1. /\ decided \in Decisions /\ epoch \in {0, 1} /\ last \in [Chains -> Nat]
        /\ First \in Chains /\ Second \in Chains /\ First # Second
    BY KeysFacts DEF TypeOK
  <1>2. /\ c = get_leader(epoch) /\ h > 2 /\ (c = First => h <= Top[First])
    BY DEF CommitsHead
  <1>3. h \in Nat
    <2>1. <<c, h>> \in Chains \X Nat
      BY <1>1, BlockFacts DEF Pairs
    <2> QED
      BY <2>1
  <1>4. Top[First] \in Nat /\ Top[Second] \in Nat /\ decided \in Nat /\ decided >= Top[First] - 2
    BY <1>1, ConstantsFacts
  <1>5. CASE epoch = 0
    <2>1. c = First /\ h - 2 <= decided
      BY <1>2, <1>3, <1>4, <1>5 DEF First
    <2>2. \A i \in (last[c] + 1) .. (h - 2) : HasRefs(i, c)
      <3>1. last[c] \in Nat
        BY <1>1, <2>1
      <3>2. \A i \in (last[c] + 1) .. (h - 2) : i \in 1 .. decided
        BY <1>3, <1>4, <2>1, <3>1
      <3> QED
        BY <1>5, <2>1, <3>2 DEF HasRefs, Ref, Referencing
    <2> QED
      BY <1>2, <1>3, <1>5, <2>1, <2>2
  <1>6. CASE epoch = 1
    <2>1. c = Second
      BY <1>2, <1>6 DEF Second
    <2>2. h - 2 <= Top[Second] - 2
      <3>1. h \in 1 .. Top[Second]
        BY <1>1, <2>1, BlockFacts
      <3> QED
        BY <1>4, <3>1
    <2>3. \A i \in (last[c] + 1) .. (h - 2) : HasRefs(i, c)
      <3>1. last[c] \in Nat
        BY <1>1, <2>1
      <3>2. \A i \in (last[c] + 1) .. (h - 2) : i \in 1 .. (Top[Second] - 2)
        BY <1>3, <1>4, <2>2, <3>1
      <3> QED
        BY <1>6, <2>1, <3>2 DEF HasRefs, Ref, Referencing
    <2> QED
      BY <1>2, <1>3, <1>6, <2>1, <2>2, <2>3
  <1> QED
    BY <1>1, <1>5, <1>6

-----------------------------------------------------------------------------
\* The order and what lays it out do not change.
LEMMA LayoutStays ==
  ASSUME UNCHANGED fixed
  PROVE  /\ Restart' = Restart /\ Block' = Block
         /\ Referencing => Referencing'
         /\ \A x, y : Layout(x, y) => Layout(x, y)'
  <1>1. decided' = decided /\ references' = references /\ order' = order
    BY DEF fixed
  <1>2. Restart' = Restart
    BY <1>1 DEF Restart
  <1>3. Block' = Block
    BY <1>1, <1>2 DEF Block
  <1>4. Referencing => Referencing'
    BY <1>1 DEF Referencing
  <1>5. \A x, y : Layout(x, y) => Layout(x, y)'
    <2>1. Gap' = Gap
      BY <1>1, <1>2 DEF Gap
    <2> QED
      BY <1>1, <1>2, <2>1 DEF Layout, Everywhere
  <1> QED
    BY <1>2, <1>3, <1>4, <1>5

\* What had been sent when a commit stopped half-way stays.
LEMMA BrokenStays ==
  ASSUME TypeOK, Broken, UNCHANGED <<order, epoch, cut>>,
         sent' \in Seq(Block), Extends(sent, sent')
  PROVE  Broken'
  <1> SUFFICES ASSUME cut # None
               PROVE  /\ epoch = 1 /\ cut <= Len(sent') /\ cut <= Len(order)
                      /\ \A i \in 1 .. cut : sent'[i] = order[i]
    BY DEF Broken
  <1>1. /\ epoch = 1 /\ cut <= Len(sent) /\ cut <= Len(order)
        /\ \A i \in 1 .. cut : sent[i] = order[i]
    BY DEF Broken
  <1>2. cut \in Nat /\ Len(sent) \in Nat /\ Len(sent') \in Nat
    BY DEF TypeOK
  <1>3. cut <= Len(sent') /\ \A i \in 1 .. cut : i \in 1 .. Len(sent)
    BY <1>1, <1>2 DEF Extends
  <1>4. \A i \in 1 .. cut : sent'[i] = order[i]
    BY <1>1, <1>3 DEF Extends
  <1> QED
    BY <1>1, <1>3, <1>4

\* A commit through the 2-chain keeps the application in step with the chains.
LEMMA CommitHere ==
  ASSUME TypeOK, Referencing, NEW x, NEW y, Layout(x, y), Here(x, y),
         UNCHANGED <<order, epoch>>,
         NEW st, NEW cert, NEW c, NEW h, <<c, h>> \in Block, CommitsHead(st, c, h),
         NEW s, s = commit_prev_block(st, cert, c, h - 2),
         last' = s.last, sent' = Send(sent, s.out)
  PROVE  Here(x, y)'
  <1>1. /\ h - 2 \in Nat
        /\ epoch = 0 => c = First /\ h - 2 <= decided
        /\ epoch = 1 => c = Second /\ h - 2 <= Top[Second] - 2
        /\ \A i \in (last[c] + 1) .. (h - 2) : HasRefs(i, c)
    BY CommitHeights
  <1>2. /\ epoch \in {0, 1} /\ sent \in Seq(Pairs) /\ decided \in Decisions
        /\ First \in Chains /\ Second \in Chains
    <2>1. epoch \in {0, 1} /\ sent \in Seq(Block) /\ decided \in Decisions
      BY DEF TypeOK
    <2>2. Block \subseteq Pairs
      BY <2>1, BlockFacts
    <2>3. sent \in [1 .. Len(sent) -> Block] /\ Len(sent) \in Nat
      BY <2>1
    <2>4. sent \in [1 .. Len(sent) -> Pairs]
      BY <2>2, <2>3
    <2>5. sent \in Seq(Pairs)
      BY <2>3, <2>4
    <2> QED
      BY <2>1, <2>5, KeysFacts
  <1>3. /\ order \in Seq(Pairs) /\ Distinct(order)
        /\ LaidOut(order, references[1], First, x)
        /\ LaidOut(order, references[2], Second, y)
        /\ x.hi = decided /\ Top[Second] - 2 <= y.hi
    BY DEF Layout
  <1>4. CASE epoch = 0
    <2>1. LaidOut(order, references[epoch + 1], First, x) /\ InStep(order, x, First, last, sent)
      <3>1. epoch + 1 = 1
        BY <1>4
      <3> QED
        BY <1>3, <1>4, <3>1 DEF Here
    <2>2. c = First /\ h - 2 <= x.hi
      BY <1>1, <1>3, <1>4
    <2>3. InStep(order, x, First, s.last, Send(sent, s.out))
      BY <1>1, <1>2, <1>3, <2>1, <2>2, CommitInStep
    <2> QED
      BY <1>4, <2>3 DEF Here
  <1>5. CASE epoch = 1
    <2>1. /\ LaidOut(order, references[epoch + 1], Second, y)
          /\ InStep(order, y, Second, last, sent)
      <3>1. epoch + 1 = 2
        BY <1>5
      <3> QED
        BY <1>3, <1>5, <3>1 DEF Here
    <2>2. c = Second /\ h - 2 <= y.hi
      <3>1. Top[Second] \in Nat
        BY <1>2, ConstantsFacts
      <3>2. y.hi \in Nat
        BY <1>3 DEF LaidOut
      <3> QED
        BY <1>1, <1>3, <1>5, <3>1, <3>2
    <2>3. InStep(order, y, Second, s.last, Send(sent, s.out))
      BY <1>1, <1>2, <1>3, <2>1, <2>2, CommitInStep
    <2> QED
      BY <1>5, <2>3 DEF Here
  <1> QED
    BY <1>2, <1>4, <1>5

\* What was sent stays, and what counts of it is what there was or all of it.
Grows ==
  /\ sent' \in Seq(Block) /\ Extends(sent, sent')
  /\ cut' = cut \/ (cut = None /\ cut' = Len(sent'))

\* handle_proposal keeps the invariant.
LEMMA ProposalKeeps ==
  ASSUME IInv, NEW c, NEW h, <<c, h>> \in Block, HandleProposal(c, h)
  PROVE  IInv' /\ Grows
  <1> DEFINE st == stored \cup {<<c, h>>}
             cert == certified \cup Parent(<<c, h>>)
             s == commit_prev_block(st, cert, c, h - 2)
  <1>1. /\ UNCHANGED <<fixed, epoch, isViewChange, cut>>
        /\ stored' = st /\ certified' = cert
        /\ IF CommitsHead(st, c, h) THEN last' = s.last /\ commit(s.out)
           ELSE UNCHANGED <<last, sent, again>>
    BY DEF HandleProposal
  <1>2. TypeOK /\ Referencing /\ Broken
    BY DEF IInv
  <1>3. PICK x, y : Layout(x, y) /\ (cut = None => Here(x, y))
    BY DEF IInv
  <1>4. /\ decided \in Decisions /\ epoch \in {0, 1} /\ isViewChange \in BOOLEAN
        /\ stored \subseteq Block /\ certified \subseteq Block
        /\ last \in [Chains -> Nat] /\ sent \in Seq(Block) /\ again \subseteq Range(sent)
        /\ cut \in Nat \cup {None}
    BY <1>2 DEF TypeOK
  <1>5. st \in SUBSET Block /\ cert \in SUBSET Block
    BY <1>4, BlockFacts
  <1>6. /\ decided' = decided /\ UNCHANGED <<order, epoch>>
        /\ Restart' = Restart /\ Block' = Block /\ Referencing'
        /\ \A u, v : Layout(u, v) => Layout(u, v)'
    BY <1>1, <1>2, LayoutStays DEF fixed
  <1> HIDE DEF st, cert, s
  <1>7. /\ last' \in [Chains -> Nat] /\ sent' \in Seq(Block) /\ Extends(sent, sent')
        /\ again' \subseteq Range(sent')
        /\ CommitsHead(st, c, h) => last' = s.last /\ sent' = Send(sent, s.out)
    <2>1. CASE CommitsHead(st, c, h)
      <3>1. h - 2 \in Nat /\ \A i \in (last[c] + 1) .. (h - 2) : HasRefs(i, c)
        BY <1>2, <2>1, CommitHeights
      <3>2. c \in Chains
        BY <1>4, BlockFacts DEF Pairs
      <3>3. last' = s.last /\ commit(s.out)
        BY <1>1, <2>1
      <3>4. s = commit_prev_block(st, cert, c, h - 2)
        BY DEF s
      <3>5. /\ s.last \in [Chains -> Nat] /\ s.ok \in BOOLEAN
            /\ sent' = Send(sent, s.out) /\ sent' \in Seq(Block)
            /\ Extends(sent, sent') /\ again' \subseteq Range(sent')
        BY <1>2, <1>5, <3>1, <3>2, <3>3, <3>4, CommitTyped
      <3> QED
        BY <3>3, <3>5
    <2>2. CASE ~CommitsHead(st, c, h)
      <3>1. UNCHANGED <<last, sent, again>>
        BY <1>1, <2>2
      <3>2. Extends(sent, sent)
        BY <1>4 DEF Extends
      <3> QED
        BY <1>4, <2>2, <3>1, <3>2
    <2> QED
      BY <2>1, <2>2
  <1>8. TypeOK'
    BY <1>1, <1>4, <1>5, <1>6, <1>7 DEF TypeOK
  <1>9. Broken'
    BY <1>1, <1>2, <1>6, <1>7, BrokenStays
  <1>10. cut' = None => Here(x, y)'
    <2> SUFFICES ASSUME cut = None PROVE Here(x, y)'
      BY <1>1
    <2>1. CASE CommitsHead(st, c, h)
      <3>1. last' = s.last /\ sent' = Send(sent, s.out)
        BY <1>7, <2>1
      <3>2. s = commit_prev_block(st, cert, c, h - 2)
        BY DEF s
      <3> QED
        BY <1>2, <1>3, <1>6, <2>1, <3>1, <3>2, CommitHere
    <2>2. CASE ~CommitsHead(st, c, h)
      <3>1. UNCHANGED <<last, sent>>
        BY <1>1, <2>2
      <3> QED
        BY <1>3, <1>6, <3>1 DEF Here
    <2> QED
      BY <2>1, <2>2
  <1>11. Grows
    BY <1>1, <1>7 DEF Grows
  <1> QED
    BY <1>3, <1>6, <1>8, <1>9, <1>10, <1>11 DEF IInv

\* A step after which nothing but QCs and the flag of the view change differs.
LEMMA OtherKeeps ==
  ASSUME IInv, UNCHANGED <<fixed, epoch, stored, last, sent, again, cut>>,
         certified' \subseteq Block, isViewChange' \in BOOLEAN
  PROVE  IInv' /\ Grows
  <1>1. TypeOK /\ Referencing /\ Broken
    BY DEF IInv
  <1>2. PICK x, y : Layout(x, y) /\ (cut = None => Here(x, y))
    BY DEF IInv
  <1>3. /\ decided' = decided /\ order' = order
        /\ Block' = Block /\ Referencing' /\ \A u, v : Layout(u, v) => Layout(u, v)'
    BY <1>1, LayoutStays DEF fixed
  <1>4. TypeOK'
    BY <1>1, <1>3 DEF TypeOK
  <1>5. Broken'
    BY <1>1, <1>3 DEF Broken
  <1>6. cut' = None => Here(x, y)'
    BY <1>2, <1>3 DEF Here
  <1>7. Grows
    BY <1>1 DEF Grows, Extends, TypeOK
  <1> QED
    BY <1>2, <1>3, <1>4, <1>5, <1>6, <1>7 DEF IInv

\* The commit that ends the epoch reaches the height decided, and the chains are
\* where the next epoch starts, or it stops half-way.
LEMMA CommitEnds ==
  ASSUME TypeOK, Referencing, Broken, NEW x, NEW y, Layout(x, y), cut = None => Here(x, y),
         epoch = 0, NEW st \in SUBSET Block, NEW cert \in SUBSET Block,
         NEW s, s = commit_prev_block(st, cert, First, decided), commit(s.out)
  PROVE  /\ cut = None
         /\ s.last \in [Chains -> Nat] /\ s.ok \in BOOLEAN
         /\ sent' \in Seq(Block) /\ Extends(sent, sent') /\ again' \subseteq Range(sent')
         /\ Segment(order, 0, sent')
         /\ s.ok => InStep(order, y, Second, Raise(s.last, First, Restart - 1), sent')
  <1>1. /\ decided \in Decisions /\ last \in [Chains -> Nat] /\ sent \in Seq(Block)
        /\ First \in Chains /\ Second \in Chains
    BY KeysFacts DEF TypeOK
  <1>2. cut = None /\ InStep(order, x, First, last, sent)
    BY DEF Broken, Here
  <1>3. decided \in Nat /\ \A h \in (last[First] + 1) .. decided : HasRefs(h, First)
    <2>1. decided \in Nat /\ last[First] \in Nat
      BY <1>1, ConstantsFacts
    <2>2. \A h \in (last[First] + 1) .. decided : h \in 1 .. decided
      BY <2>1
    <2> QED
      BY <2>1, <2>2 DEF HasRefs, Ref, Referencing
  <1>4. /\ s.last \in [Chains -> Nat] /\ s.ok \in BOOLEAN
        /\ sent' = Send(sent, s.out) /\ sent' \in Seq(Block)
        /\ Extends(sent, sent') /\ again' \subseteq Range(sent')
    BY <1>1, <1>3, CommitTyped
  <1>5. sent \in Seq(Pairs)
    <2>1. Block \subseteq Pairs
      BY <1>1, BlockFacts
    <2>2. sent \in [1 .. Len(sent) -> Block] /\ Len(sent) \in Nat
      BY <1>1
    <2>3. sent \in [1 .. Len(sent) -> Pairs]
      BY <2>1, <2>2
    <2> QED
      BY <2>2, <2>3
  <1>6. /\ order \in Seq(Pairs) /\ Distinct(order) /\ x.hi = decided /\ decided <= x.hi
        /\ LaidOut(order, references[epoch + 1], First, x)
    <2>1. epoch + 1 = 1
      OBVIOUS
    <2>2. x.hi = decided
      BY DEF Layout
    <2>3. decided <= x.hi
      BY <1>3, <2>2
    <2> QED
      BY <2>1, <2>2, <2>3 DEF Layout
  <1>7. /\ InStep(order, x, First, s.last, Send(sent, s.out))
        /\ decided = x.hi => AtEnd(x, s, Send(sent, s.out))
    BY <1>1, <1>2, <1>3, <1>5, <1>6, CommitInStep
  <1>8. Segment(order, 0, sent')
    BY <1>4, <1>7 DEF InStep
  <1>9. ASSUME s.ok
        PROVE  InStep(order, y, Second, Raise(s.last, First, Restart - 1), sent')
    <2>1. s.last = x.at[x.hi] /\ x.pos[<<x.hi, 0>>] <= Len(sent')
      BY <1>4, <1>6, <1>7, <1>9 DEF AtEnd
    <2>2. /\ y.at[y.lo] = Raise(x.at[x.hi], First, Restart - 1)
          /\ y.pos[<<y.lo, 0>>] = x.pos[<<x.hi, 0>>]
          /\ LaidOut(order, references[2], Second, y)
      BY DEF Layout
    <2>3. y.lo \in y.lo .. y.hi /\ 0 \in 0 .. (Len(Keys) - 1)
      <3>1. y.lo \in Nat /\ y.hi \in Nat /\ y.lo <= y.hi
        BY <2>2 DEF LaidOut
      <3> QED
        BY <3>1, KeysFacts
    <2>4. Place(y, y.lo, 0) /\ Mark(y, Second, y.lo, 0) = y.at[y.lo]
      BY <2>3 DEF Place, Mark
    <2>5. y.pos[<<y.lo, 0>>] <= Len(sent')
      BY <2>1, <2>2
    <2>6. Raise(s.last, First, Restart - 1) = Mark(y, Second, y.lo, 0)
      BY <2>1, <2>2, <2>4
    <2> QED
      BY <1>8, <2>3, <2>4, <2>5, <2>6 DEF InStep
  <1> QED
    BY <1>2, <1>4, <1>8, <1>9

\* The output of the agreement, which ends the epoch, keeps the invariant.
LEMMA AdvanceKeeps ==
  ASSUME IInv, AdvanceEpoch
  PROVE  IInv' /\ Grows
  <1> DEFINE s == commit_prev_block(stored, certified, First, decided)
  <1>1. /\ epoch = 0 /\ epoch' = 1 /\ isViewChange' = FALSE
        /\ commit(s.out)
        /\ last' = [s.last EXCEPT ![First] = Restart - 1]
        /\ certified' \subseteq certified
        /\ cut' = (IF s.ok THEN None ELSE Len(sent'))
        /\ UNCHANGED <<fixed, stored>>
    BY DEF AdvanceEpoch, AdvanceTo
  <1>2. TypeOK /\ Referencing /\ Broken
    BY DEF IInv
  <1>3. PICK x, y : Layout(x, y) /\ (cut = None => Here(x, y))
    BY DEF IInv
  <1>4. /\ decided \in Decisions /\ stored \subseteq Block /\ certified \subseteq Block
        /\ Restart - 1 \in Nat
    BY <1>2, ConstantsFacts DEF TypeOK
  <1>5. /\ decided' = decided /\ order' = order
        /\ Restart' = Restart /\ Block' = Block /\ Referencing'
        /\ \A u, v : Layout(u, v) => Layout(u, v)'
    BY <1>1, <1>2, LayoutStays DEF fixed
  <1>6. s = commit_prev_block(stored, certified, First, decided)
    OBVIOUS
  <1> HIDE DEF s
  <1>7. /\ cut = None
        /\ s.last \in [Chains -> Nat] /\ s.ok \in BOOLEAN
        /\ sent' \in Seq(Block) /\ Extends(sent, sent') /\ again' \subseteq Range(sent')
        /\ Segment(order, 0, sent')
        /\ s.ok => InStep(order, y, Second, Raise(s.last, First, Restart - 1), sent')
    BY <1>1, <1>2, <1>3, <1>4, <1>6, CommitEnds
  <1>8. last' = Raise(s.last, First, Restart - 1) /\ last' \in [Chains -> Nat]
    BY <1>1, <1>4, <1>7 DEF Raise
  <1>9. Len(sent') \in Nat /\ Len(sent') # None
    BY <1>7 DEF None
  <1>10. TypeOK'
    BY <1>1, <1>4, <1>5, <1>7, <1>8, <1>9 DEF TypeOK
  <1>11. Broken'
    <2> SUFFICES ASSUME cut' # None
                 PROVE  /\ cut' <= Len(sent') /\ cut' <= Len(order)
                        /\ \A i \in 1 .. cut' : sent'[i] = order[i]
      BY <1>1, <1>5 DEF Broken
    <2>1. cut' = Len(sent')
      BY <1>1
    <2>2. Len(sent') <= Len(order) /\ \A i \in 1 .. Len(sent') : sent'[i] = order[i]
      <3>1. /\ 0 + Len(sent') <= Len(order)
            /\ \A i \in 1 .. Len(sent') : sent'[i] = order[0 + i]
        BY <1>7 DEF Segment
      <3> QED
        BY <1>9, <3>1
    <2> QED
      BY <1>9, <2>1, <2>2
  <1>12. cut' = None => Here(x, y)'
    <2>1. cut' = None => s.ok
      BY <1>1, <1>9
    <2>2. s.ok => InStep(order, y, Second, last', sent')
      BY <1>7, <1>8
    <2> QED
      BY <1>1, <1>5, <2>1, <2>2 DEF Here
  <1>13. Grows
    BY <1>1, <1>7 DEF Grows
  <1> QED
    BY <1>3, <1>5, <1>10, <1>11, <1>12, <1>13 DEF IInv

\* The invariant holds at the start.
LEMMA InitIInv ==
  ASSUME Init
  PROVE  IInv
  <1>1. /\ decided \in Decisions /\ epoch = 0 /\ isViewChange = FALSE
        /\ stored = {} /\ certified = {} /\ last = Zeros /\ sent = <<>> /\ again = {}
        /\ cut = None
    BY DEF Init, Zeros
  <1>2. Zeros \in [Chains -> Nat] /\ sent \in Seq(Block) /\ Len(sent) = 0
    BY <1>1 DEF Zeros
  <1>3. TypeOK
    BY <1>1, <1>2 DEF TypeOK
  <1>4. Broken
    BY <1>1 DEF Broken
  <1>5. PICK x, y : Layout(x, y)
    BY InitLayout
  <1>6. InStep(order, x, First, last, sent)
    <2>1. /\ x.lo = 0 /\ x.hi = decided /\ x.at[0] = Zeros /\ x.pos[<<0, 0>>] = 0
          /\ order \in Seq(Pairs)
      BY <1>5 DEF Layout
    <2>2. 0 \in x.lo .. x.hi /\ 0 \in 0 .. (Len(Keys) - 1)
      BY <1>1, <2>1, KeysFacts, ConstantsFacts
    <2>3. Place(x, 0, 0) /\ last = Mark(x, First, 0, 0) /\ x.pos[<<0, 0>>] <= Len(sent)
      BY <1>1, <1>2, <2>1, <2>2 DEF Place, Mark
    <2>4. Segment(order, 0, sent)
      BY <1>2, <2>1 DEF Segment
    <2> QED
      BY <2>2, <2>3, <2>4 DEF InStep
  <1>7. Here(x, y)
    BY <1>1, <1>6 DEF Here
  <1> QED
    BY <1>3, <1>4, <1>5, <1>7, InitReferencing DEF IInv

\* Every step keeps the invariant.
LEMMA NextIInv ==
  ASSUME IInv, [Next]_vars
  PROVE  IInv' /\ Grows
  <1>1. /\ certified \subseteq Block /\ isViewChange \in BOOLEAN /\ decided \in Decisions
        /\ Block \subseteq Pairs
    BY BlockFacts DEF IInv, TypeOK
  <1>2. ASSUME NEW b \in Block, HandleProposal(b[1], b[2])
        PROVE  IInv' /\ Grows
    <2>1. <<b[1], b[2]>> \in Block
      BY <1>1 DEF Pairs
    <2> QED
      BY <1>2, <2>1, ProposalKeeps
  <1>3. ASSUME NEW h \in 1 .. Top[First], HandleTimeout(h)
        PROVE  IInv' /\ Grows
    <2>1. <<First, h>> \in Block
      BY <1>1, BlockFacts
    <2> QED
      BY <1>1, <1>3, <2>1, OtherKeeps DEF HandleTimeout
  <1>4. ASSUME ViewChange
        PROVE  IInv' /\ Grows
    BY <1>1, <1>4, OtherKeeps DEF ViewChange
  <1>5. ASSUME AdvanceEpoch
        PROVE  IInv' /\ Grows
    BY <1>5, AdvanceKeeps
  <1>6. ASSUME UNCHANGED vars
        PROVE  IInv' /\ Grows
    BY <1>1, <1>6, OtherKeeps DEF vars
  <1> QED
    BY <1>2, <1>3, <1>4, <1>5, <1>6 DEF Next

-----------------------------------------------------------------------------
\* The start of the order, as the definitions of the model write it.
LEMMA SegmentPrefix ==
  ASSUME order \in Seq(Pairs), NEW s \in Seq(Pairs), Segment(order, 0, s)
  PROVE  Len(s) <= Len(order) /\ s = SubSeq(order, 1, Len(s)) /\ IsPrefix(s, order)
  <1>1. /\ Len(s) \in Nat /\ Len(order) \in Nat /\ Len(s) <= Len(order)
        /\ \A i \in 1 .. Len(s) : s[i] = order[i]
    <2>1. Len(s) \in Nat /\ Len(order) \in Nat
      OBVIOUS
    <2>2. 0 + Len(s) <= Len(order) /\ \A i \in 1 .. Len(s) : s[i] = order[0 + i]
      BY DEF Segment
    <2>3. \A i \in 1 .. Len(s) : 0 + i = i
      OBVIOUS
    <2> QED
      BY <2>1, <2>2, <2>3
  <1>2. s = SubSeq(order, 1, Len(s))
    <2>1. /\ SubSeq(order, 1, Len(s)) \in Seq(Pairs)
          /\ Len(SubSeq(order, 1, Len(s))) = Len(s)
          /\ \A i \in 1 .. Len(s) : SubSeq(order, 1, Len(s))[i] = order[i]
      BY <1>1, SubSeqProperties
    <2> QED
      BY <1>1, <2>1, SeqEqual
  <1>3. SubSeq(s, 1, Len(s)) = s
    <2>1. /\ SubSeq(s, 1, Len(s)) \in Seq(Pairs)
          /\ Len(SubSeq(s, 1, Len(s))) = Len(s)
          /\ \A i \in 1 .. Len(s) : SubSeq(s, 1, Len(s))[i] = s[i]
      BY <1>1, SubSeqProperties
    <2> QED
      BY <1>1, <2>1, SeqEqual
  <1> QED
    BY <1>1, <1>2, <1>3 DEF IsPrefix

\* The order and what was sent are sequences of blocks.
LEMMA SentFacts ==
  ASSUME IInv
  PROVE  /\ order \in Seq(Pairs) /\ sent \in Seq(Pairs) /\ Len(sent) \in Nat
         /\ Grows => sent' \in Seq(Pairs) /\ Len(sent') \in Nat
  <1>1. sent \in Seq(Block) /\ decided \in Decisions
    BY DEF IInv, TypeOK
  <1>2. Block \subseteq Pairs
    BY <1>1, BlockFacts
  <1>3. ASSUME NEW s \in Seq(Block)
        PROVE  s \in Seq(Pairs) /\ Len(s) \in Nat
    <2>1. s \in [1 .. Len(s) -> Block] /\ Len(s) \in Nat
      OBVIOUS
    <2>2. s \in [1 .. Len(s) -> Pairs]
      BY <1>2, <2>1
    <2> QED
      BY <2>1, <2>2
  <1>4. order \in Seq(Pairs)
    BY DEF IInv, Layout
  <1>5. Grows => sent' \in Seq(Pairs) /\ Len(sent') \in Nat
    <2>1. Grows => sent' \in Seq(Block)
      BY DEF Grows
    <2> QED
      BY <1>3, <2>1
  <1> QED
    BY <1>1, <1>3, <1>4, <1>5

\* After a commit that stopped half-way what counts is the start of the order.
LEMMA CutFacts ==
  ASSUME IInv, cut # None
  PROVE  /\ cut \in Nat /\ cut <= Len(sent) /\ cut <= Len(order)
         /\ SubSeq(sent, 1, cut) \in Seq(Pairs) /\ Len(SubSeq(sent, 1, cut)) = cut
         /\ \A i \in 1 .. cut : SubSeq(sent, 1, cut)[i] = sent[i] /\ sent[i] = order[i]
  <1>1. /\ cut \in Nat /\ cut <= Len(sent) /\ cut <= Len(order)
        /\ \A i \in 1 .. cut : sent[i] = order[i]
    BY DEF IInv, TypeOK, Broken
  <1>2. sent \in Seq(Pairs) /\ Len(sent) \in Nat
    BY SentFacts
  <1>3. /\ SubSeq(sent, 1, cut) \in Seq(Pairs) /\ Len(SubSeq(sent, 1, cut)) = cut
        /\ \A i \in 1 .. cut : SubSeq(sent, 1, cut)[i] = sent[i]
    BY <1>1, <1>2, SubSeqProperties
  <1> QED
    BY <1>1, <1>3

\* What counts is the start of the order, and grows.
LEMMA OrderedStarts ==
  ASSUME IInv
  PROVE  Ordered \in Seq(Pairs) /\ Segment(order, 0, Ordered)
  <1>1. CASE cut = None
    <2>1. Segment(order, 0, sent)
      BY <1>1 DEF IInv, TypeOK, Here, InStep
    <2> QED
      BY <1>1, <2>1, SentFacts DEF Ordered
  <1>2. CASE cut # None
    <2> DEFINE s == SubSeq(sent, 1, cut)
    <2>1. /\ cut \in Nat /\ cut <= Len(order) /\ s \in Seq(Pairs) /\ Len(s) = cut
          /\ \A i \in 1 .. cut : s[i] = order[i]
      BY <1>2, CutFacts
    <2>2. Ordered = s
      BY <1>2 DEF Ordered
    <2> HIDE DEF s
    <2>3. Len(order) \in Nat
      BY SentFacts
    <2>4. Segment(order, 0, s)
      BY <2>1, <2>3 DEF Segment
    <2> QED
      BY <2>1, <2>2, <2>4
  <1> QED
    BY <1>1, <1>2

\* What counts stays where it is.
LEMMA OrderedGrows ==
  ASSUME IInv, Grows
  PROVE  Extends(Ordered, Ordered')
  <1>1. /\ sent \in Seq(Pairs) /\ sent' \in Seq(Pairs)
        /\ Len(sent) \in Nat /\ Len(sent') \in Nat /\ Extends(sent, sent')
    <2>1. sent' \in Seq(Pairs) /\ Len(sent') \in Nat
      BY SentFacts
    <2> QED
      BY <2>1, SentFacts DEF Grows
  <1>2. CASE cut = None /\ cut' = None
    BY <1>1, <1>2 DEF Ordered
  <1>3. CASE cut = None /\ cut' # None
    <2>1. cut' = Len(sent')
      BY <1>3 DEF Grows
    <2>2. /\ SubSeq(sent', 1, Len(sent')) \in Seq(Pairs)
          /\ Len(SubSeq(sent', 1, Len(sent'))) = Len(sent')
          /\ \A i \in 1 .. Len(sent') : SubSeq(sent', 1, Len(sent'))[i] = sent'[i]
      BY <1>1, SubSeqProperties
    <2>3. SubSeq(sent', 1, Len(sent')) = sent'
      BY <1>1, <2>2, SeqEqual
    <2> QED
      BY <1>1, <1>3, <2>1, <2>3 DEF Ordered
  <1>4. CASE cut # None
    <2>1. cut' = cut
      BY <1>4 DEF Grows
    <2>2. cut \in Nat /\ cut <= Len(sent) /\ cut <= Len(sent')
      <3>1. cut \in Nat /\ cut <= Len(sent)
        BY <1>4, CutFacts
      <3> QED
        BY <1>1, <3>1 DEF Extends
    <2>3. /\ Len(SubSeq(sent, 1, cut)) = cut
          /\ \A i \in 1 .. cut : SubSeq(sent, 1, cut)[i] = sent[i]
      BY <1>1, <2>2, SubSeqProperties
    <2>4. /\ Len(SubSeq(sent', 1, cut)) = cut
          /\ \A i \in 1 .. cut : SubSeq(sent', 1, cut)[i] = sent'[i]
      BY <1>1, <2>2, SubSeqProperties
    <2>5. \A i \in 1 .. cut : sent'[i] = sent[i]
      BY <1>1, <2>2 DEF Extends
    <2>6. Ordered = SubSeq(sent, 1, cut) /\ Ordered' = SubSeq(sent', 1, cut)
      BY <1>4, <2>1 DEF Ordered
    <2>7. Extends(SubSeq(sent, 1, cut), SubSeq(sent', 1, cut))
      BY <2>2, <2>3, <2>4, <2>5 DEF Extends
    <2> QED
      BY <2>6, <2>7
  <1> QED
    BY <1>2, <1>3, <1>4

\* Where the chains are, the application has everything below them.
LEMMA SeenBelow ==
  ASSUME order \in Seq(Pairs), sent \in Seq(Pairs),
         NEW x, NEW l \in Chains, NEW gap, Everywhere(x, l, gap),
         InStep(order, x, l, last, sent), NEW b \in Below(last, gap)
  PROVE  b \in Range(sent)
  <1>1. PICK h \in x.lo .. x.hi, j \in 0 .. (Len(Keys) - 1) :
          Place(x, h, j) /\ last = Mark(x, l, h, j) /\ x.pos[<<h, j>>] <= Len(sent)
    BY DEF InStep
  <1> DEFINE p == x.pos[<<h, j>>]
  <1>2. Exact(order, p, last, gap) /\ p <= Len(sent)
    BY <1>1 DEF Everywhere
  <1> HIDE DEF p
  <1>3. p \in Nat
    BY <1>2 DEF Exact
  <1>4. PICK i \in 1 .. p : order[i] = b
    BY <1>2 DEF Exact
  <1>5. i \in 1 .. Len(sent) /\ 0 + i = i
    BY <1>2, <1>3
  <1>6. sent[i] = order[i]
    BY <1>5 DEF InStep, Segment
  <1>7. i \in DOMAIN sent
    BY <1>5
  <1> QED
    BY <1>4, <1>6, <1>7 DEF Range

-----------------------------------------------------------------------------
\* The invariant holds of every behaviour.
LEMMA Invariant == Spec => []IInv
  <1>1. Init => IInv
    BY InitIInv
  <1>2. IInv /\ [Next]_vars => IInv'
    BY NextIInv
  <1> QED
    BY <1>1, <1>2, PTL DEF Spec

\* The variables stay in their types: a commit, complete or not, puts nothing
\* in to_commit but blocks that the store and the chains have (commit_prev_block).
THEOREM TypeCorrect == Spec => []TypeOK
  <1>1. IInv => TypeOK
    BY DEF IInv
  <1> QED
    BY <1>1, Invariant, PTL

\* The application first sees the blocks in the order that the references
\* define, at every node and in both epochs, however the blocks arrive and
\* however often commit_prev_block stops half-way.
THEOREM InOrder == Spec => []SentInOrder
  <1>1. IInv => SentInOrder
    BY OrderedStarts, SentFacts, SegmentPrefix DEF SentInOrder
  <1> QED
    BY <1>1, Invariant, PTL

\* No block up to last_committed_height of its chain is missing from what the
\* application has seen, but those that the epoch change gives up.
THEOREM NothingSkipped == Spec => []NoneSkipped
  <1>1. ASSUME IInv, cut = None, NEW b \in Block, b[2] <= last[b[1]],
               ~(b[1] = First /\ b[2] > decided /\ b[2] < Restart)
        PROVE  b \in Range(sent)
    <2>1. PICK x, y : Layout(x, y) /\ Here(x, y)
      BY <1>1 DEF IInv
    <2>2. /\ epoch \in {0, 1} /\ decided \in Decisions /\ last \in [Chains -> Nat]
          /\ First \in Chains /\ Second \in Chains
      BY <1>1, KeysFacts DEF IInv, TypeOK
    <2>3. order \in Seq(Pairs) /\ sent \in Seq(Pairs)
      BY <1>1, SentFacts
    <2>4. b \in Pairs /\ b[1] \in Chains /\ b[2] \in Nat /\ b[2] >= 1
      BY <1>1, <2>2, BlockFacts DEF Pairs
    <2>5. b[2] \in 1 .. last[b[1]]
      BY <1>1, <2>2, <2>4
    <2>6. b \notin Gap
      <3>1. ASSUME b \in Gap PROVE FALSE
        <4>1. b[1] = First /\ b[2] \in (decided + 1) .. (Restart - 1)
          BY <3>1 DEF Gap
        <4>2. b[2] > decided /\ b[2] < Restart
          BY <2>2, <2>4, <4>1, ConstantsFacts
        <4> QED
          BY <1>1, <4>1, <4>2
      <3> QED
        BY <3>1
    <2>7. b \in Below(last, {}) /\ b \in Below(last, Gap)
      BY <2>4, <2>5, <2>6 DEF Below
    <2>8. CASE epoch = 0
      <3>1. InStep(order, x, First, last, sent) /\ Everywhere(x, First, {})
        BY <2>1, <2>8 DEF Here, Layout
      <3> QED
        BY <2>2, <2>3, <2>7, <3>1, SeenBelow
    <2>9. CASE epoch = 1
      <3>1. InStep(order, y, Second, last, sent) /\ Everywhere(y, Second, Gap)
        BY <2>1, <2>9 DEF Here, Layout
      <3> QED
        BY <2>2, <2>3, <2>7, <3>1, SeenBelow
    <2> QED
      BY <2>2, <2>8, <2>9
  <1>2. IInv => NoneSkipped
    BY <1>1 DEF NoneSkipped
  <1> QED
    BY <1>2, Invariant, PTL

Starts == Ordered \in Seq(Pairs) /\ Segment(order, 0, Ordered)

\* A step shows the application more of the order, or nothing.
LEMMA StepSeesMore ==
  ASSUME IInv, Starts', [Next]_vars
  PROVE  [Application!SeeMore]_<<order, Ordered>>
  <1>1. Grows /\ Extends(Ordered, Ordered')
    BY NextIInv, OrderedGrows
  <1>2. order' = order
    BY DEF Next, HandleProposal, HandleTimeout, ViewChange, AdvanceEpoch, AdvanceTo, vars, fixed
  <1>3. Ordered \in Seq(Pairs) /\ order \in Seq(Pairs)
    BY OrderedStarts, SentFacts
  <1> DEFINE t == Ordered'
  <1>4. t \in Seq(Pairs) /\ Segment(order, 0, t)
    BY <1>2 DEF Starts
  <1>5. Extends(Ordered, t)
    BY <1>1
  <1> HIDE DEF t
  <1>6. Len(t) <= Len(order) /\ t = SubSeq(order, 1, Len(t))
    BY <1>3, <1>4, SegmentPrefix
  <1>7. /\ Len(Ordered) \in Nat /\ Len(t) \in Nat /\ Len(order) \in Nat
        /\ Len(Ordered) <= Len(t) /\ \A i \in 1 .. Len(Ordered) : t[i] = Ordered[i]
    BY <1>3, <1>4, <1>5 DEF Extends
  <1>8. CASE Len(Ordered) = Len(t)
    <2>1. Ordered = t
      BY <1>3, <1>4, <1>7, <1>8, SeqEqual
    <2> QED
      BY <1>2, <2>1 DEF t
  <1>9. CASE Len(Ordered) # Len(t)
    <2>1. Len(t) \in (Len(Ordered) + 1) .. Len(order)
      BY <1>6, <1>7, <1>9
    <2>2. \E k \in (Len(Ordered) + 1) .. Len(order) : t = SubSeq(order, 1, k)
      BY <1>6, <2>1
    <2>3. Application!SeeMore
      BY <1>2, <2>2 DEF Application!SeeMore, t
    <2> QED
      BY <2>3
  <1> QED
    BY <1>8, <1>9

\* The ordering of module Commit implements that of module OrderedBlocks: each
\* step of the node shows the application more of one sequence, fixed from the
\* start, or nothing.
THEOREM CommitImplementsOrdered == Spec => ImplementsOrdered
  <1>1. Init => Application!NothingSeen
    BY DEF Init, Ordered, Application!NothingSeen
  <1>2. IInv => Starts
    BY OrderedStarts DEF Starts
  <1>3. IInv /\ Starts' /\ [Next]_vars => [Application!SeeMore]_<<order, Ordered>>
    BY StepSeesMore
  <1> QED
    BY <1>1, <1>2, <1>3, Invariant, PTL DEF Spec, ImplementsOrdered, Application!Delivery

=============================================================================
