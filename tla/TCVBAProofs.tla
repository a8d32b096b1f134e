----------------------------- MODULE TCVBAProofs -----------------------------
(***************************************************************************)
(* Proofs about module TCVBA, for any committee, heights and coins.  The   *)
(* inductive invariant, Global, says of each node that it broadcasts a     *)
(* coin share only with an AUX proof, one AUX value in a round, and each   *)
(* value to itself (Local); and of the others that they hold no vote and   *)
(* no share that its author does not answer for.  It is stated for the set *)
(* V of the values in use: all of them, or the single height put in.       *)
(* Decides extends it to the values the nodes decide on, for the theorem   *)
(* about agreement at the end.                                             *)
(***************************************************************************)
EXTENDS TCVBA, CommitteeProofs, FunctionTheorems

Letter(V) ==
  [type : {"tc", "val", "aux", "coin", "proof"}, author : Active, round : Rounds,
   val : V \cup {None}]

State(V) ==
  [isViewChange : BOOLEAN, tc : V \cup {None}, tcProcessed : BOOLEAN,
   phase : INIT_PHASE .. COIN_PHASE, round : Rounds,
   input : V \cup {None}, binValues : SUBSET V,
   output : V \cup {None}, outputRound : Nat,
   valSent : BOOLEAN, auxSent : BOOLEAN, coinSent : BOOLEAN, proofSent : BOOLEAN,
   votes : SUBSET Letter(V), shares : SUBSET Letter(V),
   auxNums : [Rounds -> Nat], cache1 : [Rounds -> V \cup {None}],
   cache2 : [Rounds -> V \cup {None}], auxProof : [Rounds -> V \cup {None}],
   proof : [Rounds -> V \cup {None}], coin : SUBSET Rounds, sent : Seq(Letter(V))]

\* The authors of the AUX values v of round r in the votes of s.
AuxVoters(s, r, v) == {a \in Active : Message("aux", a, r, v) \in s.votes}

\* A quorum sent one AUX value in round r, as far as s shows.
AuxDone(V, s, r) == \E v \in V : AuxVoters(s, r, v) \in Quorum

\* An AUX proof is made from the votes of a quorum.
Proven(s) ==
  \A r \in Rounds :
    s.auxProof[r] # None => AuxVoters(s, r, s.auxProof[r]) \in Quorum

\* How far n is in the agreement.
Phased(s) ==
  /\ s.phase = INIT_PHASE => s.round = 1
  /\ s.phase # INIT_PHASE => s.tcProcessed
  /\ s.phase \in {AUX_PHASE, COIN_PHASE} => s.binValues # {}
  /\ IsFiniteSet(s.binValues)
  /\ s.outputRound <= s.round
  /\ s.output # None => s.coin # {}
  /\ \A r \in s.coin : \E u \in s.shares : u.round = r

\* The votes of n itself: one AUX value in a round.
OwnVotes(V, n, s) ==
  /\ s.tcProcessed => \E v \in V : Message("val", n, 1, v) \in s.votes
  /\ \A u \in s.votes : u.author = n =>
       /\ u.round <= s.round
       /\ u.type = "aux" => s.tcProcessed /\ (u.round = s.round => s.auxSent)
  /\ \A u, w \in s.votes :
       u.author = n /\ w.author = n /\ u.type = "aux" /\ w.type = "aux" /\ u.round = w.round
         => u = w

OwnShares(V, n, s) == \A u \in s.shares : u.author = n => AuxDone(V, s, u.round)

\* What n broadcast, it counted itself, and had the proof for.
Sent(V, n, s) ==
  \A i \in 1 .. Len(s.sent) :
    /\ s.sent[i].author = n
    /\ s.sent[i].type \in {"val", "aux"} => s.sent[i] \in s.votes
    /\ s.sent[i].type = "coin" => AuxDone(V, s, s.sent[i].round)
    /\ s.sent[i].type \in {"val", "aux", "proof"} => s.sent[i].val # None

\* What holds of the record s of node n at any time.
Local(V, n, s) ==
  /\ s \in State(V) /\ Proven(s) /\ Phased(s)
  /\ OwnVotes(V, n, s) /\ OwnShares(V, n, s) /\ Sent(V, n, s)

\* From s to t, node n adds its own votes and shares only.
Grows(n, s, t) ==
  /\ s.votes \subseteq t.votes
  /\ \A u \in t.votes : u \in s.votes \/ u.author = n
  /\ \A u \in t.shares : u \in s.shares \/ u.author = n
  /\ s.tcProcessed => t.tcProcessed
  /\ Len(s.sent) <= Len(t.sent)

\* What a vote leaves alone.
VoteFrame(s) ==
  <<s.isViewChange, s.tc, s.tcProcessed, s.phase, s.round, s.input, s.binValues,
    s.output, s.outputRound, s.valSent, s.auxSent, s.coinSent, s.proofSent, s.shares,
    s.coin>>

\* What an update of other fields keeps.
Data(s) == <<s.votes, s.auxProof, s.sent, s.shares, s.round, s.tcProcessed>>

\* What holds before the phases are processed: who has entered the last one
\* has the coin and can decide.
Ready(s) ==
  /\ s.output = None
  /\ s.phase = COIN_PHASE =>
       /\ s.round \in s.coin
       /\ s.auxProof[s.round] # None \/ \E x, y \in s.binValues : x # y

\* A function of the phases keeps what the next one needs.
Prepares(V, n, s, t) ==
  Local(V, n, t) /\ Grows(n, s, t) /\ Ready(t) /\ t.phase = s.phase /\ t.round = s.round

\* The phase of the coin does not outlast the iteration without an output.
Settled(s) == s.phase = COIN_PHASE => s.output # None

\* What a handler may take from the message of another node.
Takes(s, m, t) ==
  /\ \/ t.votes = s.votes
     \/ m.type \in {"val", "aux"} /\ t.votes = s.votes \cup {m}
  /\ \A u \in t.shares : u \in s.shares \/ (m.type = "coin" /\ u = m)
  /\ t.sent = s.sent /\ t.round = s.round

\* The values an agreement stays in: all of them, or the only one put in.
Closed(V) == V \subseteq Nat /\ ({0, 1} \subseteq V \/ \E h : V = {h})

\* The inductive invariant: what nodes hold of each other is no vote its author
\* did not count itself, no share of a round before its author had the proof.
Global(V) ==
  /\ node \in [Active -> State(V)]
  /\ \A n \in Active :
       /\ Local(V, n, node[n]) /\ Settled(node[n]) /\ node[n].round \in 1 .. MaxRound
       /\ \A u \in node[n].votes : u \in node[u.author].votes
       /\ \A u \in node[n].shares : AuxDone(V, node[u.author], u.round)
  /\ handled \in [Active -> [Active -> Nat]]
  /\ \A n, m \in Active : handled[n][m] <= Len(node[m].sent)
  /\ assembled \subseteq Active
-----------------------------------------------------------------------------
(***************************************************************************)
(* Records and messages.                                                   *)
(***************************************************************************)
LEMMA FieldTypes ==
  ASSUME NEW V, NEW s \in State(V)
  PROVE  /\ s.isViewChange \in BOOLEAN /\ s.tcProcessed \in BOOLEAN
         /\ s.valSent \in BOOLEAN /\ s.auxSent \in BOOLEAN
         /\ s.coinSent \in BOOLEAN /\ s.proofSent \in BOOLEAN
         /\ s.tc \in V \cup {None} /\ s.input \in V \cup {None}
         /\ s.output \in V \cup {None} /\ s.outputRound \in Nat
         /\ s.phase \in INIT_PHASE .. COIN_PHASE /\ s.round \in Rounds
         /\ s.binValues \in SUBSET V /\ s.coin \in SUBSET Rounds
         /\ s.votes \in SUBSET Letter(V) /\ s.shares \in SUBSET Letter(V)
         /\ s.auxNums \in [Rounds -> Nat] /\ s.cache1 \in [Rounds -> V \cup {None}]
         /\ s.cache2 \in [Rounds -> V \cup {None}]
         /\ s.auxProof \in [Rounds -> V \cup {None}]
         /\ s.proof \in [Rounds -> V \cup {None}] /\ s.sent \in Seq(Letter(V))
  BY Zenon DEF State

\* A message is known by its fields.
LEMMA LetterIs ==
  ASSUME NEW V, NEW m \in Letter(V)
  PROVE  /\ m = Message(m.type, m.author, m.round, m.val)
         /\ m.author \in Active /\ m.round \in Rounds /\ m.val \in V \cup {None}
  BY DEF Letter, Message

LEMMA MessageIs ==
  ASSUME NEW V, NEW type \in {"tc", "val", "aux", "coin", "proof"}, NEW n \in Active,
         NEW r \in Rounds, NEW v \in V \cup {None}
  PROVE  /\ Message(type, n, r, v) \in Letter(V)
         /\ Message(type, n, r, v).type = type /\ Message(type, n, r, v).author = n
         /\ Message(type, n, r, v).round = r /\ Message(type, n, r, v).val = v
  BY DEF Letter, Message

\* More authorities are still a quorum.
LEMMA LargerQuorum ==
  ASSUME NEW P \in Quorum, NEW Q \in SUBSET Node, P \subseteq Q
  PROVE  Q \in Quorum
  <1>1. IsFiniteSet(Q) /\ P \in SUBSET Q
    BY CommitteeAssumption, FS_Subset
  <1>2. Cardinality(P) <= Cardinality(Q)
    BY <1>1, FS_Subset
  <1>3. Cardinality(P) \in Int /\ Cardinality(Q) \in Int /\ quorum_threshold \in Int
    BY <1>1, FS_Subset, FS_CardinalityType, Thresholds
  <1> QED
    BY <1>2, <1>3 DEF Quorum

LEMMA MoreVoters ==
  ASSUME NEW s, NEW t, s.votes \subseteq t.votes, NEW r, NEW v, AuxVoters(s, r, v) \in Quorum
  PROVE  AuxVoters(t, r, v) \in Quorum
  <1>1. AuxVoters(t, r, v) \in SUBSET Node /\ AuxVoters(s, r, v) \subseteq AuxVoters(t, r, v)
    BY TCVBAAssumption DEF AuxVoters, Quorum
  <1> QED
    BY <1>1, LargerQuorum

LEMMA MoreDone ==
  ASSUME NEW V, NEW s, NEW t, s.votes \subseteq t.votes, NEW r, AuxDone(V, s, r)
  PROVE  AuxDone(V, t, r)
  BY MoreVoters DEF AuxDone
-----------------------------------------------------------------------------
(***************************************************************************)
(* ABAProofMaker: the votes and the proofs made of them.                   *)
(***************************************************************************)
LEMMA ProofAtType ==
  ASSUME NEW V, NEW s, NEW m \in Letter(V), NEW threshold,
         NEW cache \in [Rounds -> V \cup {None}]
  PROVE  /\ ProofAt(threshold, s, m, cache) \in [Rounds -> V \cup {None}]
         /\ \A r \in Rounds :
              \/ ProofAt(threshold, s, m, cache)[r] = cache[r]
              \/ /\ m \notin s.votes /\ Weight(s, m) + 1 = threshold
                 /\ r = m.round /\ ProofAt(threshold, s, m, cache)[r] = m.val
  BY DEF ProofAt, Letter

\* handle_val_phase and handle_aux_phase leave a state.
LEMMA VoteTypes ==
  ASSUME NEW V, NEW s \in State(V), NEW m \in Letter(V),
         NEW t \in {handle_val_phase(s, m), handle_aux_phase(s, m)}
  PROVE  /\ t \in State(V) /\ VoteFrame(t) = VoteFrame(s) /\ t.sent = s.sent
         /\ t.votes = s.votes \cup {m}
         /\ t.auxProof \in {s.auxProof, ProofAt(quorum_threshold, s, m, s.auxProof)}
         /\ m.type = "val" /\ t = handle_val_phase(s, m) => t.auxProof = s.auxProof
  <1> DEFINE vs == s.votes \cup {m}
             c1 == ProofAt(random_coin_threshold, s, m, s.cache1)
             c2 == ProofAt(quorum_threshold, s, m, s.cache2)
             ap == ProofAt(quorum_threshold, s, m, s.auxProof)
             an == [s.auxNums EXCEPT ![m.round] = s.auxNums[m.round] + 1]
  <1>1. /\ vs \in SUBSET Letter(V) /\ c1 \in [Rounds -> V \cup {None}]
        /\ c2 \in [Rounds -> V \cup {None}] /\ ap \in [Rounds -> V \cup {None}]
    BY FieldTypes, ProofAtType
  <1>2. an \in [Rounds -> Nat]
    <2>1. s.auxNums \in [Rounds -> Nat] /\ m.round \in Rounds
      BY FieldTypes DEF Letter
    <2> QED
      BY <2>1
  <1>3. /\ handle_val_phase(s, m) = [s EXCEPT !.votes = vs, !.cache1 = c1, !.cache2 = c2]
        /\ handle_aux_phase(s, m) = [s EXCEPT !.votes = vs, !.auxNums = an, !.auxProof = ap]
    BY Zenon DEF handle_val_phase, handle_aux_phase
  <1> HIDE DEF vs, c1, c2, ap, an
  <1>4. CASE t = handle_val_phase(s, m)
    <2>1. t \in State(V)
      <3>1. [s EXCEPT !.votes = vs, !.cache1 = c1, !.cache2 = c2] \in State(V)
        BY ONLY <1>1, s \in State(V), Zenon DEF State
      <3> QED
        BY ONLY <1>3, <1>4, <3>1, Zenon
    <2>2. VoteFrame(t) = VoteFrame(s)
      BY <1>3, <1>4 DEF State, VoteFrame
    <2>3. t.votes = vs /\ t.auxProof = s.auxProof /\ t.sent = s.sent
      BY <1>3, <1>4 DEF State
    <2> QED
      BY <2>1, <2>2, <2>3 DEF vs
  <1>5. CASE t = handle_aux_phase(s, m)
    <2>1. t \in State(V)
      <3>1. [s EXCEPT !.votes = vs, !.auxNums = an, !.auxProof = ap] \in State(V)
        BY ONLY <1>1, <1>2, s \in State(V), Zenon DEF State
      <3> QED
        BY ONLY <1>3, <1>5, <3>1, Zenon
    <2>2. VoteFrame(t) = VoteFrame(s)
      BY <1>3, <1>5 DEF State, VoteFrame
    <2>3. t.votes = vs /\ t.auxProof = ap /\ t.sent = s.sent
      BY <1>3, <1>5 DEF State
    <2> QED
      BY <2>1, <2>2, <2>3, <1>4 DEF vs, ap
  <1> QED
    BY <1>4, <1>5

\* The weight that handle_aux_phase counts is the number of voters.
LEMMA WeightOfAux ==
  ASSUME NEW V, NEW s \in State(V), NEW m \in Letter(V), m.type = "aux"
  PROVE  Weight(s, m) = Cardinality(AuxVoters(s, m.round, m.val))
  <1> DEFINE A == AuxVoters(s, m.round, m.val)
             B == {u \in s.votes : <<u.type, u.round, u.val>> = <<m.type, m.round, m.val>>}
             f == [a \in A |-> Message("aux", a, m.round, m.val)]
  <1>1. IsFiniteSet(A)
    <2>1. A \in SUBSET Node
      BY TCVBAAssumption DEF AuxVoters, Quorum
    <2> QED
      BY <2>1, CommitteeAssumption, FS_Subset
  <1>2. \A a \in A : f[a] \in B
    BY DEF AuxVoters, Message
  <1>3. \A a, b \in A : f[a] = f[b] => a = b
    BY DEF Message
  <1>4. \A u \in B : \E a \in A : f[a] = u
    <2> SUFFICES ASSUME NEW u \in B PROVE \E a \in A : f[a] = u
      OBVIOUS
    <2>1. u \in Letter(V)
      BY FieldTypes
    <2>2. u = Message("aux", u.author, m.round, m.val) /\ u.author \in Active
      BY <2>1, LetterIs
    <2>3. u.author \in A
      BY <2>2 DEF AuxVoters
    <2> QED
      BY <2>2, <2>3
  <1>5. f \in Bijection(A, B)
    <2>1. f \in [A -> B]
      BY <1>2
    <2> HIDE DEF f, A, B
    <2> QED
      BY <2>1, <1>3, <1>4, Fun_IsBij
  <1>6. Cardinality(B) = Cardinality(A)
    BY <1>1, <1>5, FS_Bijection DEF ExistsBijection
  <1> QED
    BY <1>6 DEF Weight

\* More votes leave the proofs proven, and the vote that completes a quorum
\* makes one.
LEMMA VoteProven ==
  ASSUME NEW V, NEW s \in State(V), Proven(s), NEW m \in Letter(V), m.val # None,
         NEW t, \/ m.type = "val" /\ t = handle_val_phase(s, m)
                \/ m.type = "aux" /\ t = handle_aux_phase(s, m)
  PROVE  /\ Proven(t)
         /\ \A r \in Rounds : s.auxProof[r] # None => t.auxProof[r] # None
  <1>1. /\ t \in State(V) /\ t.votes = s.votes \cup {m}
        /\ t.auxProof \in {s.auxProof, ProofAt(quorum_threshold, s, m, s.auxProof)}
        /\ m.type = "val" => t.auxProof = s.auxProof
    BY VoteTypes
  <1>2. \A r \in Rounds : \A v : AuxVoters(s, r, v) \in Quorum => AuxVoters(t, r, v) \in Quorum
    BY <1>1, MoreVoters
  <1>3. ASSUME NEW r \in Rounds, t.auxProof[r] # s.auxProof[r]
        PROVE  AuxVoters(t, r, t.auxProof[r]) \in Quorum /\ t.auxProof[r] = m.val
    <2>1. /\ m \notin s.votes /\ Weight(s, m) + 1 = quorum_threshold /\ r = m.round
          /\ t.auxProof[r] = m.val /\ m.type = "aux"
      <3>1. ProofAt(quorum_threshold, s, m, s.auxProof) = t.auxProof /\ m.type = "aux"
        BY <1>1, <1>3
      <3>2. s.auxProof \in [Rounds -> V \cup {None}]
        BY FieldTypes
      <3>3. \/ t.auxProof[r] = s.auxProof[r]
            \/ /\ m \notin s.votes /\ Weight(s, m) + 1 = quorum_threshold
               /\ r = m.round /\ t.auxProof[r] = m.val
        BY <3>1, <3>2, ProofAtType
      <3> QED
        BY <1>3, <3>1, <3>3
    <2> DEFINE P == AuxVoters(s, m.round, m.val)
               Q == AuxVoters(t, m.round, m.val)
    <2>2. Q = P \cup {m.author} /\ m.author \notin P /\ Q \in SUBSET Node
      <3>1. m = Message("aux", m.author, m.round, m.val) /\ m.author \in Active
        BY <2>1, LetterIs
      <3>2. \A a \in Active : Message("aux", a, m.round, m.val) = m => a = m.author
        BY DEF Message
      <3>3. Active \subseteq Node
        BY TCVBAAssumption DEF Quorum
      <3> QED
        BY <1>1, <2>1, <3>1, <3>2, <3>3 DEF AuxVoters
    <2>3. Cardinality(P) + 1 = quorum_threshold
      BY <2>1, WeightOfAux
    <2> HIDE DEF P, Q
    <2>4. IsFiniteSet(P)
      BY <2>2, CommitteeAssumption, FS_Subset
    <2>5. Cardinality(Q) = quorum_threshold /\ quorum_threshold \in Int
      <3>1. Cardinality(P \cup {m.author}) = Cardinality(P) + 1
        BY <2>2, <2>4, FS_AddElement
      <3>2. quorum_threshold \in Int
        BY Thresholds
      <3> QED
        BY <2>2, <2>3, <3>1, <3>2
    <2> QED
      BY <2>1, <2>2, <2>5 DEF Quorum, Q
  <1>4. ASSUME NEW r \in Rounds
        PROVE  /\ t.auxProof[r] # None => AuxVoters(t, r, t.auxProof[r]) \in Quorum
               /\ s.auxProof[r] # None => t.auxProof[r] # None
    <2>1. CASE t.auxProof[r] = s.auxProof[r]
      BY <1>2, <2>1 DEF Proven
    <2>2. CASE t.auxProof[r] # s.auxProof[r]
      BY <1>3, <2>2
    <2> QED
      BY <2>1, <2>2
  <1> QED
    BY <1>4 DEF Proven
-----------------------------------------------------------------------------
(***************************************************************************)
(* What updates of one record keep, and broadcasts.                        *)
(***************************************************************************)
LEMMA GrowsTrans ==
  ASSUME NEW V, NEW n, NEW s \in State(V), NEW t \in State(V), NEW u \in State(V),
         Grows(n, s, t), Grows(n, t, u)
  PROVE  Grows(n, s, u)
  <1>1. Len(s.sent) \in Nat /\ Len(t.sent) \in Nat /\ Len(u.sent) \in Nat
    BY FieldTypes
  <1> QED
    BY <1>1 DEF Grows

LEMMA Carry ==
  ASSUME NEW V, NEW n, NEW s, Local(V, n, s), NEW t \in State(V), Data(t) = Data(s),
         s.auxSent => t.auxSent, Phased(t)
  PROVE  Local(V, n, t) /\ Grows(n, s, t)
  <1>1. /\ t.votes = s.votes /\ t.auxProof = s.auxProof /\ t.sent = s.sent
        /\ t.shares = s.shares /\ t.round = s.round /\ t.tcProcessed = s.tcProcessed
    BY DEF Data
  <1>2. s \in State(V) /\ Len(s.sent) \in Nat
    BY FieldTypes DEF Local
  <1>3. \A r, v : AuxVoters(t, r, v) = AuxVoters(s, r, v)
    BY <1>1 DEF AuxVoters
  <1>4. Proven(t)
    BY <1>1, <1>3 DEF Local, Proven
  <1>5. \A r : AuxDone(V, s, r) => AuxDone(V, t, r)
    BY <1>3 DEF AuxDone
  <1>6. OwnVotes(V, n, t)
    BY <1>1 DEF Local, OwnVotes
  <1>7. OwnShares(V, n, t) /\ Sent(V, n, t)
    BY <1>1, <1>5 DEF Local, OwnShares, Sent
  <1> QED
    BY <1>1, <1>2, <1>4, <1>6, <1>7 DEF Local, Grows

\* broadcast_val of a value, the AUX value once in a round.
LEMMA BroadcastVal ==
  ASSUME NEW V, None \notin V, NEW n \in Active, NEW s, Local(V, n, s), s.output = None,
         NEW type \in {"val", "aux"}, NEW v \in V,
         type = "aux" => /\ s.tcProcessed /\ s.auxSent
                         /\ \A u \in s.votes :
                              u.author = n /\ u.type = "aux" => u.round # s.round
  PROVE  LET t == broadcast_val(n, s, type, v)
         IN  /\ Local(V, n, t) /\ Grows(n, s, t)
             /\ VoteFrame(t) = VoteFrame(s)
             /\ Message(type, n, s.round, v) \in t.votes
             /\ \A r \in Rounds : s.auxProof[r] # None => t.auxProof[r] # None
  <1> DEFINE m == Message(type, n, s.round, v)
             b == broadcast(s, m)
             t == broadcast_val(n, s, type, v)
  <1>1. s \in State(V) /\ s.round \in Rounds /\ s.sent \in Seq(Letter(V)) /\ s.round \in Int
    BY FieldTypes DEF Local, Rounds
  <1>2. /\ m \in Letter(V) /\ m.type = type /\ m.author = n /\ m.round = s.round
        /\ m.val = v
    BY <1>1, MessageIs
  <1> HIDE DEF m
  <1>3. /\ b \in State(V) /\ VoteFrame(b) = VoteFrame(s) /\ b.votes = s.votes
        /\ b.auxProof = s.auxProof /\ b.sent = Append(s.sent, m)
    <2>1. Append(s.sent, m) \in Seq(Letter(V)) /\ b = [s EXCEPT !.sent = Append(s.sent, m)]
      BY <1>1, <1>2 DEF broadcast
    <2> HIDE DEF b
    <2>2. b \in State(V)
      BY ONLY <1>1, <2>1, Zenon DEF State
    <2>3. b.votes = s.votes /\ b.auxProof = s.auxProof
      BY ONLY <1>1, <2>1 DEF State
    <2>4. b.sent = Append(s.sent, m)
      BY ONLY <1>1, <2>1 DEF State
    <2>5. VoteFrame(b) = VoteFrame(s)
      BY ONLY <1>1, <2>1 DEF State, VoteFrame
    <2> QED
      BY ONLY <2>2, <2>3, <2>4, <2>5, Zenon
  <1>4. b.output = None /\ ~(m.round < b.round)
    BY <1>1, <1>2, <1>3 DEF VoteFrame
  <1>5. t = IF type = "val" THEN handle_val_phase(b, m) ELSE handle_aux_phase(b, m)
    BY <1>2, <1>4 DEF broadcast_val, m, handle_aba_val, is_expired_aba_message
  <1> HIDE DEF b, t
  <1>6. /\ t \in State(V) /\ VoteFrame(t) = VoteFrame(b) /\ t.sent = b.sent
        /\ t.votes = s.votes \cup {m}
    BY <1>2, <1>3, <1>5, VoteTypes
  <1>7. Proven(b)
    BY <1>3 DEF Local, Proven, AuxVoters
  <1>8. /\ Proven(t)
        /\ \A r \in Rounds : s.auxProof[r] # None => t.auxProof[r] # None
    <2>1. \/ m.type = "val" /\ t = handle_val_phase(b, m)
          \/ m.type = "aux" /\ t = handle_aux_phase(b, m)
      BY <1>2, <1>5
    <2>2. m.val # None
      BY <1>2
    <2> QED
      BY <1>2, <1>3, <1>7, <2>1, <2>2, VoteProven
  <1>9. /\ t.tcProcessed = s.tcProcessed /\ t.phase = s.phase /\ t.round = s.round
        /\ t.binValues = s.binValues /\ t.output = s.output /\ t.outputRound = s.outputRound
        /\ t.auxSent = s.auxSent /\ t.shares = s.shares /\ t.coin = s.coin
    BY <1>3, <1>6 DEF VoteFrame
  <1>10. Phased(t)
    BY <1>9 DEF Local, Phased
  <1>11. OwnVotes(V, n, t)
    <2>1. \A u \in t.votes : u \in s.votes \/ u = m
      BY <1>6
    <2>2. s.tcProcessed => \E w \in V : Message("val", n, 1, w) \in t.votes
      BY <1>6 DEF Local, OwnVotes
    <2>3. \A u \in t.votes : u.author = n =>
            /\ u.round <= t.round
            /\ u.type = "aux" => t.tcProcessed /\ (u.round = t.round => t.auxSent)
      BY <1>1, <1>2, <1>9, <2>1 DEF Local, OwnVotes
    <2>4. \A u, w \in t.votes :
            u.author = n /\ w.author = n /\ u.type = "aux" /\ w.type = "aux"
              /\ u.round = w.round => u = w
      BY <1>2, <2>1 DEF Local, OwnVotes
    <2> QED
      BY <1>9, <2>2, <2>3, <2>4 DEF OwnVotes
  <1>12. \A r : AuxDone(V, s, r) => AuxDone(V, t, r)
    BY <1>6, MoreDone
  <1>13. OwnShares(V, n, t)
    BY <1>9, <1>12 DEF Local, OwnShares
  <1>14. Sent(V, n, t)
    <2> SUFFICES ASSUME NEW i \in 1 .. Len(t.sent)
                 PROVE  /\ t.sent[i].author = n
                        /\ t.sent[i].type \in {"val", "aux"} => t.sent[i] \in t.votes
                        /\ t.sent[i].type = "coin" => AuxDone(V, t, t.sent[i].round)
                        /\ t.sent[i].type \in {"val", "aux", "proof"} => t.sent[i].val # None
      BY DEF Sent
    <2>1. t.sent[i] = m \/ (i \in 1 .. Len(s.sent) /\ t.sent[i] = s.sent[i])
      BY <1>1, <1>2, <1>3, <1>6
    <2>2. CASE t.sent[i] = m
      BY <1>2, <1>6, <2>2
    <2>3. CASE i \in 1 .. Len(s.sent) /\ t.sent[i] = s.sent[i]
      BY <1>6, <1>12, <2>3 DEF Local, Sent
    <2> QED
      BY <2>1, <2>2, <2>3
  <1>15. Grows(n, s, t)
    <2>1. Len(s.sent) <= Len(t.sent)
      BY <1>1, <1>2, <1>3, <1>6
    <2> QED
      BY <1>2, <1>6, <1>9, <2>1 DEF Grows
  <1> QED
    BY <1>2, <1>3, <1>6, <1>8, <1>10, <1>11, <1>13, <1>14, <1>15 DEF Local, t, m

\* broadcast of another message.
LEMMA Broadcast ==
  ASSUME NEW V, NEW n \in Active, NEW s, Local(V, n, s), NEW m \in Letter(V), m.author = n,
         m.type \notin {"val", "aux"}, m.type = "coin" => AuxDone(V, s, m.round),
         m.type = "proof" => m.val # None
  PROVE  LET t == broadcast(s, m)
         IN  /\ Local(V, n, t) /\ Grows(n, s, t) /\ VoteFrame(t) = VoteFrame(s)
             /\ t.auxProof = s.auxProof /\ t.votes = s.votes
  <1> DEFINE t == broadcast(s, m)
  <1>1. s \in State(V) /\ s.sent \in Seq(Letter(V))
    BY FieldTypes DEF Local
  <1>2. Append(s.sent, m) \in Seq(Letter(V)) /\ t = [s EXCEPT !.sent = Append(s.sent, m)]
    BY <1>1 DEF broadcast
  <1> HIDE DEF t
  <1>3. t \in State(V)
    BY ONLY <1>1, <1>2, Zenon DEF State
  <1>4. /\ VoteFrame(t) = VoteFrame(s) /\ t.votes = s.votes /\ t.auxProof = s.auxProof
        /\ t.sent = Append(s.sent, m)
    BY <1>1, <1>2, <1>3 DEF State, VoteFrame
  <1>5. /\ t.tcProcessed = s.tcProcessed /\ t.phase = s.phase /\ t.round = s.round
        /\ t.binValues = s.binValues /\ t.output = s.output /\ t.outputRound = s.outputRound
        /\ t.auxSent = s.auxSent /\ t.shares = s.shares /\ t.coin = s.coin
    BY <1>4 DEF VoteFrame
  <1>6. Proven(t) /\ \A r : AuxDone(V, s, r) => AuxDone(V, t, r)
    BY <1>4 DEF Local, Proven, AuxVoters, AuxDone
  <1>7. Phased(t) /\ OwnVotes(V, n, t) /\ OwnShares(V, n, t)
    BY <1>4, <1>5, <1>6 DEF Local, Phased, OwnVotes, OwnShares
  <1>8. Sent(V, n, t)
    <2> SUFFICES ASSUME NEW i \in 1 .. Len(t.sent)
                 PROVE  /\ t.sent[i].author = n
                        /\ t.sent[i].type \in {"val", "aux"} => t.sent[i] \in t.votes
                        /\ t.sent[i].type = "coin" => AuxDone(V, t, t.sent[i].round)
                        /\ t.sent[i].type \in {"val", "aux", "proof"} => t.sent[i].val # None
      BY DEF Sent
    <2>1. t.sent[i] = m \/ (i \in 1 .. Len(s.sent) /\ t.sent[i] = s.sent[i])
      BY <1>1, <1>4
    <2>2. CASE t.sent[i] = m
      BY <1>6, <2>2
    <2>3. CASE i \in 1 .. Len(s.sent) /\ t.sent[i] = s.sent[i]
      BY <1>4, <1>6, <2>3 DEF Local, Sent
    <2> QED
      BY <2>1, <2>2, <2>3
  <1>9. Grows(n, s, t)
    <2>1. Len(s.sent) <= Len(t.sent)
      BY <1>1, <1>4
    <2> QED
      BY <1>4, <1>5, <2>1 DEF Grows
  <1> QED
    BY <1>3, <1>4, <1>6, <1>7, <1>8, <1>9 DEF Local, t
-----------------------------------------------------------------------------
(***************************************************************************)
(* The functions of process_aba_phase.                                     *)
(***************************************************************************)
LEMMA ReadyKept ==
  ASSUME NEW V, NEW s \in State(V), NEW t, Ready(s), t.output = s.output, t.phase = s.phase,
         t.round = s.round, s.coin \subseteq t.coin, s.binValues \subseteq t.binValues,
         \A r \in Rounds : s.auxProof[r] # None => t.auxProof[r] # None
  PROVE  Ready(t)
  <1>1. s.round \in Rounds
    BY FieldTypes
  <1> QED
    BY <1>1 DEF Ready

LEMMA PreparesTrans ==
  ASSUME NEW V, NEW n, NEW s, NEW t, NEW u, Local(V, n, s), Prepares(V, n, s, t),
         Prepares(V, n, t, u)
  PROVE  Prepares(V, n, s, u)
  BY GrowsTrans DEF Prepares, Local

LEMMA PreparesSelf ==
  ASSUME NEW V, NEW n, NEW s, Local(V, n, s), Ready(s)
  PROVE  Prepares(V, n, s, s)
  <1>1. Len(s.sent) \in Int
    BY FieldTypes DEF Local
  <1> QED
    BY <1>1 DEF Prepares, Grows

LEMMA process_tcPrepares ==
  ASSUME NEW V, None \notin V, NEW n \in Active, NEW s, Local(V, n, s), Ready(s),
         s.tc # None, ~s.tcProcessed
  PROVE  Prepares(V, n, s, process_tc(n, s))
  <1> DEFINE m == Message("tc", n, 1, s.tc)
             b == broadcast(s, m)
             c == [b EXCEPT !.input = s.tc]
             d == broadcast_val(n, c, "val", s.tc)
             t == [d EXCEPT !.tcProcessed = TRUE]
  <1>1. s \in State(V) /\ s.tc \in V /\ s.tcProcessed \in BOOLEAN
    BY FieldTypes DEF Local
  <1>2. s.phase = INIT_PHASE /\ s.round = 1 /\ 1 \in Rounds
    BY <1>1, TCVBAAssumption DEF Local, Phased, Rounds
  <1>3. m \in Letter(V) /\ m.author = n /\ m.type = "tc"
    <2>1. s.tc \in V \cup {None} /\ "tc" \in {"tc", "val", "aux", "coin", "proof"}
      BY <1>1
    <2> QED
      BY <1>2, <2>1 DEF Letter, Message
  <1> HIDE DEF m
  <1>4. Local(V, n, b) /\ Grows(n, s, b) /\ VoteFrame(b) = VoteFrame(s) /\ b.auxProof = s.auxProof
    BY <1>3, Broadcast
  <1>5. b \in State(V)
    BY <1>4 DEF Local
  <1> HIDE DEF b
  <1>6. c \in State(V)
    BY ONLY <1>1, <1>5, Zenon DEF State
  <1>7. /\ Data(c) = Data(b) /\ c.auxSent = b.auxSent /\ c.phase = b.phase
        /\ c.binValues = b.binValues /\ c.outputRound = b.outputRound /\ c.output = b.output
        /\ c.coin = b.coin /\ c.shares = b.shares /\ c.round = b.round
        /\ c.tcProcessed = b.tcProcessed
    BY <1>5 DEF State, Data
  <1> HIDE DEF c
  <1>8. Local(V, n, c) /\ Grows(n, b, c)
    <2>1. Phased(c)
      BY <1>4, <1>7 DEF Local, Phased
    <2> QED
      BY <1>4, <1>6, <1>7, <2>1, Carry
  <1>9. c.output = None /\ c.round = 1 /\ c.phase = INIT_PHASE
    BY <1>2, <1>4, <1>7 DEF VoteFrame, Ready
  <1>10. /\ Local(V, n, d) /\ Grows(n, c, d) /\ VoteFrame(d) = VoteFrame(c)
         /\ Message("val", n, 1, s.tc) \in d.votes
    BY <1>1, <1>8, <1>9, BroadcastVal
  <1>11. d \in State(V)
    BY <1>10 DEF Local
  <1> HIDE DEF d
  <1>12. t \in State(V)
    BY ONLY <1>11, Zenon DEF State
  <1>13. /\ t.tcProcessed /\ t.votes = d.votes /\ t.shares = d.shares /\ t.sent = d.sent
         /\ t.auxProof = d.auxProof /\ t.phase = d.phase /\ t.round = d.round
         /\ t.binValues = d.binValues /\ t.output = d.output /\ t.outputRound = d.outputRound
         /\ t.coin = d.coin /\ t.auxSent = d.auxSent
    BY <1>11 DEF State
  <1>14. d.phase = INIT_PHASE /\ d.output = None
    BY <1>9, <1>10 DEF VoteFrame
  <1> HIDE DEF t
  <1>15. Phased(t)
    BY <1>10, <1>13, <1>14 DEF Local, Phased, INIT_PHASE, AUX_PHASE, COIN_PHASE
  <1>16. OwnVotes(V, n, t)
    BY <1>1, <1>10, <1>13 DEF Local, OwnVotes
  <1>17. Proven(t) /\ OwnShares(V, n, t) /\ Sent(V, n, t)
    <2>1. \A r, v : AuxVoters(t, r, v) = AuxVoters(d, r, v)
      BY <1>13 DEF AuxVoters
    <2>2. \A r : AuxDone(V, d, r) => AuxDone(V, t, r)
      BY <2>1 DEF AuxDone
    <2>3. Proven(t)
      BY <1>10, <1>13, <2>1 DEF Local, Proven
    <2> QED
      BY <1>10, <1>13, <2>2, <2>3 DEF Local, OwnShares, Sent
  <1>18. Grows(n, d, t)
    <2>1. Len(t.sent) \in Int
      BY <1>12, FieldTypes
    <2> QED
      BY <1>13, <2>1 DEF Grows
  <1>19. Grows(n, s, t)
    BY <1>1, <1>4, <1>5, <1>6, <1>8, <1>10, <1>11, <1>12, <1>18, GrowsTrans
  <1>20. t.phase = s.phase /\ Ready(t) /\ t.round = s.round
    BY <1>2, <1>9, <1>10, <1>13, <1>14 DEF Ready, VoteFrame, INIT_PHASE, COIN_PHASE
  <1>21. t = process_tc(n, s)
    BY DEF t, d, c, b, m, process_tc
  <1>22. Local(V, n, t)
    BY <1>12, <1>15, <1>16, <1>17 DEF Local
  <1> QED
    BY <1>19, <1>20, <1>21, <1>22 DEF Prepares

\* Setting valSent, auxSent or coinSent.
LEMMA FlagSet ==
  ASSUME NEW V, NEW n, NEW s, Local(V, n, s), Ready(s),
         NEW t \in {[s EXCEPT !.valSent = TRUE], [s EXCEPT !.auxSent = TRUE],
                    [s EXCEPT !.coinSent = TRUE]}
  PROVE  /\ Prepares(V, n, s, t)
         /\ t.round = s.round /\ t.votes = s.votes /\ t.output = s.output
         /\ t.tcProcessed = s.tcProcessed /\ t.binValues = s.binValues
         /\ t.auxProof = s.auxProof /\ t.shares = s.shares /\ t.coin = s.coin
         /\ t = [s EXCEPT !.auxSent = TRUE] => t.auxSent
  <1>1. s \in State(V)
    BY DEF Local
  <1>2. t \in State(V)
    <2>1. [s EXCEPT !.valSent = TRUE] \in State(V)
      BY ONLY <1>1, Zenon DEF State
    <2>2. [s EXCEPT !.auxSent = TRUE] \in State(V)
      BY ONLY <1>1, Zenon DEF State
    <2>3. [s EXCEPT !.coinSent = TRUE] \in State(V)
      BY ONLY <1>1, Zenon DEF State
    <2> QED
      BY <2>1, <2>2, <2>3
  <1>3. /\ t.round = s.round /\ t.votes = s.votes /\ t.output = s.output
        /\ t.tcProcessed = s.tcProcessed /\ t.binValues = s.binValues
        /\ t.auxProof = s.auxProof /\ t.shares = s.shares /\ t.coin = s.coin
        /\ t.sent = s.sent /\ t.phase = s.phase /\ t.outputRound = s.outputRound
    BY <1>1 DEF State
  <1>4. /\ s.auxSent => t.auxSent
        /\ t = [s EXCEPT !.auxSent = TRUE] => t.auxSent
    BY <1>1, Zenon DEF State
  <1>5. Phased(t) /\ Data(t) = Data(s) /\ Ready(t)
    BY <1>3 DEF Local, Phased, Data, Ready
  <1>6. Local(V, n, t) /\ Grows(n, s, t)
    BY <1>2, <1>4, <1>5, Carry
  <1> QED
    BY <1>3, <1>4, <1>5, <1>6 DEF Prepares

LEMMA process_val_phase_1Prepares ==
  ASSUME NEW V, None \notin V, NEW n \in Active, NEW s, Local(V, n, s), Ready(s)
  PROVE  Prepares(V, n, s, process_val_phase_1(n, s))
  <1> DEFINE v == s.cache1[s.round]
             c == [s EXCEPT !.valSent = TRUE]
             t == broadcast_val(n, c, "val", v)
  <1>1. CASE v = None \/ v = s.input \/ s.valSent
    BY <1>1, PreparesSelf DEF process_val_phase_1
  <1>2. CASE ~(v = None \/ v = s.input \/ s.valSent)
    <2>1. v \in V
      BY <1>2, FieldTypes DEF Local
    <2>2. Prepares(V, n, s, c)
      BY FlagSet
    <2>3. process_val_phase_1(n, s) = t
      BY <1>2 DEF process_val_phase_1
    <2> HIDE DEF c
    <2>4. /\ Local(V, n, t) /\ Grows(n, c, t) /\ VoteFrame(t) = VoteFrame(c)
          /\ \A r \in Rounds : c.auxProof[r] # None => t.auxProof[r] # None
      BY <2>1, <2>2, BroadcastVal DEF Prepares, Ready
    <2> HIDE DEF t
    <2>5. Ready(t) /\ t.phase = c.phase /\ t.round = c.round
      <3>1. c \in State(V)
        BY <2>2 DEF Prepares, Local
      <3> QED
        BY <2>2, <2>4, <3>1, ReadyKept DEF VoteFrame, Prepares
    <2>6. Prepares(V, n, c, t)
      BY <2>4, <2>5 DEF Prepares
    <2> QED
      BY <2>2, <2>3, <2>6, PreparesTrans
  <1> QED
    BY <1>1, <1>2

\* A value with a quorum of votes is accepted.
LEMMA Accepts ==
  ASSUME NEW V, NEW n, NEW s, Local(V, n, s), Ready(s), NEW v \in V
  PROVE  Prepares(V, n, s, [s EXCEPT !.binValues = @ \cup {v}])
  <1> DEFINE B == s.binValues \cup {v}
             t == [s EXCEPT !.binValues = B]
  <1>1. s \in State(V) /\ B \in SUBSET V
    BY FieldTypes DEF Local
  <1>2. IsFiniteSet(B)
    BY FS_AddElement DEF Local, Phased
  <1>3. B # {} /\ s.binValues \subseteq B
    OBVIOUS
  <1> HIDE DEF B
  <1>4. t \in State(V)
    BY ONLY <1>1, Zenon DEF State
  <1>5. /\ t.round = s.round /\ t.votes = s.votes /\ t.output = s.output
        /\ t.tcProcessed = s.tcProcessed /\ t.binValues = B /\ t.auxSent = s.auxSent
        /\ t.auxProof = s.auxProof /\ t.shares = s.shares /\ t.coin = s.coin
        /\ t.sent = s.sent /\ t.phase = s.phase /\ t.outputRound = s.outputRound
    BY <1>1 DEF State
  <1>6. Phased(t) /\ Data(t) = Data(s)
    BY <1>2, <1>3, <1>5 DEF Local, Phased, Data
  <1>7. Ready(t)
    BY <1>1, <1>3, <1>5, ReadyKept
  <1>8. Local(V, n, t) /\ Grows(n, s, t)
    BY <1>4, <1>5, <1>6, Carry
  <1> QED
    BY <1>5, <1>7, <1>8 DEF Prepares, B

LEMMA process_val_phase_2Prepares ==
  ASSUME NEW V, None \notin V, NEW n \in Active, NEW s, Local(V, n, s), Ready(s),
         s.tcProcessed
  PROVE  Prepares(V, n, s, process_val_phase_2(n, s))
  <1> DEFINE v == s.cache2[s.round]
             c == [s EXCEPT !.auxSent = TRUE]
             d == broadcast_val(n, c, "aux", v)
             s1 == IF s.binValues = {} \/ s.auxSent THEN s ELSE d
  <1>1. CASE v = None
    BY <1>1, PreparesSelf DEF process_val_phase_2
  <1>2. CASE v # None
    <2>1. v \in V
      BY <1>2, FieldTypes DEF Local
    <2>2. Prepares(V, n, s, s1)
      <3>1. CASE s.binValues = {} \/ s.auxSent
        BY <3>1, PreparesSelf
      <3>2. CASE ~(s.binValues = {} \/ s.auxSent)
        <4>1. \A u \in s.votes : u.author = n /\ u.type = "aux" => u.round # s.round
          BY <3>2 DEF Local, OwnVotes
        <4>2. /\ Prepares(V, n, s, c) /\ c.tcProcessed /\ c.auxSent
              /\ c.votes = s.votes /\ c.round = s.round
          <5>1. c \in {[s EXCEPT !.valSent = TRUE], [s EXCEPT !.auxSent = TRUE],
                       [s EXCEPT !.coinSent = TRUE]}
            OBVIOUS
          <5>2. /\ Prepares(V, n, s, c) /\ c.tcProcessed = s.tcProcessed /\ c.auxSent
                /\ c.votes = s.votes /\ c.round = s.round
            BY <5>1, FlagSet
          <5> HIDE DEF c
          <5> QED
            BY <5>2
        <4> HIDE DEF c
        <4>3. /\ Local(V, n, d) /\ Grows(n, c, d) /\ VoteFrame(d) = VoteFrame(c)
              /\ \A r \in Rounds : c.auxProof[r] # None => d.auxProof[r] # None
          BY <2>1, <4>1, <4>2, BroadcastVal DEF Prepares, Ready
        <4> HIDE DEF d
        <4>4. Ready(d) /\ d.phase = c.phase /\ d.round = c.round
          <5>1. c \in State(V)
            BY <4>2 DEF Prepares, Local
          <5> QED
            BY <4>2, <4>3, <5>1, ReadyKept DEF VoteFrame, Prepares
        <4>5. Prepares(V, n, c, d)
          BY <4>3, <4>4 DEF Prepares
        <4> QED
          BY <3>2, <4>2, <4>5, PreparesTrans
      <3> QED
        BY <3>1, <3>2
    <2>3. process_val_phase_2(n, s) = [s1 EXCEPT !.binValues = @ \cup {v}]
      BY <1>2 DEF process_val_phase_2
    <2> HIDE DEF s1
    <2>4. Prepares(V, n, s1, [s1 EXCEPT !.binValues = @ \cup {v}])
      BY <2>1, <2>2, Accepts DEF Prepares
    <2> QED
      BY <2>2, <2>3, <2>4, PreparesTrans
  <1> QED
    BY <1>1, <1>2

\* handle_coin_share of a share that is the author's own, or another node's.
LEMMA ShareHandled ==
  ASSUME NEW V, NEW n, NEW s, Local(V, n, s), NEW m \in Letter(V),
         m.author = n => AuxDone(V, s, m.round)
  PROVE  LET t == handle_coin_share(s, m)
         IN  /\ Local(V, n, t)
             /\ \A u \in t.shares : u \in s.shares \/ u = m
             /\ s.coin \subseteq t.coin
             /\ Data(t) = <<s.votes, s.auxProof, s.sent, t.shares, s.round, s.tcProcessed>>
             /\ t.phase = s.phase /\ t.binValues = s.binValues /\ t.output = s.output
  <1> DEFINE t     == handle_coin_share(s, m)
             known == {u \in s.shares : u.round = m.round}
             S     == s.shares \cup {m}
             C     == IF m \notin known /\ Cardinality(known) + 1 = random_coin_threshold
                      THEN s.coin \cup {m.round} ELSE s.coin
  <1>1. s \in State(V) /\ s.shares \in SUBSET Letter(V) /\ s.coin \in SUBSET Rounds
    BY FieldTypes DEF Local
  <1>2. CASE is_expired_aba_message(s, m)
    BY <1>1, <1>2 DEF handle_coin_share, Data
  <1>3. CASE ~is_expired_aba_message(s, m)
    <2>1. t = [s EXCEPT !.shares = S, !.coin = C]
      BY <1>3 DEF handle_coin_share
    <2>2. S \in SUBSET Letter(V) /\ C \in SUBSET Rounds /\ s.coin \subseteq C
      BY <1>1, LetterIs
    <2>3. \A r \in C : r \in s.coin \/ r = m.round
      OBVIOUS
    <2> HIDE DEF t, C
    <2>4. t \in State(V)
      <3> HIDE DEF S
      <3> QED
        BY ONLY <1>1, <2>1, <2>2, Zenon DEF State
    <2>5. /\ t.shares = S /\ t.coin = C /\ t.votes = s.votes /\ t.auxProof = s.auxProof
          /\ t.sent = s.sent /\ t.round = s.round /\ t.tcProcessed = s.tcProcessed
          /\ t.phase = s.phase /\ t.binValues = s.binValues /\ t.output = s.output
          /\ t.outputRound = s.outputRound /\ t.auxSent = s.auxSent
      BY <1>1, <2>1, <2>4 DEF State
    <2>6. \A r, v : AuxVoters(t, r, v) = AuxVoters(s, r, v)
      BY <2>5 DEF AuxVoters
    <2>7. \A r : AuxDone(V, s, r) => AuxDone(V, t, r)
      BY <2>6 DEF AuxDone
    <2>8. Phased(t)
      <3>1. \A r \in t.coin : \E u \in t.shares : u.round = r
        BY <2>3, <2>5 DEF Local, Phased
      <3>2. t.output # None => t.coin # {}
        BY <2>2, <2>5 DEF Local, Phased
      <3> QED
        BY <2>5, <3>1, <3>2 DEF Local, Phased
    <2>9. Proven(t) /\ OwnVotes(V, n, t)
      BY <2>5, <2>6 DEF Local, Proven, OwnVotes
    <2>10. OwnShares(V, n, t) /\ Sent(V, n, t)
      BY <2>5, <2>7 DEF Local, OwnShares, Sent
    <2>11. Local(V, n, t)
      BY <2>4, <2>8, <2>9, <2>10 DEF Local
    <2> QED
      BY <2>2, <2>5, <2>11 DEF Data, t
  <1> QED
    BY <1>2, <1>3

LEMMA process_aux_phasePrepares ==
  ASSUME NEW V, None \notin V, NEW n \in Active, NEW s, Local(V, n, s), Ready(s)
  PROVE  Prepares(V, n, s, process_aux_phase(n, s))
  <1> DEFINE m == Message("coin", n, s.round, None)
             c == [s EXCEPT !.coinSent = TRUE]
             b == broadcast(c, m)
             t == handle_coin_share(b, m)
  <1>1. CASE s.auxProof[s.round] = None \/ s.coinSent
    BY <1>1, PreparesSelf DEF process_aux_phase
  <1>2. CASE ~(s.auxProof[s.round] = None \/ s.coinSent)
    <2>1. s.round \in Rounds /\ s.auxProof[s.round] \in V
      BY <1>2, FieldTypes DEF Local
    <2>2. AuxDone(V, s, s.round)
      BY <1>2, <2>1 DEF Local, Proven, AuxDone
    <2>3. /\ m \in Letter(V) /\ m.author = n /\ m.type = "coin" /\ m.round = s.round
      BY <2>1 DEF Letter, Message
    <2>4. process_aux_phase(n, s) = t
      BY <1>2 DEF process_aux_phase
    <2>5. Prepares(V, n, s, c) /\ c.votes = s.votes
      BY FlagSet
    <2> HIDE DEF m, c
    <2>6. AuxDone(V, c, m.round)
      BY <2>2, <2>3, <2>5, MoreDone
    <2>7. /\ Local(V, n, b) /\ Grows(n, c, b) /\ VoteFrame(b) = VoteFrame(c)
          /\ b.auxProof = c.auxProof /\ b.votes = c.votes
      BY <2>3, <2>5, <2>6, Broadcast DEF Prepares
    <2> HIDE DEF b
    <2>8. /\ b.round = c.round /\ b.output = c.output /\ b.phase = c.phase
          /\ b.binValues = c.binValues /\ b.coin = c.coin
      BY <2>7 DEF VoteFrame
    <2>9. AuxDone(V, b, m.round)
      BY <2>6, <2>7, MoreDone
    <2>10. /\ Local(V, n, t)
           /\ \A u \in t.shares : u \in b.shares \/ u = m
           /\ b.coin \subseteq t.coin
           /\ Data(t) = <<b.votes, b.auxProof, b.sent, t.shares, b.round, b.tcProcessed>>
           /\ t.phase = b.phase /\ t.binValues = b.binValues /\ t.output = b.output
      BY <2>3, <2>7, <2>9, ShareHandled
    <2> HIDE DEF t
    <2>11. /\ t.votes = b.votes /\ t.auxProof = b.auxProof /\ t.sent = b.sent
           /\ t.round = b.round /\ t.tcProcessed = b.tcProcessed
      BY <2>10 DEF Data
    <2>12. Grows(n, b, t)
      <3>1. Len(t.sent) \in Int
        BY <2>10, FieldTypes DEF Local
      <3> QED
        BY <2>3, <2>10, <2>11, <3>1 DEF Grows
    <2>13. Ready(t)
      <3>1. c \in State(V) /\ Ready(c)
        BY <2>5 DEF Prepares, Local
      <3> QED
        BY <2>7, <2>8, <2>10, <2>11, <3>1, ReadyKept
    <2>14. Grows(n, c, t)
      BY <2>5, <2>7, <2>10, <2>12, GrowsTrans DEF Prepares, Local
    <2>15. Prepares(V, n, c, t)
      BY <2>8, <2>10, <2>11, <2>13, <2>14 DEF Prepares
    <2> QED
      BY <2>4, <2>5, <2>15, PreparesTrans
  <1> QED
    BY <1>1, <1>2

\* The next round: nothing of it was sent before.
LEMMA AdvanceLocal ==
  ASSUME NEW V, None \notin V, NEW n \in Active, NEW s, Local(V, n, s), s.output = None,
         s.round \in 1 .. MaxRound, s.tcProcessed, NEW v \in V
  PROVE  LET t == advance_aba_round(n, s, v)
         IN  Local(V, n, t) /\ Grows(n, s, t) /\ t.phase = VAL_PHASE
  <1> DEFINE r  == s.round + 1
             c1 == [k \in Rounds |-> IF k < r THEN None ELSE s.cache1[k]]
             c2 == [k \in Rounds |-> IF k < r THEN None ELSE s.cache2[k]]
             ap == [k \in Rounds |-> IF k < r THEN None ELSE s.auxProof[k]]
             pr == [k \in Rounds |-> IF k < r THEN None ELSE s.proof[k]]
             an == [k \in Rounds |-> IF k < r THEN 0 ELSE s.auxNums[k]]
             c  == [s EXCEPT !.round = r, !.phase = VAL_PHASE, !.input = v, !.binValues = {},
                      !.valSent = FALSE, !.auxSent = FALSE, !.coinSent = FALSE,
                      !.proofSent = FALSE, !.cache1 = c1, !.cache2 = c2, !.auxProof = ap,
                      !.proof = pr, !.auxNums = an]
             t  == broadcast_val(n, c, "val", v)
  <1>1. s \in State(V)
    BY DEF Local
  <1>2. /\ r \in Rounds /\ VAL_PHASE \in INIT_PHASE .. COIN_PHASE /\ v \in V \cup {None}
        /\ {} \in SUBSET V /\ FALSE \in BOOLEAN /\ s.round < r
    BY TCVBAAssumption DEF Rounds, VAL_PHASE, INIT_PHASE, COIN_PHASE
  <1>3. /\ c1 \in [Rounds -> V \cup {None}] /\ c2 \in [Rounds -> V \cup {None}]
        /\ ap \in [Rounds -> V \cup {None}] /\ pr \in [Rounds -> V \cup {None}]
        /\ an \in [Rounds -> Nat]
    <2>1. /\ s.cache1 \in [Rounds -> V \cup {None}] /\ s.cache2 \in [Rounds -> V \cup {None}]
          /\ s.auxProof \in [Rounds -> V \cup {None}] /\ s.proof \in [Rounds -> V \cup {None}]
          /\ s.auxNums \in [Rounds -> Nat]
      BY <1>1, FieldTypes
    <2> HIDE DEF r
    <2> QED
      BY <2>1
  <1>4. \A k \in Rounds : ap[k] # None => ap[k] = s.auxProof[k]
    OBVIOUS
  <1>5. advance_aba_round(n, s, v) = t
    BY DEF advance_aba_round
  <1> HIDE DEF r, c1, c2, ap, pr, an
  <1>6. c \in State(V)
    BY ONLY <1>1, <1>2, <1>3, ZenonT(60) DEF State
  <1>7. /\ c.round = r /\ c.votes = s.votes /\ c.output = s.output /\ c.phase = VAL_PHASE
        /\ c.tcProcessed = s.tcProcessed /\ c.binValues = {}
        /\ c.auxProof = ap /\ c.shares = s.shares /\ c.coin = s.coin
        /\ c.sent = s.sent /\ c.outputRound = s.outputRound
    <2>1. c.round = r /\ c.phase = VAL_PHASE
      BY ONLY <1>1 DEF State
    <2>2. c.binValues = {} /\ c.auxProof = ap
      BY ONLY <1>1 DEF State
    <2>3. c.votes = s.votes /\ c.output = s.output /\ c.tcProcessed = s.tcProcessed
      BY ONLY <1>1 DEF State
    <2>4. c.shares = s.shares /\ c.coin = s.coin
      BY ONLY <1>1 DEF State
    <2>5. c.sent = s.sent /\ c.outputRound = s.outputRound
      BY ONLY <1>1 DEF State
    <2> QED
      BY ONLY <2>1, <2>2, <2>3, <2>4, <2>5, Zenon
  <1> HIDE DEF c
  <1>8. s.round \in Int /\ r \in Int /\ s.outputRound \in Int
    BY <1>1, <1>2, FieldTypes DEF Rounds
  <1>9. /\ \A k, w : AuxVoters(c, k, w) = AuxVoters(s, k, w)
        /\ \A k : AuxDone(V, s, k) => AuxDone(V, c, k)
    BY <1>7 DEF AuxVoters, AuxDone
  <1>10. Proven(c)
    BY <1>4, <1>7, <1>9 DEF Local, Proven
  <1>11. Phased(c)
    <2>1. IsFiniteSet(c.binValues)
      BY <1>7, FS_EmptySet
    <2>2. c.outputRound <= c.round
      BY <1>2, <1>7, <1>8 DEF Local, Phased
    <2>3. c.phase = VAL_PHASE /\ VAL_PHASE \notin {INIT_PHASE, AUX_PHASE, COIN_PHASE}
      BY <1>7 DEF VAL_PHASE, INIT_PHASE, AUX_PHASE, COIN_PHASE
    <2>4. \A k \in c.coin : \E u \in c.shares : u.round = k
      BY <1>7 DEF Local, Phased
    <2> QED
      BY <1>7, <2>1, <2>2, <2>3, <2>4 DEF Phased
  <1>12. OwnVotes(V, n, c)
    <2>1. ASSUME NEW u \in c.votes, u.author = n
          PROVE  u.round <= c.round /\ u.round # c.round
      <3>1. u.round <= s.round
        BY <1>7, <2>1 DEF Local, OwnVotes
      <3>2. u \in Letter(V)
        BY <1>1, <1>7, FieldTypes
      <3>3. u.round \in Int
        BY <3>2, LetterIs DEF Rounds
      <3> QED
        BY <1>2, <1>7, <1>8, <3>1, <3>3
    <2> QED
      BY <1>7, <2>1 DEF Local, OwnVotes
  <1>13. OwnShares(V, n, c) /\ Sent(V, n, c)
    BY <1>7, <1>9 DEF Local, OwnShares, Sent
  <1>14. Local(V, n, c)
    BY <1>6, <1>10, <1>11, <1>12, <1>13 DEF Local
  <1>15. Grows(n, s, c)
    <2>1. Len(s.sent) \in Int
      BY <1>1, FieldTypes
    <2> QED
      BY <1>7, <2>1 DEF Grows
  <1>16. Local(V, n, t) /\ Grows(n, c, t) /\ VoteFrame(t) = VoteFrame(c)
    BY <1>7, <1>14, BroadcastVal
  <1> HIDE DEF t
  <1>17. Grows(n, s, t)
    BY <1>1, <1>6, <1>15, <1>16, GrowsTrans DEF Local
  <1>18. t.phase = VAL_PHASE
    BY <1>7, <1>16 DEF VoteFrame
  <1> QED
    BY <1>5, <1>16, <1>17, <1>18

LEMMA OutputLocal ==
  ASSUME NEW V, None \notin V, NEW n \in Active, NEW s, Local(V, n, s),
         s.coin # {}, s.auxProof[s.round] # None, NEW v \in V
  PROVE  LET t == Output(n, s, v)
         IN  Local(V, n, t) /\ Grows(n, s, t) /\ t.output = v
  <1> DEFINE m == Message("proof", n, s.round, s.auxProof[s.round])
             c == [s EXCEPT !.output = v, !.outputRound = s.round]
             d == [c EXCEPT !.proofSent = TRUE]
             t == broadcast(d, m)
  <1>1. s \in State(V) /\ s.round \in Rounds /\ s.round \in Nat
    BY FieldTypes DEF Local, Rounds
  <1>2. c \in State(V) /\ d \in State(V)
    <2>1. v \in V \cup {None}
      OBVIOUS
    <2>2. c \in State(V)
      BY ONLY <1>1, <2>1, Zenon DEF State
    <2> HIDE DEF c
    <2>3. d \in State(V)
      BY ONLY <2>2, Zenon DEF State
    <2> QED
      BY <2>2, <2>3
  <1>3. Local(V, n, c) /\ Grows(n, s, c) /\ c.output = v
    <2>1. /\ c.round = s.round /\ c.votes = s.votes /\ c.output = v /\ c.phase = s.phase
          /\ c.tcProcessed = s.tcProcessed /\ c.binValues = s.binValues
          /\ c.auxProof = s.auxProof /\ c.shares = s.shares /\ c.coin = s.coin
          /\ c.sent = s.sent /\ c.outputRound = s.round /\ c.auxSent = s.auxSent
      BY <1>1 DEF State
    <2>2. Data(c) = Data(s) /\ Phased(c)
      BY <1>1, <2>1 DEF Local, Data, Phased
    <2> QED
      BY <1>2, <2>1, <2>2, Carry
  <1> HIDE DEF c
  <1>4. Local(V, n, d) /\ Grows(n, c, d) /\ d.output = v
    <2>1. /\ d.round = c.round /\ d.votes = c.votes /\ d.output = c.output
          /\ d.tcProcessed = c.tcProcessed /\ d.binValues = c.binValues
          /\ d.auxProof = c.auxProof /\ d.shares = c.shares /\ d.coin = c.coin
          /\ d.sent = c.sent /\ d.outputRound = c.outputRound /\ d.auxSent = c.auxSent
          /\ d.phase = c.phase
      BY <1>2 DEF State
    <2>2. Data(d) = Data(c) /\ Phased(d)
      BY <1>3, <2>1 DEF Local, Data, Phased
    <2> QED
      BY <1>2, <1>3, <2>1, <2>2, Carry
  <1> HIDE DEF d
  <1>5. CASE s.proofSent
    BY <1>3, <1>5 DEF Output, c
  <1>6. CASE ~s.proofSent
    <2>1. s.auxProof[s.round] \in V \cup {None}
      BY <1>1, FieldTypes
    <2>2. m \in Letter(V) /\ m.author = n /\ m.type = "proof" /\ m.val # None
      BY <1>1, <2>1 DEF Letter, Message
    <2> HIDE DEF m
    <2>3. Local(V, n, t) /\ Grows(n, d, t) /\ VoteFrame(t) = VoteFrame(d)
      BY <1>4, <2>2, Broadcast
    <2>4. Output(n, s, v) = t
      BY <1>6 DEF Output, c, d, t, m
    <2> HIDE DEF t
    <2>5. Grows(n, c, t)
      BY <1>2, <1>4, <2>3, GrowsTrans DEF Local
    <2>6. Grows(n, s, t)
      BY <1>1, <1>2, <1>3, <2>3, <2>5, GrowsTrans DEF Local
    <2>7. t.output = v
      BY <1>4, <2>3 DEF VoteFrame
    <2> QED
      BY <2>3, <2>4, <2>6, <2>7
  <1> QED
    BY <1>5, <1>6

LEMMA process_coin_shareLocal ==
  ASSUME NEW V, Closed(V), NEW n \in Active, NEW s, Local(V, n, s), Ready(s),
         s.phase = COIN_PHASE, s.round \in 1 .. MaxRound
  PROVE  LET t == process_coin_share(n, s)
         IN  Local(V, n, t) /\ Grows(n, s, t) /\ Settled(t)
  <1> DEFINE c == Coin[s.round]
             v == CHOOSE x \in s.binValues : TRUE
             p == s.auxProof[s.round]
             t == process_coin_share(n, s)
  <1>1. None \notin V /\ V \subseteq Nat
    BY DEF Closed, None
  <1>2. /\ s.round \in s.coin /\ s.output = None
        /\ p # None \/ \E x, y \in s.binValues : x # y
    BY DEF Ready
  <1>3. s.tcProcessed /\ s.binValues # {} /\ IsFiniteSet(s.binValues)
    BY DEF Local, Phased, COIN_PHASE, INIT_PHASE
  <1>4. c \in {0, 1} /\ s.binValues \in SUBSET V /\ p \in V \cup {None}
    BY TCVBAAssumption, FieldTypes DEF Local, Rounds
  <1>5. v \in V
    BY <1>3, <1>4
  <1>6. ASSUME NEW w \in V PROVE LET u == advance_aba_round(n, s, w)
                                 IN  Local(V, n, u) /\ Grows(n, s, u) /\ Settled(u)
    BY <1>1, <1>2, <1>3, AdvanceLocal DEF Settled, VAL_PHASE, COIN_PHASE
  <1>7. ASSUME NEW w \in V, p # None
        PROVE  LET u == Output(n, s, w) IN Local(V, n, u) /\ Grows(n, s, u) /\ Settled(u)
    <2>1. s.coin # {} /\ w # None
      BY <1>1, <1>2
    <2> QED
      BY <1>1, <1>7, <2>1, OutputLocal DEF Settled
  <1>8. CASE Cardinality(s.binValues) = 1
    <2>1. \E x : s.binValues = {x}
      BY <1>3, <1>8, FS_Singleton
    <2>2. p # None
      BY <1>2, <2>1
    <2>3. t = IF v % 2 = c THEN Output(n, s, v) ELSE advance_aba_round(n, s, v)
      BY <1>2, <1>8 DEF process_coin_share
    <2> HIDE DEF t, v, p
    <2> QED
      BY <1>5, <1>6, <1>7, <2>2, <2>3 DEF t
  <1>9. CASE Cardinality(s.binValues) # 1
    <2>1. c \in V
      <3>1. CASE {0, 1} \subseteq V
        BY <1>4, <3>1
      <3>2. ASSUME NEW h, V = {h} PROVE FALSE
        <4>1. s.binValues = {h}
          BY <1>3, <1>4, <3>2
        <4> QED
          BY <1>9, <4>1, FS_Singleton
      <3> QED
        BY <3>1, <3>2 DEF Closed
    <2>2. t = IF p # None /\ p % 2 = c THEN Output(n, s, p) ELSE advance_aba_round(n, s, c)
      BY <1>2, <1>9 DEF process_coin_share
    <2> HIDE DEF t, v, p, c
    <2> QED
      BY <1>4, <1>6, <1>7, <2>1, <2>2 DEF t
  <1> QED
    BY <1>8, <1>9

LEMMA process_aba_proofLocal ==
  ASSUME NEW V, NEW n, NEW s, Local(V, n, s)
  PROVE  LET t == process_aba_proof(s)
         IN  Local(V, n, t) /\ Grows(n, s, t) /\ (Settled(s) => Settled(t))
  <1> DEFINE p == s.proof[s.round]
             c == [s EXCEPT !.output = p, !.outputRound = s.round]
             t == process_aba_proof(s)
  <1>1. /\ s \in State(V) /\ s.round \in Nat /\ p \in V \cup {None}
        /\ Len(s.sent) \in Int
    <2>1. /\ s \in State(V) /\ s.round \in Rounds /\ s.sent \in Seq(Letter(V))
          /\ s.proof \in [Rounds -> V \cup {None}]
      BY FieldTypes DEF Local
    <2>2. s.round \in Nat
      BY <2>1 DEF Rounds
    <2> QED
      BY <2>1, <2>2
  <1>2. CASE t = s
    BY <1>1, <1>2 DEF Grows
  <1>3. CASE t # s
    <2>1. t = c /\ p # None /\ s.round \in s.coin
      BY <1>3 DEF process_aba_proof
    <2> HIDE DEF t, p
    <2>2. c \in State(V)
      BY ONLY <1>1, Zenon DEF State
    <2>3. /\ c.round = s.round /\ c.votes = s.votes /\ c.output = p /\ c.phase = s.phase
          /\ c.tcProcessed = s.tcProcessed /\ c.binValues = s.binValues
          /\ c.auxProof = s.auxProof /\ c.shares = s.shares /\ c.coin = s.coin
          /\ c.sent = s.sent /\ c.outputRound = s.round /\ c.auxSent = s.auxSent
      BY <1>1 DEF State
    <2> HIDE DEF c
    <2>4. Data(c) = Data(s) /\ Phased(c)
      BY <1>1, <2>1, <2>3 DEF Local, Data, Phased
    <2>5. Local(V, n, c) /\ Grows(n, s, c) /\ Settled(c)
      BY <2>1, <2>2, <2>3, <2>4, Carry DEF Settled
    <2> QED
      BY <2>1, <2>5 DEF t
  <1> QED
    BY <1>2, <1>3

LEMMA process_aba_phaseLocal ==
  ASSUME NEW V, Closed(V), NEW n \in Active, NEW s, Local(V, n, s), Ready(s),
         s.round \in 1 .. MaxRound
  PROVE  LET t == process_aba_phase(n, s)
         IN  Local(V, n, t) /\ Grows(n, s, t) /\ Settled(t)
  <1> DEFINE s1 == IF s.tc = None \/ s.tcProcessed THEN s ELSE process_tc(n, s)
             a  == process_val_phase_1(n, s1)
             s2 == IF s.phase >= VAL_PHASE THEN process_val_phase_2(n, a) ELSE s1
             s3 == IF s.phase >= AUX_PHASE THEN process_aux_phase(n, s2) ELSE s2
             s4 == IF s.phase >= COIN_PHASE THEN process_coin_share(n, s3) ELSE s3
             t  == process_aba_phase(n, s)
  <1>1. None \notin V
    BY DEF Closed, None
  <1>2. Prepares(V, n, s, s1)
    <2>1. CASE s.tc = None \/ s.tcProcessed
      BY <2>1, PreparesSelf
    <2>2. CASE ~(s.tc = None \/ s.tcProcessed)
      BY <1>1, <2>2, process_tcPrepares
    <2> QED
      BY <2>1, <2>2
  <1> HIDE DEF s1
  <1>3. Prepares(V, n, s, a)
    <2>1. Prepares(V, n, s1, a)
      BY <1>1, <1>2, process_val_phase_1Prepares DEF Prepares
    <2> QED
      BY <1>2, <2>1, PreparesTrans
  <1> HIDE DEF a
  <1>4. Prepares(V, n, s, s2)
    <2>1. CASE s.phase >= VAL_PHASE
      <3>1. a.tcProcessed
        BY <1>3, <2>1 DEF Prepares, Local, Phased, VAL_PHASE, INIT_PHASE
      <3>2. Prepares(V, n, a, s2)
        BY <1>1, <1>3, <2>1, <3>1, process_val_phase_2Prepares DEF Prepares
      <3> QED
        BY <1>3, <3>2, PreparesTrans
    <2>2. CASE ~(s.phase >= VAL_PHASE)
      BY <1>2, <2>2
    <2> QED
      BY <2>1, <2>2
  <1> HIDE DEF s2
  <1>5. Prepares(V, n, s, s3)
    <2>1. Prepares(V, n, s2, process_aux_phase(n, s2))
      BY <1>1, <1>4, process_aux_phasePrepares DEF Prepares
    <2> QED
      BY <1>4, <2>1, PreparesTrans
  <1> HIDE DEF s3
  <1>6. Local(V, n, s4) /\ Grows(n, s, s4) /\ Settled(s4)
    <2>1. CASE s.phase >= COIN_PHASE
      <3>1. s.phase = COIN_PHASE /\ s3.phase = COIN_PHASE
        <4>1. s.phase \in INIT_PHASE .. COIN_PHASE
          BY FieldTypes DEF Local
        <4> QED
          BY <1>5, <2>1, <4>1 DEF Prepares, INIT_PHASE, COIN_PHASE
      <3>2. s3.round \in 1 .. MaxRound
        BY <1>5 DEF Prepares
      <3>3. /\ Local(V, n, s4) /\ Grows(n, s3, s4) /\ Settled(s4)
        BY <1>5, <2>1, <3>1, <3>2, process_coin_shareLocal DEF Prepares
      <3> QED
        BY <1>5, <3>3, GrowsTrans DEF Prepares, Local
    <2>2. CASE ~(s.phase >= COIN_PHASE)
      BY <1>5, <2>2 DEF Prepares, Settled, COIN_PHASE
    <2> QED
      BY <2>1, <2>2
  <1>7. t = process_aba_proof(s4)
    BY DEF process_aba_phase, s1, a, s2, s3
  <1> HIDE DEF s4, t
  <1>8. Local(V, n, t) /\ Grows(n, s4, t) /\ Settled(t)
    BY <1>6, <1>7, process_aba_proofLocal
  <1> QED
    BY <1>6, <1>8, GrowsTrans DEF Local, t
-----------------------------------------------------------------------------
(***************************************************************************)
(* An iteration of the loop: the phases entered, and the handlers.         *)
(***************************************************************************)
LEMMA PhaseSet ==
  ASSUME NEW V, NEW n, NEW s, Local(V, n, s), s.tcProcessed,
         NEW p \in {VAL_PHASE, AUX_PHASE, COIN_PHASE}, p # VAL_PHASE => s.binValues # {},
         NEW t, t = [s EXCEPT !.phase = p]
  PROVE  /\ Local(V, n, t) /\ Grows(n, s, t) /\ t.phase = p
         /\ t.round = s.round /\ t.output = s.output /\ t.tcProcessed
         /\ t.binValues = s.binValues /\ t.auxProof = s.auxProof /\ t.coin = s.coin
  <1>1. s \in State(V) /\ p \in INIT_PHASE .. COIN_PHASE
    BY DEF Local, VAL_PHASE, AUX_PHASE, COIN_PHASE, INIT_PHASE
  <1>2. t \in State(V)
    BY ONLY <1>1, t = [s EXCEPT !.phase = p], Zenon DEF State
  <1>3. /\ t.round = s.round /\ t.votes = s.votes /\ t.output = s.output /\ t.phase = p
        /\ t.tcProcessed = s.tcProcessed /\ t.binValues = s.binValues
        /\ t.auxProof = s.auxProof /\ t.shares = s.shares /\ t.coin = s.coin
        /\ t.sent = s.sent /\ t.outputRound = s.outputRound /\ t.auxSent = s.auxSent
    BY <1>1 DEF State
  <1>4. t.tcProcessed
    BY ONLY <1>3, s.tcProcessed, Zenon
  <1>5. Data(t) = Data(s) /\ Phased(t)
    <2>1. Phased(s)
      BY DEF Local
    <2>2. t.phase # INIT_PHASE /\ (t.phase \in {AUX_PHASE, COIN_PHASE} => t.binValues # {})
      BY <1>3 DEF VAL_PHASE, AUX_PHASE, COIN_PHASE, INIT_PHASE
    <2>3. Data(t) = Data(s)
      BY ONLY <1>3, Zenon DEF Data
    <2>4. /\ t.binValues = s.binValues /\ t.outputRound = s.outputRound /\ t.round = s.round
          /\ t.output = s.output /\ t.coin = s.coin /\ t.shares = s.shares
      BY ONLY <1>3, Zenon
    <2>5. Phased(t)
      BY ONLY <1>4, <2>1, <2>2, <2>4 DEF Phased
    <2> QED
      BY ONLY <2>3, <2>5, Zenon
  <1>6. Local(V, n, t) /\ Grows(n, s, t)
    BY <1>2, <1>3, <1>5, Carry
  <1> QED
    BY <1>3, <1>4, <1>6

LEMMA EnterPhases ==
  ASSUME NEW V, NEW n, NEW s, Local(V, n, s), Settled(s), s.output = None
  PROVE  LET t == CoinPhase(AuxPhase(ValPhase(s)))
         IN  Local(V, n, t) /\ Grows(n, s, t) /\ Ready(t) /\ t.round = s.round
  <1> DEFINE a == ValPhase(s)
             b == AuxPhase(a)
             t == CoinPhase(b)
  <1>1. s \in State(V) /\ s.phase # COIN_PHASE /\ Grows(n, s, s)
    <2>1. Len(s.sent) \in Int
      BY FieldTypes DEF Local
    <2> QED
      BY <2>1 DEF Local, Settled, Grows
  <1>2. /\ Local(V, n, a) /\ Grows(n, s, a) /\ a.phase # COIN_PHASE
        /\ a.round = s.round /\ a.output = None
    <2>1. CASE s.phase = INIT_PHASE /\ s.tcProcessed
      <3>1. a = [s EXCEPT !.phase = VAL_PHASE]
        BY <2>1 DEF ValPhase
      <3>2. /\ Local(V, n, a) /\ Grows(n, s, a) /\ a.phase = VAL_PHASE
            /\ a.round = s.round /\ a.output = s.output
        <4> HIDE DEF a
        <4> QED
          BY <2>1, <3>1, PhaseSet
      <3> QED
        BY <3>2 DEF VAL_PHASE, COIN_PHASE
    <2>2. CASE ~(s.phase = INIT_PHASE /\ s.tcProcessed)
      BY <1>1, <2>2 DEF ValPhase
    <2> QED
      BY <2>1, <2>2
  <1> HIDE DEF a
  <1>3. /\ Local(V, n, b) /\ Grows(n, s, b) /\ b.phase # COIN_PHASE
        /\ b.round = s.round /\ b.output = None
    <2>1. CASE a.phase = VAL_PHASE /\ a.binValues # {}
      <3>1. b = [a EXCEPT !.phase = AUX_PHASE] /\ a.tcProcessed
        BY <1>2, <2>1 DEF AuxPhase, Local, Phased, VAL_PHASE, INIT_PHASE
      <3>2. /\ Local(V, n, b) /\ Grows(n, a, b) /\ b.phase = AUX_PHASE
            /\ b.round = a.round /\ b.output = a.output
        <4> HIDE DEF b
        <4> QED
          BY <1>2, <2>1, <3>1, PhaseSet
      <3>3. b.phase # COIN_PHASE
        BY <3>2 DEF AUX_PHASE, COIN_PHASE
      <3> QED
        BY <1>2, <3>2, <3>3, GrowsTrans DEF Local
    <2>2. CASE ~(a.phase = VAL_PHASE /\ a.binValues # {})
      BY <1>2, <2>2 DEF AuxPhase
    <2> QED
      BY <2>1, <2>2
  <1> HIDE DEF b
  <1>4. CASE t = b
    BY <1>3, <1>4 DEF Ready, b, a
  <1>5. CASE t # b
    <2>1. /\ b.phase = AUX_PHASE /\ b.round \in b.coin
          /\ Cardinality(b.binValues) = 2 \/ b.auxProof[b.round] # None
          /\ t = [b EXCEPT !.phase = COIN_PHASE]
      BY <1>5 DEF CoinPhase
    <2>2. b.binValues # {} /\ IsFiniteSet(b.binValues) /\ b.tcProcessed
      BY <1>3, <2>1 DEF Local, Phased, AUX_PHASE, INIT_PHASE
    <2>3. Cardinality(b.binValues) = 2 => \E x, y \in b.binValues : x # y
      <3> SUFFICES ASSUME Cardinality(b.binValues) = 2, \A x, y \in b.binValues : x = y
                   PROVE  FALSE
        OBVIOUS
      <3>1. PICK x : b.binValues = {x}
        BY <2>2
      <3>2. Cardinality(b.binValues) = 1
        BY <2>2, <3>1, FS_Singleton
      <3> QED
        BY <3>2
    <2> HIDE DEF t
    <2>4. /\ Local(V, n, t) /\ Grows(n, b, t) /\ t.phase = COIN_PHASE
          /\ t.round = b.round /\ t.output = b.output
          /\ t.binValues = b.binValues /\ t.auxProof = b.auxProof /\ t.coin = b.coin
      BY <1>3, <2>1, <2>2, PhaseSet
    <2>5. Ready(t) /\ t.round = s.round
      BY <1>3, <2>1, <2>3, <2>4 DEF Ready
    <2>6. Grows(n, s, t)
      BY <1>1, <1>3, <2>4, GrowsTrans DEF Local
    <2> QED
      BY <2>4, <2>5, <2>6 DEF t, b, a
  <1> QED
    BY <1>4, <1>5

LEMMA IterateLocal ==
  ASSUME NEW V, Closed(V), NEW n \in Active, NEW s, Local(V, n, s), Settled(s),
         s.round \in 1 .. MaxRound
  PROVE  LET t == Iterate(n, s) IN Local(V, n, t) /\ Grows(n, s, t) /\ Settled(t)
  <1> DEFINE e == CoinPhase(AuxPhase(ValPhase(s)))
             a == update_aba_phase(n, s)
             t == [a EXCEPT !.isViewChange = TRUE]
  <1>1. Local(V, n, a) /\ Grows(n, s, a) /\ Settled(a)
    <2>1. CASE ~s.isViewChange \/ s.output # None
      <3>1. a = s
        BY <2>1 DEF update_aba_phase
      <3>2. Len(s.sent) \in Int
        BY FieldTypes DEF Local
      <3> QED
        BY <3>1, <3>2 DEF Grows
    <2>2. CASE ~(~s.isViewChange \/ s.output # None)
      <3>1. a = process_aba_phase(n, e)
        BY <2>2 DEF update_aba_phase
      <3>2. Local(V, n, e) /\ Grows(n, s, e) /\ Ready(e) /\ e.round = s.round
        BY <2>2, EnterPhases
      <3> HIDE DEF e, a
      <3>3. Local(V, n, a) /\ Grows(n, e, a) /\ Settled(a)
        BY <3>1, <3>2, process_aba_phaseLocal
      <3> QED
        BY <3>2, <3>3, GrowsTrans DEF Local
    <2> QED
      BY <2>1, <2>2
  <1> HIDE DEF a
  <1>2. a \in State(V)
    BY <1>1 DEF Local
  <1>3. t \in State(V)
    BY ONLY <1>2, Zenon DEF State
  <1>4. /\ t.round = a.round /\ t.votes = a.votes /\ t.output = a.output /\ t.phase = a.phase
        /\ t.tcProcessed = a.tcProcessed /\ t.binValues = a.binValues
        /\ t.auxProof = a.auxProof /\ t.shares = a.shares /\ t.coin = a.coin
        /\ t.sent = a.sent /\ t.outputRound = a.outputRound /\ t.auxSent = a.auxSent
    BY <1>2 DEF State
  <1> HIDE DEF t
  <1>5. Data(t) = Data(a) /\ Phased(t) /\ Settled(t)
    BY <1>1, <1>4 DEF Local, Data, Phased, Settled
  <1>6. Local(V, n, t) /\ Grows(n, a, t)
    BY <1>1, <1>3, <1>4, <1>5, Carry
  <1>7. Grows(n, s, t)
    BY <1>1, <1>3, <1>6, GrowsTrans DEF Local
  <1>8. Iterate(n, s) \in {a, t}
    BY DEF Iterate, check_timeout, a, t
  <1> QED
    BY <1>1, <1>5, <1>6, <1>7, <1>8

\* handle_aba_val of a value from another node.
LEMMA VoteLocal ==
  ASSUME NEW V, NEW n, NEW s, Local(V, n, s), Settled(s), NEW m \in Letter(V), m.author # n,
         m.type \in {"val", "aux"}, m.val # None
  PROVE  LET t == handle_aba_val(s, m) IN Local(V, n, t) /\ Settled(t) /\ Takes(s, m, t)
  <1> DEFINE t == handle_aba_val(s, m)
  <1>1. CASE is_expired_aba_message(s, m)
    BY <1>1 DEF handle_aba_val, Takes
  <1>2. CASE ~is_expired_aba_message(s, m)
    <2>1. \/ m.type = "val" /\ t = handle_val_phase(s, m)
          \/ m.type = "aux" /\ t = handle_aux_phase(s, m)
      BY <1>2 DEF handle_aba_val
    <2>2. s \in State(V) /\ Proven(s)
      BY DEF Local
    <2> HIDE DEF t
    <2>3. /\ t \in State(V) /\ VoteFrame(t) = VoteFrame(s) /\ t.sent = s.sent
          /\ t.votes = s.votes \cup {m} /\ Proven(t)
      BY <2>1, <2>2, VoteTypes, VoteProven
    <2>4. /\ t.tcProcessed = s.tcProcessed /\ t.phase = s.phase /\ t.round = s.round
          /\ t.binValues = s.binValues /\ t.output = s.output /\ t.outputRound = s.outputRound
          /\ t.auxSent = s.auxSent /\ t.shares = s.shares /\ t.coin = s.coin
      BY <2>3 DEF VoteFrame
    <2>5. Phased(t) /\ Settled(t)
      BY <2>4 DEF Local, Phased, Settled
    <2>6. OwnVotes(V, n, t)
      <3>1. \A u \in t.votes : u.author = n => u \in s.votes
        BY <2>3
      <3> QED
        BY <2>3, <2>4, <3>1 DEF Local, OwnVotes
    <2>7. \A r : AuxDone(V, s, r) => AuxDone(V, t, r)
      BY <2>3, MoreDone
    <2>8. OwnShares(V, n, t) /\ Sent(V, n, t)
      BY <2>3, <2>4, <2>7 DEF Local, OwnShares, Sent
    <2>9. Takes(s, m, t)
      BY <2>3, <2>4 DEF Takes
    <2> QED
      BY <2>3, <2>5, <2>6, <2>8, <2>9 DEF Local, t
  <1> QED
    BY <1>1, <1>2

\* handle_tc and handle_aba_proof.
LEMMA CacheLocal ==
  ASSUME NEW V, NEW n, NEW s, Local(V, n, s), Settled(s), NEW m, NEW t \in State(V),
         \/ \E v : t = [s EXCEPT !.tc = v]
         \/ \E f : t = [s EXCEPT !.proof = f]
  PROVE  Local(V, n, t) /\ Settled(t) /\ Takes(s, m, t)
  <1>1. s \in State(V)
    BY DEF Local
  <1>2. /\ t.round = s.round /\ t.votes = s.votes /\ t.output = s.output /\ t.phase = s.phase
        /\ t.tcProcessed = s.tcProcessed /\ t.binValues = s.binValues
        /\ t.auxProof = s.auxProof /\ t.shares = s.shares /\ t.coin = s.coin
        /\ t.sent = s.sent /\ t.outputRound = s.outputRound /\ t.auxSent = s.auxSent
    BY <1>1 DEF State
  <1>3. Data(t) = Data(s) /\ Phased(t) /\ Settled(t)
    BY <1>2 DEF Local, Data, Phased, Settled
  <1>4. Takes(s, m, t)
    BY <1>2 DEF Takes
  <1> QED
    BY <1>2, <1>3, <1>4, Carry

LEMMA HandleLocal ==
  ASSUME NEW V, NEW n, NEW s, Local(V, n, s), Settled(s), NEW m \in Letter(V), m.author # n,
         m.type \in {"val", "aux", "proof"} => m.val # None
  PROVE  LET t == Handle(s, m) IN Local(V, n, t) /\ Settled(t) /\ Takes(s, m, t)
  <1> DEFINE t == Handle(s, m)
  <1>1. /\ s \in State(V) /\ m.val \in V \cup {None} /\ m.round \in Rounds
        /\ s.proof \in [Rounds -> V \cup {None}]
        /\ m.type \in {"tc", "val", "aux", "coin", "proof"}
    BY FieldTypes, LetterIs DEF Local, Letter
  <1>2. CASE m.type = "tc"
    <2>1. t = [s EXCEPT !.tc = m.val]
      BY <1>2 DEF Handle, handle_tc
    <2> HIDE DEF t
    <2>2. t \in State(V)
      BY ONLY <1>1, <2>1, Zenon DEF State
    <2> QED
      BY <2>1, <2>2, CacheLocal DEF t
  <1>3. CASE m.type \in {"val", "aux"}
    <2>1. t = handle_aba_val(s, m)
      BY <1>3 DEF Handle
    <2> QED
      BY <1>3, <2>1, VoteLocal
  <1>4. CASE m.type = "coin"
    <2>1. t = handle_coin_share(s, m)
      BY <1>4 DEF Handle
    <2> HIDE DEF t
    <2>2. /\ Local(V, n, t)
          /\ \A u \in t.shares : u \in s.shares \/ u = m
          /\ Data(t) = <<s.votes, s.auxProof, s.sent, t.shares, s.round, s.tcProcessed>>
          /\ t.phase = s.phase /\ t.output = s.output
      BY <2>1, ShareHandled
    <2>3. Settled(t) /\ Takes(s, m, t)
      BY <1>4, <2>2 DEF Settled, Takes, Data
    <2> QED
      BY <2>2, <2>3 DEF t
  <1>5. CASE m.type = "proof"
    <2>1. t = handle_aba_proof(s, m)
      BY <1>5 DEF Handle
    <2>2. CASE is_expired_aba_message(s, m)
      BY <2>1, <2>2 DEF handle_aba_proof, Takes
    <2>3. CASE ~is_expired_aba_message(s, m)
      <3> DEFINE f == [s.proof EXCEPT ![m.round] = m.val]
      <3>1. t = [s EXCEPT !.proof = f]
        BY <2>1, <2>3 DEF handle_aba_proof
      <3>2. f \in [Rounds -> V \cup {None}]
        BY <1>1
      <3> HIDE DEF t, f
      <3>3. t \in State(V)
        BY ONLY <1>1, <3>1, <3>2, Zenon DEF State
      <3> QED
        BY <3>1, <3>3, CacheLocal DEF t
    <2> QED
      BY <2>2, <2>3
  <1> QED
    BY <1>1, <1>2, <1>3, <1>4, <1>5
-----------------------------------------------------------------------------
(***************************************************************************)
(* The invariant.                                                          *)
(***************************************************************************)
\* One node goes on.
LEMMA NodeStep ==
  ASSUME NEW V, Closed(V), Global(V), NEW n \in Active, NEW s,
         Local(V, n, s), Settled(s), Iteration(n, s),
         s.round = node[n].round, s.sent = node[n].sent, node[n].votes \subseteq s.votes,
         \A u \in s.votes :
           u \in node[n].votes \/ (u.author \in Active \ {n} /\ u \in node[u.author].votes),
         \A u \in s.shares :
           u \in node[n].shares
             \/ (u.author \in Active \ {n} /\ AuxDone(V, node[u.author], u.round)),
         handled' \in [Active -> [Active -> Nat]],
         \A k, m \in Active : handled'[k][m] <= Len(node[m].sent),
         assembled' \subseteq Active
  PROVE  Global(V)'
  <1> DEFINE t == Iterate(n, s)
  <1>1. node \in [Active -> State(V)]
    BY DEF Global
  <1>2. Local(V, n, t) /\ Grows(n, s, t) /\ Settled(t)
    BY IterateLocal DEF Global
  <1>3. t.round <= MaxRound /\ node' = [node EXCEPT ![n] = t]
    BY DEF Iteration
  <1> HIDE DEF t
  <1>4. t \in State(V) /\ t.round \in 1 .. MaxRound
    <2>1. t \in State(V) /\ t.round \in Rounds
      BY <1>2, FieldTypes DEF Local
    <2> QED
      BY <1>3, <2>1, TCVBAAssumption DEF Rounds
  <1>5. /\ node' \in [Active -> State(V)] /\ node'[n] = t
        /\ \A k \in Active \ {n} : node'[k] = node[k]
    BY <1>1, <1>3, <1>4
  <1>6. \A k \in Active : node[k].votes \subseteq node'[k].votes
    BY <1>2, <1>5 DEF Grows
  <1>7. \A k \in Active : \A r : AuxDone(V, node[k], r) => AuxDone(V, node'[k], r)
    BY <1>6, MoreDone
  <1>8. \A k \in Active : \A u \in node[k].votes \cup node[k].shares : u.author \in Active
    <2> SUFFICES ASSUME NEW k \in Active, NEW u \in node[k].votes \cup node[k].shares
                 PROVE  u.author \in Active
      OBVIOUS
    <2>1. u \in Letter(V)
      BY <1>1, FieldTypes
    <2> QED
      BY <2>1, LetterIs
  <1>9. \A u \in t.votes : u \in node'[u.author].votes
    <2> SUFFICES ASSUME NEW u \in t.votes PROVE u \in node'[u.author].votes
      OBVIOUS
    <2>1. CASE u.author = n
      BY <1>5, <2>1
    <2>2. CASE u.author # n
      <3>1. u \in s.votes
        BY <1>2, <2>2 DEF Grows
      <3>2. u.author \in Active /\ u \in node[u.author].votes
        BY <1>8, <3>1 DEF Global
      <3> QED
        BY <1>6, <3>2
    <2> QED
      BY <2>1, <2>2
  <1>10. \A u \in t.shares : AuxDone(V, node'[u.author], u.round)
    <2> SUFFICES ASSUME NEW u \in t.shares PROVE AuxDone(V, node'[u.author], u.round)
      OBVIOUS
    <2>1. CASE u.author = n
      BY <1>2, <1>5, <2>1 DEF Local, OwnShares
    <2>2. CASE u.author # n
      <3>1. u \in s.shares
        BY <1>2, <2>2 DEF Grows
      <3>2. u.author \in Active /\ AuxDone(V, node[u.author], u.round)
        BY <1>8, <3>1 DEF Global
      <3> QED
        BY <1>7, <3>2
    <2> QED
      BY <2>1, <2>2
  <1>11. \A k \in Active :
           /\ Local(V, k, node'[k]) /\ Settled(node'[k]) /\ node'[k].round \in 1 .. MaxRound
           /\ \A u \in node'[k].votes : u \in node'[u.author].votes
           /\ \A u \in node'[k].shares : AuxDone(V, node'[u.author], u.round)
    <2> SUFFICES ASSUME NEW k \in Active
                 PROVE  /\ Local(V, k, node'[k]) /\ Settled(node'[k])
                        /\ node'[k].round \in 1 .. MaxRound
                        /\ \A u \in node'[k].votes : u \in node'[u.author].votes
                        /\ \A u \in node'[k].shares : AuxDone(V, node'[u.author], u.round)
      OBVIOUS
    <2>1. CASE k = n
      BY <1>2, <1>4, <1>5, <1>9, <1>10, <2>1
    <2>2. CASE k # n
      <3>1. /\ Local(V, k, node[k]) /\ Settled(node[k]) /\ node[k].round \in 1 .. MaxRound
            /\ \A u \in node[k].votes : u \in node[u.author].votes
            /\ \A u \in node[k].shares : AuxDone(V, node[u.author], u.round)
            /\ node'[k] = node[k]
        BY <1>5, <2>2 DEF Global
      <3> QED
        BY <1>6, <1>7, <1>8, <3>1
    <2> QED
      BY <2>1, <2>2
  <1>12. \A k, m \in Active : handled'[k][m] <= Len(node'[m].sent)
    <2> SUFFICES ASSUME NEW k \in Active, NEW m \in Active
                 PROVE  handled'[k][m] <= Len(node'[m].sent)
      OBVIOUS
    <2>1. Len(node[m].sent) <= Len(node'[m].sent)
      <3>1. Len(node[m].sent) \in Int
        BY <1>1, FieldTypes
      <3>2. CASE m = n
        BY <1>2, <1>5, <3>2 DEF Grows
      <3>3. CASE m # n
        BY <1>5, <3>1, <3>3
      <3> QED
        BY <3>2, <3>3
    <2>2. Len(node[m].sent) \in Int /\ Len(node'[m].sent) \in Int
      BY <1>1, <1>5, FieldTypes
    <2>3. handled'[k][m] \in Int
      BY ONLY handled' \in [Active -> [Active -> Nat]], k \in Active, m \in Active
    <2>4. handled'[k][m] <= Len(node[m].sent)
      OBVIOUS
    <2> QED
      BY ONLY <2>1, <2>2, <2>3, <2>4
  <1>13. /\ node' \in [Active -> State(V)] /\ handled' \in [Active -> [Active -> Nat]]
         /\ assembled' \subseteq Active
    BY ONLY <1>5, handled' \in [Active -> [Active -> Nat]], assembled' \subseteq Active, Zenon
  <1> QED
    BY ONLY <1>11, <1>12, <1>13, Zenon DEF Global

LEMMA InitGlobal ==
  ASSUME NEW V, Init
  PROVE  Global(V)
  <1>1. \A n \in Active : NewNode(n) \in State(V) /\ NewNode(n).round \in 1 .. MaxRound
    BY TCVBAAssumption
    DEF NewNode, State, Rounds, INIT_PHASE, VAL_PHASE, AUX_PHASE, COIN_PHASE
  <1>2. \A n \in Active :
          Local(V, n, NewNode(n)) /\ Settled(NewNode(n)) /\ NewNode(n).votes = {}
            /\ NewNode(n).shares = {} /\ Len(NewNode(n).sent) = 0
    <2> SUFFICES ASSUME NEW n \in Active
                 PROVE  Local(V, n, NewNode(n)) /\ Settled(NewNode(n)) /\ NewNode(n).votes = {}
                          /\ NewNode(n).shares = {} /\ Len(NewNode(n).sent) = 0
      OBVIOUS
    <2>1. /\ NewNode(n).votes = {} /\ NewNode(n).shares = {} /\ NewNode(n).sent = <<>>
          /\ NewNode(n).coin = {} /\ NewNode(n).binValues = {} /\ NewNode(n).output = None
          /\ NewNode(n).outputRound = 0 /\ NewNode(n).round = 1
          /\ NewNode(n).phase = INIT_PHASE /\ NewNode(n).tcProcessed = FALSE
          /\ NewNode(n).auxProof = [r \in Rounds |-> None]
      BY DEF NewNode
    <2>2. Proven(NewNode(n)) /\ OwnVotes(V, n, NewNode(n)) /\ OwnShares(V, n, NewNode(n))
      BY <2>1 DEF Proven, OwnVotes, OwnShares
    <2>3. Phased(NewNode(n)) /\ Settled(NewNode(n))
      BY <2>1, FS_EmptySet DEF Phased, Settled, INIT_PHASE, AUX_PHASE, COIN_PHASE
    <2>4. Sent(V, n, NewNode(n)) /\ Len(NewNode(n).sent) = 0
      BY <2>1 DEF Sent
    <2> QED
      BY <1>1, <2>1, <2>2, <2>3, <2>4 DEF Local
  <1> QED
    BY <1>1, <1>2 DEF Init, Global

LEMMA StepGlobal ==
  ASSUME NEW V, Closed(V), \A n \in Active : TCHeights[n] \subseteq V, Global(V),
         [Next]_vars
  PROVE  Global(V)'
  <1>1. CASE UNCHANGED vars
    <2>1. node' = node /\ handled' = handled /\ assembled' = assembled
      BY ONLY <1>1, Zenon DEF vars
    <2> QED
      BY ONLY Global(V), <2>1, Zenon DEF Global, AuxDone, AuxVoters
  <1>2. ASSUME NEW n \in Active, NEW v \in TCHeights[n], AssembleTC(n, v)
        PROVE  Global(V)'
    <2> DEFINE s == handle_tc(node[n], v)
    <2>1. /\ Local(V, n, node[n]) /\ Settled(node[n]) /\ node[n] \in State(V)
          /\ v \in V \cup {None}
      BY DEF Global
    <2>2. s = [node[n] EXCEPT !.tc = v]
      BY DEF handle_tc
    <2>3. Iteration(n, s) /\ assembled' = assembled \cup {n} /\ handled' = handled
      BY <1>2 DEF AssembleTC
    <2> HIDE DEF s
    <2>4. s \in State(V)
      BY ONLY <2>1, <2>2, Zenon DEF State
    <2>5. /\ Local(V, n, s) /\ Settled(s) /\ s.votes = node[n].votes /\ s.sent = node[n].sent
          /\ s.round = node[n].round /\ s.shares \subseteq node[n].shares
      <3> DEFINE m == Message("tc", n, 1, v)
      <3>1. m.type = "tc"
        BY DEF Message
      <3> HIDE DEF m
      <3>2. Local(V, n, s) /\ Settled(s) /\ Takes(node[n], m, s)
        BY <2>1, <2>2, <2>4, CacheLocal
      <3> QED
        BY <3>1, <3>2 DEF Takes
    <2>6. /\ handled' \in [Active -> [Active -> Nat]] /\ assembled' \subseteq Active
          /\ \A k, m \in Active : handled'[k][m] <= Len(node[m].sent)
      BY <2>3 DEF Global
    <2> QED
      BY <2>3, <2>5, <2>6, NodeStep
  <1>3. ASSUME NEW n \in Active, NEW k \in Active, Receive(n, k)
        PROVE  Global(V)'
    <2> DEFINE i == handled[n][k] + 1
               m == node[k].sent[i]
               s == Handle(node[n], m)
    <2>1. /\ n # k /\ handled[n][k] < Len(node[k].sent) /\ Iteration(n, s)
          /\ handled' = [handled EXCEPT ![n][k] = @ + 1] /\ assembled' = assembled
      BY <1>3 DEF Receive, Deliver
    <2>2. /\ Local(V, n, node[n]) /\ Settled(node[n]) /\ Local(V, k, node[k])
          /\ node[k] \in State(V) /\ handled[n][k] \in Nat
      BY DEF Global
    <2>3. node[k].sent \in Seq(Letter(V)) /\ Len(node[k].sent) \in Nat
      BY <2>2, FieldTypes
    <2>4. i \in 1 .. Len(node[k].sent)
      BY <2>1, <2>2, <2>3
    <2>5. /\ m \in Letter(V) /\ m.author = k
          /\ m.type \in {"val", "aux"} => m \in node[k].votes
          /\ m.type = "coin" => AuxDone(V, node[k], m.round)
          /\ m.type \in {"val", "aux", "proof"} => m.val # None
      <3>1. m \in Letter(V)
        BY ONLY <2>3, <2>4
      <3>2. Sent(V, k, node[k])
        BY ONLY <2>2, Zenon DEF Local
      <3> HIDE DEF i
      <3> QED
        BY ONLY <2>4, <3>1, <3>2 DEF Sent
    <2> HIDE DEF i, m
    <2>6. Local(V, n, s) /\ Settled(s) /\ Takes(node[n], m, s)
      BY <2>1, <2>2, <2>5, HandleLocal
    <2> HIDE DEF s
    <2>7. /\ handled' \in [Active -> [Active -> Nat]] /\ assembled' \subseteq Active
          /\ \A a, b \in Active : handled'[a][b] <= Len(node[b].sent)
      <3>1. /\ handled \in [Active -> [Active -> Nat]] /\ assembled \subseteq Active
            /\ \A a, b \in Active : handled[a][b] <= Len(node[b].sent)
        BY DEF Global
      <3>2. /\ handled' \in [Active -> [Active -> Nat]]
            /\ handled'[n][k] = handled[n][k] + 1
            /\ \A a, b \in Active : a # n \/ b # k => handled'[a][b] = handled[a][b]
        BY <2>1, <2>2, <3>1
      <3>3. handled[n][k] + 1 <= Len(node[k].sent)
        BY <2>1, <2>2, <2>3
      <3> QED
        BY <2>1, <3>1, <3>2, <3>3
    <2>8. /\ s.round = node[n].round /\ s.sent = node[n].sent /\ node[n].votes \subseteq s.votes
          /\ \A u \in s.votes :
               u \in node[n].votes
                 \/ (u.author \in Active \ {n} /\ u \in node[u.author].votes)
          /\ \A u \in s.shares :
               u \in node[n].shares
                 \/ (u.author \in Active \ {n} /\ AuxDone(V, node[u.author], u.round))
      BY <2>1, <2>5, <2>6 DEF Takes
    <2>9. Iteration(n, s)
      BY <2>1 DEF s, m, i
    <2> QED
      BY <2>6, <2>7, <2>8, <2>9, NodeStep
  <1>4. ASSUME NEW n \in Active, OtherMessage(n) PROVE Global(V)'
    <2>1. Iteration(n, node[n]) /\ handled' = handled /\ assembled' = assembled
      BY <1>4 DEF OtherMessage
    <2>2. Local(V, n, node[n]) /\ Settled(node[n])
      BY DEF Global
    <2>3. /\ handled' \in [Active -> [Active -> Nat]] /\ assembled' \subseteq Active
          /\ \A k, m \in Active : handled'[k][m] <= Len(node[m].sent)
      BY <2>1 DEF Global
    <2> QED
      BY <2>1, <2>2, <2>3, NodeStep
  <1> QED
    BY <1>1, <1>2, <1>3, <1>4 DEF Next

\* The heights of the TCs and the coins.
LEMMA ValueClosed == Closed(Value) /\ \A n \in Active : TCHeights[n] \subseteq Value
  <1>1. \A n \in Active : TCHeights[n] \subseteq Value /\ TCHeights[n] \subseteq Nat
    BY TCVBAAssumption DEF Value
  <1>2. Value \subseteq Nat
    <2> SUFFICES ASSUME NEW v \in Value PROVE v \in Nat
      OBVIOUS
    <2>1. CASE v \in UNION {TCHeights[n] : n \in Active}
      <3>1. PICK n \in Active : v \in TCHeights[n]
        BY <2>1
      <3> QED
        BY <1>1, <3>1
    <2>2. CASE v \in {0, 1}
      BY <2>2
    <2> QED
      BY <2>1, <2>2 DEF Value
  <1>3. Closed(Value)
    <2>1. {0, 1} \subseteq Value
      BY DEF Value
    <2> QED
      BY <1>2, <2>1 DEF Closed
  <1> QED
    BY <1>1, <1>3

\* The invariant for any heights.
LEMMA GlobalInvariant == Spec => []Global(Value)
  <1>1. Init => Global(Value)
    BY InitGlobal
  <1>2. Global(Value) /\ [Next]_vars => Global(Value)'
    BY ValueClosed, StepGlobal
  <1> QED
    BY <1>1, <1>2, PTL DEF Spec
-----------------------------------------------------------------------------
(***************************************************************************)
(* Theorems.                                                               *)
(***************************************************************************)
\* The records of the nodes, the messages they broadcast and how many of them
\* their peers have handled.
THEOREM TypeCorrect == Spec => []TypeOK
  <1>1. Global(Value) => TypeOK
    <2> SUFFICES ASSUME Global(Value) PROVE TypeOK
      OBVIOUS
    <2>1. \A n \in Active : node[n] \in NodeState
      <3> SUFFICES ASSUME NEW n \in Active PROVE node[n] \in NodeState
        OBVIOUS
      <3>1. /\ node[n] \in State(Value) /\ node[n].round \in 1 .. MaxRound
            /\ node[n].outputRound <= node[n].round
        BY DEF Global, Local, Phased
      <3>2. node[n].outputRound \in 0 .. MaxRound
        <4>1. node[n].outputRound \in Nat
          BY <3>1, FieldTypes
        <4> QED
          BY <3>1, <4>1, TCVBAAssumption
      <3> QED
        BY ONLY <3>1, <3>2, Zenon DEF State, NodeState, Letter, ABAMessage, Cache
    <2>2. node \in [Active -> NodeState]
      BY <2>1 DEF Global
    <2>3. \A n \in Active : \A i \in DOMAIN node[n].sent :
            node[n].sent[i].type = "proof" => node[n].sent[i].val # None
      <3> SUFFICES ASSUME NEW n \in Active, NEW i \in DOMAIN node[n].sent,
                          node[n].sent[i].type = "proof"
                   PROVE  node[n].sent[i].val # None
        OBVIOUS
      <3>1. Local(Value, n, node[n]) /\ node[n].sent \in Seq(Letter(Value))
        BY FieldTypes DEF Global
      <3>2. i \in 1 .. Len(node[n].sent)
        BY <3>1
      <3> QED
        BY <3>1, <3>2 DEF Local, Sent
    <2> QED
      BY <2>2, <2>3 DEF TypeOK, Global
  <1> QED
    BY <1>1, GlobalInvariant, PTL

\* The voters that any node counted are among those that count themselves.
LEMMA Counted ==
  ASSUME NEW V, Global(V), NEW n \in Active, NEW r, NEW v, AuxVoters(node[n], r, v) \in Quorum
  PROVE  {m \in Active : Message("aux", m, r, v) \in node[m].votes} \in Quorum
  <1> DEFINE P == AuxVoters(node[n], r, v)
             Q == {m \in Active : Message("aux", m, r, v) \in node[m].votes}
  <1>1. P \subseteq Q
    BY DEF AuxVoters, Global, Message
  <1>2. Q \in SUBSET Node
    BY TCVBAAssumption DEF Quorum
  <1> HIDE DEF P, Q
  <1>3. Q \in Quorum
    BY <1>1, <1>2, LargerQuorum DEF P
  <1> QED
    BY <1>3 DEF Q

\* The nodes that sent the AUX value v of round r.
AuxSenders(r, v) == {m \in Active : Message("aux", m, r, v) \in node[m].votes}

\* Who knows the coin of a round has a share, and its author had the proof.
LEMMA CoinDone ==
  ASSUME NEW V, Global(V), NEW n \in Active, NEW r \in node[n].coin
  PROVE  \E v \in V : AuxSenders(r, v) \in Quorum
  <1>1. node[n] \in State(V) /\ Phased(node[n])
    BY DEF Global, Local
  <1>2. PICK u \in node[n].shares : u.round = r
    BY <1>1 DEF Phased
  <1>3. u.author \in Active
    <2>1. u \in Letter(V)
      BY <1>1, FieldTypes
    <2> QED
      BY <2>1, LetterIs
  <1>4. AuxDone(V, node[u.author], r)
    BY <1>2 DEF Global
  <1>5. PICK v \in V : AuxVoters(node[u.author], r, v) \in Quorum
    BY <1>4 DEF AuxDone
  <1>6. AuxSenders(r, v) \in Quorum
    BY <1>3, <1>5, Counted DEF AuxSenders
  <1> QED
    BY <1>6

\* The coin of a round stays hidden until 2f + 1 authorities sent the same AUX
\* value in it: process_aux_phase shares the coin with an AUX proof only.
THEOREM CoinIsLate == Spec => []CoinAfterAux
  <1>1. Global(Value) => CoinAfterAux
    BY CoinDone DEF CoinAfterAux, AuxSenders
  <1> QED
    BY <1>1, GlobalInvariant, PTL

\* The AUX proofs of a round are of one value, whoever made them: who compares
\* the coin with its proof, and who received the proof of a peer, decide alike.
OneAuxValue ==
  \A n, m \in Active : \A r \in Rounds :
    node[n].auxProof[r] # None /\ node[m].auxProof[r] # None
      => node[n].auxProof[r] = node[m].auxProof[r]

\* The AUX proofs of a round, whoever made them, are of one value: two quorums
\* share a node, and auxSent lets it send one AUX value in a round.
THEOREM AuxProofsAgree == Spec => []OneAuxValue
  <1>1. Global(Value) => OneAuxValue
    <2> SUFFICES ASSUME Global(Value), NEW n \in Active, NEW m \in Active, NEW r \in Rounds,
                        node[n].auxProof[r] # None, node[m].auxProof[r] # None
                 PROVE  node[n].auxProof[r] = node[m].auxProof[r]
      BY DEF OneAuxValue
    <2> DEFINE p == node[n].auxProof[r]
               q == node[m].auxProof[r]
               P == {a \in Active : Message("aux", a, r, p) \in node[a].votes}
               Q == {a \in Active : Message("aux", a, r, q) \in node[a].votes}
    <2>1. P \in Quorum /\ Q \in Quorum
      <3>1. AuxVoters(node[n], r, p) \in Quorum /\ AuxVoters(node[m], r, q) \in Quorum
        BY DEF Global, Local, Proven
      <3> QED
        BY <3>1, Counted
    <2>2. \E a \in P \cap Q : a \notin {}
      <3>1. {} \subseteq Node /\ Cardinality({}) <= MaxFaulty
        BY FS_EmptySet, Thresholds
      <3> HIDE DEF P, Q
      <3> QED
        BY <2>1, <3>1, QuorumIntersection
    <2>3. PICK a \in Active : /\ Message("aux", a, r, p) \in node[a].votes
                              /\ Message("aux", a, r, q) \in node[a].votes
      BY <2>2
    <2>4. OwnVotes(Value, a, node[a])
      BY DEF Global, Local
    <2>5. Message("aux", a, r, p) = Message("aux", a, r, q)
      BY <2>3, <2>4 DEF OwnVotes, Message
    <2> QED
      BY <2>5 DEF Message
  <1> QED
    BY <1>1, GlobalInvariant, PTL

\* With one height in every TC, the nodes output that height and no other, in
\* whichever round they end: the coin is never put in its place.
THEOREM Unanimity ==
  ASSUME NEW h, UNION {TCHeights[n] : n \in Active} = {h}
  PROVE  Spec => [](Validity /\ Agreement)
  <1>1. \A n \in Active : TCHeights[n] \subseteq {h}
    OBVIOUS
  <1>2. h \in Nat /\ h \in Value
    <2>1. PICK n \in Active : h \in TCHeights[n]
      OBVIOUS
    <2> QED
      BY <2>1, TCVBAAssumption DEF Value
  <1>3. Spec => []Global({h})
    <2>1. Closed({h})
      BY <1>2 DEF Closed
    <2>2. Init => Global({h})
      BY <1>1, <2>1, InitGlobal
    <2>3. Global({h}) /\ [Next]_vars => Global({h})'
      BY <1>1, <2>1, StepGlobal
    <2> QED
      BY <2>2, <2>3, PTL DEF Spec
  <1>4. Global({h}) => Validity /\ Agreement
    <2> SUFFICES ASSUME Global({h}), NEW n \in Active, Decided(n)
                 PROVE  node[n].output = h /\ h \in Proposed
      BY DEF Validity, Agreement
    <2>1. node[n].output = h
      <3>1. node[n].output \in {h} \cup {None}
        BY FieldTypes DEF Global
      <3> QED
        BY <3>1 DEF Decided
    <2>2. PICK r : r \in node[n].coin
      <3>1. Phased(node[n]) /\ node[n].output # None
        BY Zenon DEF Global, Local, Decided
      <3>2. node[n].coin # {}
        BY ONLY <3>1, Zenon DEF Phased
      <3> QED
        BY ONLY <3>2, Zenon
    <2>3. AuxSenders(r, h) \in Quorum
      <3>1. \E v \in {h} : AuxSenders(r, v) \in Quorum
        BY ONLY Global({h}), n \in Active, <2>2, CoinDone
      <3> QED
        BY ONLY <3>1
    <2>4. PICK a \in Active : Message("aux", a, r, h) \in node[a].votes
      <3>1. AuxSenders(r, h) # {}
        <4>1. {} \notin Quorum
          BY FS_EmptySet, Thresholds DEF Quorum
        <4> QED
          BY ONLY <2>3, <4>1, Zenon
      <3> QED
        BY ONLY <3>1, Zenon DEF AuxSenders
    <2>5. node[a].tcProcessed /\ OwnVotes({h}, a, node[a])
      BY <2>4 DEF Global, Local, OwnVotes, Message
    <2>6. Message("val", a, 1, h) \in node[a].votes
      BY <2>5 DEF OwnVotes
    <2> QED
      BY <1>2, <2>1, <2>6 DEF Proposed
  <1> QED
    BY <1>3, <1>4, PTL
-----------------------------------------------------------------------------
(***************************************************************************)
(* Agreement, when f authorities have crashed and the others, a bare       *)
(* quorum, run.  An AUX proof is then made of the AUX values of all of     *)
(* them, so that each has accepted the value of the proof; and a node has  *)
(* the proof before it compares it with the coin, because it waits for as  *)
(* many AUX values.  So all nodes decide in one round, or none does.       *)
(***************************************************************************)
\* s shows that all the nodes that run sent the AUX value v in round r.
Full(s, r, v) == AuxVoters(s, r, v) = Active

\* D has the rounds and values that the nodes show were full before.
Done(D, s, r, v) == <<r, v>> \in D \/ Full(s, r, v)

AuxVotes(s, r) == {u \in s.votes : u.type = "aux" /\ u.round = r}

\* What n knows of the AUX values: it accepts its own, B being what it accepts;
\* each node sends one in a round; they are counted once, and those of all
\* nodes make a proof.
Tallies(n, s, B) ==
  /\ \A u \in s.votes : u.author = n /\ u.type = "aux" /\ u.round = s.round => u.val \in B
  /\ \A u, w \in s.votes :
       u.type = "aux" /\ w.type = "aux" /\ u.author = w.author /\ u.round = w.round => u = w
  /\ \A r \in Rounds : r >= s.round =>
       /\ s.auxNums[r] <= Cardinality(AuxVotes(s, r))
       /\ s.auxProof[r] = None => \A v : ~Full(s, r, v)
  /\ \A i, j \in 1 .. Len(s.sent) :
       i < j /\ s.sent[i].type = "aux" => s.sent[i] # s.sent[j]

\* A round is left when its value has not the parity of the coin, and an
\* output is the value of its round and has it.
Outcome(D, V, s) ==
  /\ \A r \in Rounds : r < s.round => \E v \in V : Full(s, r, v) /\ v % 2 # Coin[r]
  /\ s.output # None =>
       Done(D, s, s.outputRound, s.output) /\ s.output % 2 = Coin[s.outputRound]
  /\ \A r \in Rounds : s.proof[r] # None => Done(D, s, r, s.proof[r])
  /\ \A r \in s.coin : \E v \in V : Done(D, s, r, v)
  /\ \A i \in 1 .. Len(s.sent) :
       s.sent[i].type = "proof" => Full(s, s.sent[i].round, s.sent[i].val)

\* The AUX values in s are those of D.
Agrees(D, n, s) ==
  \A r, v : <<r, v>> \in D =>
    /\ Message("aux", n, r, v) \in s.votes
    /\ \A u \in s.votes : u.type = "aux" /\ u.round = r => u.val = v

Sound(D, V, n, s, B) == Tallies(n, s, B) /\ Outcome(D, V, s) /\ Agrees(D, n, s)

\* Who compares its value with the coin has the AUX values of all nodes.
Waited(V, s) == s.phase = COIN_PHASE => \E v \in V : Full(s, s.round, v)

\* What was broadcast stays.
Extends(s, t) ==
  /\ Len(s.sent) <= Len(t.sent)
  /\ \A i \in 1 .. Len(s.sent) : t.sent[i] = s.sent[i]

\* What one function of the phases keeps.
Leads(D, V, n, s, t) ==
  /\ Sound(D, V, n, t, t.binValues) /\ Waited(V, t)
  /\ Extends(s, t) /\ s.votes \subseteq t.votes

\* The AUX values of a record grow with its votes.
LEMMA FullKept ==
  ASSUME NEW s, NEW t, s.votes \subseteq t.votes, NEW r, NEW v, Full(s, r, v)
  PROVE  Full(t, r, v)
  BY DEF Full, AuxVoters

LEMMA ExtendsTrans ==
  ASSUME NEW V, NEW s \in State(V), NEW t \in State(V), NEW u \in State(V),
         Extends(s, t), Extends(t, u)
  PROVE  Extends(s, u)
  <1>1. Len(s.sent) \in Nat /\ Len(t.sent) \in Nat /\ Len(u.sent) \in Nat
    BY FieldTypes
  <1> QED
    BY <1>1 DEF Extends

LEMMA ExtendsSelf ==
  ASSUME NEW V, NEW s \in State(V)
  PROVE  Extends(s, s)
  <1>1. Len(s.sent) \in Nat
    BY FieldTypes
  <1> QED
    BY <1>1 DEF Extends

LEMMA LeadsTrans ==
  ASSUME NEW D, NEW V, NEW n, NEW s \in State(V), NEW t \in State(V), NEW u \in State(V),
         Leads(D, V, n, s, t), Leads(D, V, n, t, u)
  PROVE  Leads(D, V, n, s, u)
  BY ExtendsTrans DEF Leads

\* A bare quorum: a quorum of the nodes that run is all of them.
LEMMA QuorumIsAll ==
  ASSUME Cardinality(Active) = quorum_threshold, NEW Q \in Quorum, Q \subseteq Active
  PROVE  Q = Active
  <1>1. IsFiniteSet(Active)
    BY TCVBAAssumption, CommitteeAssumption, FS_Subset DEF Quorum
  <1>2. /\ IsFiniteSet(Q) /\ Cardinality(Q) <= Cardinality(Active)
        /\ Cardinality(Q) = Cardinality(Active) => Q = Active
    BY <1>1, FS_Subset
  <1>3. Cardinality(Q) >= quorum_threshold /\ quorum_threshold \in Int /\ Cardinality(Q) \in Int
    BY <1>2, FS_CardinalityType, Thresholds DEF Quorum
  <1> QED
    BY <1>2, <1>3

\* An AUX proof is made of the AUX values of all nodes.
LEMMA ProofIsFull ==
  ASSUME Cardinality(Active) = quorum_threshold, NEW s, Proven(s), NEW r \in Rounds,
         s.auxProof[r] # None
  PROVE  Full(s, r, s.auxProof[r])
  <1>1. AuxVoters(s, r, s.auxProof[r]) \in Quorum
    BY DEF Proven
  <1>2. AuxVoters(s, r, s.auxProof[r]) \subseteq Active
    BY DEF AuxVoters
  <1> QED
    BY <1>1, <1>2, QuorumIsAll DEF Full

\* An update that counts no AUX value.
LEMMA Quiet ==
  ASSUME NEW V, NEW D, NEW n, NEW s \in State(V), NEW t \in State(V), NEW B,
         Sound(D, V, n, s, B), NEW C, B \subseteq C,
         t.round = s.round, t.auxNums = s.auxNums, t.auxProof = s.auxProof,
         t.proof = s.proof, t.output = s.output, t.outputRound = s.outputRound,
         s.votes \subseteq t.votes,
         \A u \in t.votes : u \in s.votes \/ u.type = "val",
         \A r \in t.coin : r \in s.coin \/ \E v \in V : Done(D, t, r, v),
         \/ t.sent = s.sent
         \/ \E m : /\ t.sent = Append(s.sent, m)
                   /\ m.type = "aux" => \A i \in 1 .. Len(s.sent) : s.sent[i] # m
                   /\ m.type = "proof" => Full(s, m.round, m.val)
  PROVE  Sound(D, V, n, t, C) /\ Extends(s, t)
  <1>1. /\ \A r, v : AuxVoters(t, r, v) = AuxVoters(s, r, v)
        /\ \A r : AuxVotes(t, r) = AuxVotes(s, r)
    BY DEF AuxVoters, AuxVotes, Message
  <1>2. /\ \A r, v : Full(t, r, v) <=> Full(s, r, v)
        /\ \A r, v : Done(D, t, r, v) <=> Done(D, s, r, v)
    BY <1>1 DEF Full, Done
  <1>3. s.sent \in Seq(Letter(V)) /\ t.sent \in Seq(Letter(V))
    BY FieldTypes
  <1> DEFINE Appended ==
        /\ Len(s.sent) <= Len(t.sent)
        /\ \A i \in 1 .. Len(s.sent) : t.sent[i] = s.sent[i]
        /\ \A i \in 1 .. Len(t.sent) :
             \/ i \in 1 .. Len(s.sent)
             \/ /\ i = Len(s.sent) + 1
                /\ t.sent[i].type = "aux" => \A j \in 1 .. Len(s.sent) : s.sent[j] # t.sent[i]
                /\ t.sent[i].type = "proof" => Full(s, t.sent[i].round, t.sent[i].val)
  <1>4. Appended
    <2>1. CASE t.sent = s.sent
      BY <1>3, <2>1
    <2>2. ASSUME NEW m, t.sent = Append(s.sent, m),
                 m.type = "aux" => \A i \in 1 .. Len(s.sent) : s.sent[i] # m,
                 m.type = "proof" => Full(s, m.round, m.val)
          PROVE  Appended
      <3>1. /\ Len(t.sent) = Len(s.sent) + 1 /\ Len(s.sent) \in Nat
            /\ \A i \in 1 .. Len(s.sent) : t.sent[i] = s.sent[i]
            /\ t.sent[Len(s.sent) + 1] = m
        BY <1>3, <2>2
      <3> QED
        BY <3>1, <2>2
    <2> QED
      BY <2>1, <2>2
  <1>5. Extends(s, t)
    BY <1>4 DEF Extends
  <1>6. Tallies(n, t, C)
    <2>1. \A u \in t.votes : u.type = "aux" => u \in s.votes
      OBVIOUS
    <2>2. \A i, j \in 1 .. Len(t.sent) :
            i < j /\ t.sent[i].type = "aux" => t.sent[i] # t.sent[j]
      <3> SUFFICES ASSUME NEW i \in 1 .. Len(t.sent), NEW j \in 1 .. Len(t.sent),
                          i < j, t.sent[i].type = "aux"
                   PROVE  t.sent[i] # t.sent[j]
        OBVIOUS
      <3>1. i \in 1 .. Len(s.sent) /\ t.sent[i] = s.sent[i]
        <4>1. Len(s.sent) \in Nat
          BY <1>3
        <4> QED
          BY <1>4, <4>1
      <3>2. CASE j \in 1 .. Len(s.sent)
        BY <1>4, <3>1, <3>2 DEF Sound, Tallies
      <3>3. CASE j \notin 1 .. Len(s.sent)
        <4>1. t.sent[j].type = "aux" => s.sent[i] # t.sent[j]
          BY <1>4, <3>1, <3>3
        <4> QED
          BY <3>1, <4>1
      <3> QED
        BY <3>2, <3>3
    <2>3. \A r \in Rounds : r >= t.round =>
            /\ t.auxNums[r] <= Cardinality(AuxVotes(t, r))
            /\ t.auxProof[r] = None => \A v : ~Full(t, r, v)
      BY <1>1, <1>2 DEF Sound, Tallies
    <2>4. /\ \A u \in t.votes :
               u.author = n /\ u.type = "aux" /\ u.round = t.round => u.val \in C
          /\ \A u, w \in t.votes :
               u.type = "aux" /\ w.type = "aux" /\ u.author = w.author /\ u.round = w.round
                 => u = w
      BY <2>1 DEF Sound, Tallies
    <2> QED
      BY <2>2, <2>3, <2>4 DEF Tallies
  <1>7. Outcome(D, V, t)
    <2>1. \A i \in 1 .. Len(t.sent) :
            t.sent[i].type = "proof" => Full(t, t.sent[i].round, t.sent[i].val)
      BY <1>2, <1>4 DEF Sound, Outcome
    <2>2. \A r \in t.coin : \E v \in V : Done(D, t, r, v)
      BY <1>2 DEF Sound, Outcome
    <2>3. /\ \A r \in Rounds : r < t.round => \E v \in V : Full(t, r, v) /\ v % 2 # Coin[r]
          /\ t.output # None =>
               Done(D, t, t.outputRound, t.output) /\ t.output % 2 = Coin[t.outputRound]
          /\ \A r \in Rounds : t.proof[r] # None => Done(D, t, r, t.proof[r])
      BY <1>2 DEF Sound, Outcome
    <2> QED
      BY <2>1, <2>2, <2>3 DEF Outcome
  <1>8. Agrees(D, n, t)
    BY DEF Sound, Agrees
  <1> QED
    BY <1>5, <1>6, <1>7, <1>8 DEF Sound

\* Each author counts once among the AUX values of a round.
LEMMA AuxAuthors ==
  ASSUME NEW V, NEW n, NEW B, NEW s \in State(V), Tallies(n, s, B), NEW r
  PROVE  LET P == {a \in Active : \E u \in AuxVotes(s, r) : u.author = a}
         IN  /\ IsFiniteSet(AuxVotes(s, r)) /\ IsFiniteSet(P)
             /\ Cardinality(AuxVotes(s, r)) = Cardinality(P)
  <1> DEFINE A == AuxVotes(s, r)
             P == {a \in Active : \E u \in A : u.author = a}
             f == [a \in P |-> CHOOSE u \in A : u.author = a]
  <1>1. IsFiniteSet(P)
    <2>1. P \in SUBSET Node
      BY TCVBAAssumption DEF Quorum
    <2> QED
      BY <2>1, CommitteeAssumption, FS_Subset
  <1>2. \A a \in P : f[a] \in A /\ f[a].author = a
    OBVIOUS
  <1>3. \A a, b \in P : f[a] = f[b] => a = b
    <2> HIDE DEF f
    <2> QED
      BY <1>2
  <1>4. \A u \in A : \E a \in P : f[a] = u
    <2> SUFFICES ASSUME NEW u \in A PROVE \E a \in P : f[a] = u
      OBVIOUS
    <2>1. u \in s.votes /\ u.type = "aux" /\ u.round = r
      BY DEF AuxVotes
    <2>2. u.author \in P
      <3>1. u \in Letter(V)
        BY <2>1, FieldTypes
      <3> QED
        BY <3>1, LetterIs
    <2> HIDE DEF f
    <2>3. f[u.author] \in s.votes /\ f[u.author].type = "aux" /\ f[u.author].round = r
          /\ f[u.author].author = u.author
      BY <1>2, <2>2 DEF AuxVotes
    <2>4. f[u.author] = u
      BY <2>1, <2>3 DEF Tallies
    <2> QED
      BY <2>2, <2>4
  <1>5. f \in Bijection(P, A)
    <2>1. f \in [P -> A]
      BY <1>2
    <2> HIDE DEF f, A, P
    <2> QED
      BY <2>1, <1>3, <1>4, Fun_IsBij
  <1> HIDE DEF f
  <1> QED
    BY <1>1, <1>5, FS_Bijection DEF ExistsBijection

\* As many AUX values as nodes that run are one of each.
LEMMA AllSent ==
  ASSUME Cardinality(Active) = quorum_threshold, NEW V, NEW n, NEW B, NEW s \in State(V),
         Tallies(n, s, B), NEW r \in Rounds, r >= s.round, s.auxNums[r] >= quorum_threshold
  PROVE  \A a \in Active : \E u \in s.votes : u.type = "aux" /\ u.round = r /\ u.author = a
  <1> DEFINE P == {a \in Active : \E u \in AuxVotes(s, r) : u.author = a}
  <1>1. /\ IsFiniteSet(AuxVotes(s, r)) /\ IsFiniteSet(P)
        /\ Cardinality(AuxVotes(s, r)) = Cardinality(P)
    BY AuxAuthors
  <1>2. s.auxNums[r] <= Cardinality(AuxVotes(s, r)) /\ s.auxNums[r] \in Nat
    BY FieldTypes DEF Tallies
  <1>3. Cardinality(P) \in Nat /\ quorum_threshold \in Int
    BY <1>1, FS_CardinalityType, Thresholds
  <1>4. Cardinality(P) >= Cardinality(Active)
    BY <1>1, <1>2, <1>3
  <1>5. IsFiniteSet(Active) /\ P \in SUBSET Active
    BY TCVBAAssumption, CommitteeAssumption, FS_Subset DEF Quorum
  <1> HIDE DEF P
  <1>6. P = Active
    BY <1>3, <1>4, <1>5, FS_Subset, FS_CardinalityType
  <1> QED
    BY <1>6 DEF P, AuxVotes

\* What a vote does to the counts.
LEMMA ValFields ==
  ASSUME NEW V, NEW s \in State(V), NEW m
  PROVE  LET t == handle_val_phase(s, m)
         IN  t.auxNums = s.auxNums /\ t.auxProof = s.auxProof /\ t.proof = s.proof
  BY DEF State, handle_val_phase

LEMMA AuxFields ==
  ASSUME NEW V, NEW s \in State(V), NEW m
  PROVE  LET t == handle_aux_phase(s, m)
         IN  /\ t.auxNums = [s.auxNums EXCEPT ![m.round] = @ + 1]
             /\ t.auxProof = ProofAt(quorum_threshold, s, m, s.auxProof)
             /\ t.proof = s.proof
  BY DEF State, handle_aux_phase

\* The AUX value of another node, or the only one of n in its round, is
\* counted once, and makes a proof when it is the last.
LEMMA AuxCounted ==
  ASSUME Cardinality(Active) = quorum_threshold, NEW V, None \notin V, NEW D, NEW n, NEW B,
         NEW s \in State(V), Proven(s), Sound(D, V, n, s, B),
         NEW m \in Letter(V), m.type = "aux", m.val # None,
         \A u \in s.votes : u.type = "aux" /\ u.author = m.author => u.round # m.round,
         m.author = n /\ m.round = s.round => m.val \in B,
         \A v : <<m.round, v>> \in D => m.val = v
  PROVE  Sound(D, V, n, handle_aux_phase(s, m), B)
  <1> DEFINE t == handle_aux_phase(s, m)
  <1>1. /\ t \in State(V) /\ VoteFrame(t) = VoteFrame(s) /\ t.sent = s.sent
        /\ t.votes = s.votes \cup {m}
        /\ t.auxNums = [s.auxNums EXCEPT ![m.round] = @ + 1]
        /\ t.auxProof = ProofAt(quorum_threshold, s, m, s.auxProof)
        /\ t.proof = s.proof
    <2>1. /\ t.auxNums = [s.auxNums EXCEPT ![m.round] = @ + 1]
          /\ t.auxProof = ProofAt(quorum_threshold, s, m, s.auxProof)
          /\ t.proof = s.proof
      BY AuxFields
    <2>2. t \in {handle_val_phase(s, m), handle_aux_phase(s, m)}
      OBVIOUS
    <2> HIDE DEF t
    <2>3. /\ t \in State(V) /\ VoteFrame(t) = VoteFrame(s) /\ t.sent = s.sent
          /\ t.votes = s.votes \cup {m}
      BY <2>2, VoteTypes
    <2> QED
      BY <2>1, <2>3
  <1>2. \A r \in Rounds : s.auxProof[r] # None => t.auxProof[r] # None
    BY VoteProven
  <1> HIDE DEF t
  <1>3. /\ t.round = s.round /\ t.output = s.output /\ t.outputRound = s.outputRound
        /\ t.coin = s.coin
    BY <1>1 DEF VoteFrame
  <1>4. m = Message("aux", m.author, m.round, m.val) /\ m.author \in Active /\ m \notin s.votes
        /\ m.round \in Rounds
    BY LetterIs
  <1>5. \A r, v : Full(s, r, v) => Full(t, r, v)
    BY <1>1, FullKept
  <1>6. ASSUME NEW r \in Rounds, r >= t.round
        PROVE  t.auxNums[r] <= Cardinality(AuxVotes(t, r))
    <2>1. /\ s.auxNums[r] <= Cardinality(AuxVotes(s, r)) /\ s.auxNums \in [Rounds -> Nat]
      BY <1>3, <1>6, FieldTypes DEF Sound, Tallies
    <2>2. CASE r = m.round
      <3>1. AuxVotes(t, r) = AuxVotes(s, r) \cup {m} /\ m \notin AuxVotes(s, r)
        BY <1>1, <1>4, <2>2 DEF AuxVotes
      <3>2. IsFiniteSet(AuxVotes(s, r))
        BY AuxAuthors DEF Sound
      <3>3. Cardinality(AuxVotes(t, r)) = Cardinality(AuxVotes(s, r)) + 1
            /\ Cardinality(AuxVotes(s, r)) \in Nat
        BY <3>1, <3>2, FS_AddElement, FS_CardinalityType
      <3>4. t.auxNums[r] = s.auxNums[r] + 1 /\ s.auxNums[r] \in Nat
        BY <1>1, <2>1, <2>2
      <3> QED
        BY <2>1, <3>3, <3>4
    <2>3. CASE r # m.round
      <3>1. AuxVotes(t, r) = AuxVotes(s, r)
        BY <1>1, <2>3 DEF AuxVotes
      <3>2. t.auxNums[r] = s.auxNums[r]
        BY <1>1, <2>1, <2>3
      <3> QED
        BY <2>1, <3>1, <3>2
    <2> QED
      BY <2>2, <2>3
  <1>7. ASSUME NEW r \in Rounds, r >= t.round, t.auxProof[r] = None, NEW v, Full(t, r, v)
        PROVE  FALSE
    <2>1. s.auxProof[r] = None /\ ~Full(s, r, v)
      BY <1>2, <1>3, <1>7 DEF Sound, Tallies
    <2>2. CASE r = m.round /\ v = m.val
      <3>1. /\ AuxVoters(t, r, v) = AuxVoters(s, r, v) \cup {m.author}
            /\ m.author \notin AuxVoters(s, r, v)
        BY <1>1, <1>4, <2>2 DEF AuxVoters, Message
      <3>2. IsFiniteSet(AuxVoters(s, r, v))
        <4>1. AuxVoters(s, r, v) \in SUBSET Node
          BY TCVBAAssumption DEF AuxVoters, Quorum
        <4> QED
          BY <4>1, CommitteeAssumption, FS_Subset
      <3>3. Cardinality(Active) = Cardinality(AuxVoters(s, r, v)) + 1
        BY <1>7, <3>1, <3>2, FS_AddElement DEF Full
      <3>4. Weight(s, m) + 1 = quorum_threshold
        BY <2>2, <3>3, WeightOfAux
      <3>5. t.auxProof = [s.auxProof EXCEPT ![m.round] = m.val]
        BY <1>1, <1>4, <3>4 DEF ProofAt
      <3>6. s.auxProof \in [Rounds -> V \cup {None}]
        BY FieldTypes
      <3> QED
        BY <1>7, <2>2, <3>5, <3>6
    <2>3. CASE ~(r = m.round /\ v = m.val)
      <3>1. AuxVoters(t, r, v) = AuxVoters(s, r, v)
        BY <1>1, <1>4, <2>3 DEF AuxVoters, Message
      <3> QED
        BY <1>7, <2>1, <3>1 DEF Full
    <2> QED
      BY <2>2, <2>3
  <1>8. Tallies(n, t, B)
    <2>1. \A u \in t.votes : u \in s.votes \/ u = m
      BY <1>1
    <2>2. \A u \in t.votes : u.author = n /\ u.type = "aux" /\ u.round = t.round => u.val \in B
      BY <1>3, <2>1 DEF Sound, Tallies
    <2>3. \A u, w \in t.votes :
            u.type = "aux" /\ w.type = "aux" /\ u.author = w.author /\ u.round = w.round => u = w
      BY <2>1 DEF Sound, Tallies
    <2>4. \A i, j \in 1 .. Len(t.sent) :
            i < j /\ t.sent[i].type = "aux" => t.sent[i] # t.sent[j]
      BY <1>1 DEF Sound, Tallies
    <2> QED
      BY <1>6, <1>7, <2>2, <2>3, <2>4 DEF Tallies
  <1>9. Outcome(D, V, t)
    <2>1. \A r, v : Done(D, s, r, v) => Done(D, t, r, v)
      BY <1>5 DEF Done
    <2> QED
      BY <1>1, <1>3, <1>5, <2>1 DEF Sound, Outcome
  <1>10. Agrees(D, n, t)
    BY <1>1 DEF Sound, Agrees
  <1> QED
    BY <1>8, <1>9, <1>10 DEF Sound, t

\* What Sound reads.
Read(s) ==
  <<s.round, s.auxNums, s.auxProof, s.proof, s.output, s.outputRound, s.votes, s.coin, s.sent>>

LEMMA SameRead ==
  ASSUME NEW V, NEW D, NEW n, NEW s \in State(V), NEW t \in State(V), NEW B,
         Sound(D, V, n, s, B), NEW C, B \subseteq C, Read(t) = Read(s)
  PROVE  Sound(D, V, n, t, C) /\ Extends(s, t)
  <1>1. /\ t.round = s.round /\ t.auxNums = s.auxNums /\ t.auxProof = s.auxProof
        /\ t.proof = s.proof /\ t.output = s.output /\ t.outputRound = s.outputRound
        /\ t.votes = s.votes /\ t.coin = s.coin /\ t.sent = s.sent
    BY DEF Read
  <1> QED
    BY <1>1, Quiet

LEMMA BroadcastSound ==
  ASSUME NEW V, NEW D, NEW n, NEW s \in State(V), NEW B, Sound(D, V, n, s, B),
         NEW m \in Letter(V),
         m.type = "aux" => \A i \in 1 .. Len(s.sent) : s.sent[i] # m,
         m.type = "proof" => Full(s, m.round, m.val)
  PROVE  LET t == broadcast(s, m)
         IN  /\ t \in State(V) /\ Sound(D, V, n, t, B) /\ Extends(s, t)
             /\ t.votes = s.votes /\ t.auxProof = s.auxProof /\ VoteFrame(t) = VoteFrame(s)
  <1> DEFINE t == broadcast(s, m)
  <1>1. s.sent \in Seq(Letter(V))
    BY FieldTypes
  <1>2. Append(s.sent, m) \in Seq(Letter(V)) /\ t = [s EXCEPT !.sent = Append(s.sent, m)]
    BY <1>1 DEF broadcast
  <1> HIDE DEF t
  <1>3. t \in State(V)
    BY ONLY <1>2, s \in State(V), Zenon DEF State
  <1>4. /\ t.round = s.round /\ t.auxNums = s.auxNums /\ t.auxProof = s.auxProof
        /\ t.proof = s.proof /\ t.output = s.output /\ t.outputRound = s.outputRound
        /\ t.votes = s.votes /\ t.coin = s.coin /\ t.sent = Append(s.sent, m)
        /\ VoteFrame(t) = VoteFrame(s)
    BY <1>2, <1>3 DEF State, VoteFrame
  <1>5. Sound(D, V, n, t, B) /\ Extends(s, t)
    BY <1>3, <1>4, Quiet
  <1> QED
    BY <1>3, <1>4, <1>5 DEF t

\* broadcast_val of a value of the first kind.
LEMMA ValSound ==
  ASSUME NEW V, NEW D, NEW n \in Active, NEW s \in State(V), NEW B, Sound(D, V, n, s, B),
         s.output = None, NEW v \in V
  PROVE  LET t == broadcast_val(n, s, "val", v)
         IN  /\ t \in State(V) /\ Sound(D, V, n, t, B) /\ Extends(s, t)
             /\ s.votes \subseteq t.votes /\ VoteFrame(t) = VoteFrame(s)
  <1> DEFINE t == broadcast_val(n, s, "val", v)
             m == Message("val", n, s.round, v)
             b == broadcast(s, m)
  <1>1. s.round \in Rounds /\ s.round \in Int /\ v \in V \cup {None}
    BY FieldTypes DEF Rounds
  <1>2. /\ m \in Letter(V) /\ m.type = "val" /\ m.round = s.round /\ m.val = v
    <2>1. "val" \in {"tc", "val", "aux", "coin", "proof"}
      OBVIOUS
    <2> QED
      BY <1>1, <2>1 DEF Letter, Message
  <1> HIDE DEF m
  <1>3. /\ b \in State(V) /\ Sound(D, V, n, b, B) /\ Extends(s, b)
        /\ b.votes = s.votes /\ VoteFrame(b) = VoteFrame(s)
    <2>1. m.type # "aux" /\ m.type # "proof"
      BY <1>2
    <2> QED
      BY ONLY <1>2, <2>1, BroadcastSound, s \in State(V), Sound(D, V, n, s, B)
  <1>4. b.output = None /\ b.round = s.round
    BY <1>3 DEF VoteFrame
  <1>5. t = handle_val_phase(b, m)
    BY <1>1, <1>2, <1>4 DEF broadcast_val, m, handle_aba_val, is_expired_aba_message
  <1> HIDE DEF b, t
  <1>6. t.auxNums = b.auxNums /\ t.auxProof = b.auxProof /\ t.proof = b.proof
    BY <1>3, <1>5, ValFields
  <1>7. /\ t \in State(V) /\ VoteFrame(t) = VoteFrame(b) /\ t.sent = b.sent
        /\ t.votes = b.votes \cup {m} /\ t.auxNums = b.auxNums /\ t.auxProof = b.auxProof
        /\ t.proof = b.proof
    BY <1>2, <1>3, <1>5, <1>6, VoteTypes
  <1>8. /\ t.round = b.round /\ t.output = b.output /\ t.outputRound = b.outputRound
        /\ t.coin = b.coin
    BY <1>7 DEF VoteFrame
  <1>9. Sound(D, V, n, t, B) /\ Extends(b, t)
    BY <1>2, <1>3, <1>7, <1>8, Quiet
  <1>10. Extends(s, t)
    BY <1>3, <1>7, <1>9, ExtendsTrans
  <1> QED
    BY <1>3, <1>7, <1>9, <1>10 DEF t

\* broadcast_val of an AUX value that n accepts, the first of its round.
LEMMA AuxSound ==
  ASSUME Cardinality(Active) = quorum_threshold, NEW V, None \notin V, NEW D,
         NEW n \in Active, NEW s, Local(V, n, s), NEW B, Sound(D, V, n, s, B),
         s.output = None, NEW v \in V, v \in B,
         \A u \in s.votes : u.author = n /\ u.type = "aux" => u.round # s.round
  PROVE  LET t == broadcast_val(n, s, "aux", v)
         IN  /\ t \in State(V) /\ Sound(D, V, n, t, B) /\ Extends(s, t)
             /\ s.votes \subseteq t.votes /\ VoteFrame(t) = VoteFrame(s)
  <1> DEFINE t == broadcast_val(n, s, "aux", v)
             m == Message("aux", n, s.round, v)
             b == broadcast(s, m)
  <1>1. s \in State(V) /\ s.round \in Rounds /\ s.round \in Int /\ v \in V \cup {None}
    BY FieldTypes DEF Rounds, Local
  <1>2. /\ m \in Letter(V) /\ m.type = "aux" /\ m.round = s.round /\ m.val = v /\ m.author = n
    <2>1. "aux" \in {"tc", "val", "aux", "coin", "proof"}
      OBVIOUS
    <2> QED
      BY <1>1, <2>1 DEF Letter, Message
  <1> HIDE DEF m
  <1>3. \A i \in 1 .. Len(s.sent) : s.sent[i] # m
    BY <1>2 DEF Local, Sent
  <1>4. /\ b \in State(V) /\ Sound(D, V, n, b, B) /\ Extends(s, b) /\ b.auxProof = s.auxProof
        /\ b.votes = s.votes /\ VoteFrame(b) = VoteFrame(s)
    <2>1. m.type = "proof" => Full(s, m.round, m.val)
      <3>1. m.type # "proof"
        BY ONLY <1>2
      <3> QED
        BY ONLY <3>1, Zenon
    <2>2. m.type = "aux" => \A i \in 1 .. Len(s.sent) : s.sent[i] # m
      BY ONLY <1>3, Zenon
    <2>3. s \in State(V) /\ m \in Letter(V)
      BY ONLY <1>1, <1>2, Zenon
    <2>4. b \in State(V) /\ Sound(D, V, n, b, B)
      BY ONLY <2>1, <2>2, <2>3, BroadcastSound, Sound(D, V, n, s, B), Zenon
    <2>5. Extends(s, b)
      BY ONLY <2>1, <2>2, <2>3, BroadcastSound, Sound(D, V, n, s, B), Zenon
    <2>6. /\ b.auxProof = s.auxProof /\ b.votes = s.votes
          /\ VoteFrame(b) = VoteFrame(s)
      BY DEF broadcast, VoteFrame, State
    <2> QED
      BY ONLY <2>4, <2>5, <2>6, Zenon
  <1>5. b.output = None /\ b.round = s.round
    BY <1>4 DEF VoteFrame
  <1>6. t = handle_aux_phase(b, m)
    BY <1>1, <1>2, <1>5 DEF broadcast_val, m, handle_aba_val, is_expired_aba_message
  <1> HIDE DEF b, t
  <1>7. Proven(b)
    BY <1>4 DEF Local, Proven, AuxVoters
  <1>8. \A w : <<m.round, w>> \in D => m.val = w
    <2>1. \A w : <<m.round, w>> \in D => Message("aux", n, s.round, w) \in s.votes
      BY <1>2 DEF Sound, Agrees
    <2>2. \A w : /\ Message("aux", n, s.round, w).author = n
                 /\ Message("aux", n, s.round, w).type = "aux"
                 /\ Message("aux", n, s.round, w).round = s.round
      BY DEF Message
    <2> QED
      BY <2>1, <2>2
  <1>9. Sound(D, V, n, t, B)
    <2>1. \A u \in b.votes : u.type = "aux" /\ u.author = m.author => u.round # m.round
      BY <1>2, <1>4
    <2>2. m.val # None /\ m.val \in B
      BY <1>2
    <2> QED
      BY <1>2, <1>4, <1>6, <1>7, <1>8, <2>1, <2>2, AuxCounted
  <1>10. /\ t \in State(V) /\ VoteFrame(t) = VoteFrame(b) /\ t.sent = b.sent
         /\ t.votes = b.votes \cup {m}
    BY <1>2, <1>4, <1>6, VoteTypes
  <1>11. Extends(s, t)
    BY <1>4, <1>10 DEF Extends
  <1> QED
    BY <1>4, <1>9, <1>10, <1>11 DEF t
-----------------------------------------------------------------------------
(***************************************************************************)
(* The functions of process_aba_phase once more.                           *)
(***************************************************************************)
LEMMA WaitedKept ==
  ASSUME NEW V, NEW s, NEW t, Waited(V, s), t.phase = s.phase, t.round = s.round,
         s.votes \subseteq t.votes
  PROVE  Waited(V, t)
  BY FullKept DEF Waited

LEMMA process_tcLeads ==
  ASSUME NEW V, NEW D, NEW n \in Active, NEW s \in State(V), Sound(D, V, n, s, s.binValues),
         Waited(V, s), s.output = None, s.tc # None
  PROVE  Leads(D, V, n, s, process_tc(n, s))
  <1> DEFINE m == Message("tc", n, 1, s.tc)
             b == broadcast(s, m)
             c == [b EXCEPT !.input = s.tc]
             d == broadcast_val(n, c, "val", s.tc)
             t == [d EXCEPT !.tcProcessed = TRUE]
             B == s.binValues
  <1>1. s.tc \in V /\ 1 \in Rounds
    BY FieldTypes, TCVBAAssumption DEF Rounds
  <1>2. m \in Letter(V) /\ m.type = "tc"
    <2>1. s.tc \in V \cup {None} /\ "tc" \in {"tc", "val", "aux", "coin", "proof"}
      BY <1>1
    <2> QED
      BY <1>1, <2>1 DEF Letter, Message
  <1> HIDE DEF m
  <1>3. /\ b \in State(V) /\ Sound(D, V, n, b, B) /\ Extends(s, b)
        /\ b.votes = s.votes /\ VoteFrame(b) = VoteFrame(s)
    BY <1>2, BroadcastSound
  <1> HIDE DEF b
  <1>4. c \in State(V)
    BY ONLY <1>1, <1>3, Zenon DEF State
  <1>5. /\ Read(c) = Read(b) /\ c.votes = b.votes /\ c.phase = b.phase /\ c.round = b.round
        /\ c.output = b.output /\ c.binValues = b.binValues
    BY <1>3 DEF State, Read
  <1> HIDE DEF c
  <1>6. Sound(D, V, n, c, B) /\ Extends(b, c)
    BY <1>3, <1>4, <1>5, SameRead
  <1>7. c.output = None
    BY <1>3, <1>5 DEF VoteFrame
  <1>8. /\ d \in State(V) /\ Sound(D, V, n, d, B) /\ Extends(c, d)
        /\ c.votes \subseteq d.votes /\ VoteFrame(d) = VoteFrame(c)
    BY ONLY <1>1, <1>4, <1>6, <1>7, ValSound, n \in Active, SMTT(30)
  <1> HIDE DEF d
  <1>9. t \in State(V)
    BY ONLY <1>8, Zenon DEF State
  <1>10. /\ Read(t) = Read(d) /\ t.votes = d.votes /\ t.phase = d.phase /\ t.round = d.round
         /\ t.binValues = d.binValues
    BY <1>8 DEF State, Read
  <1>11. t = process_tc(n, s)
    BY DEF d, c, b, m, process_tc
  <1> HIDE DEF t
  <1>12. /\ t.binValues = s.binValues /\ t.phase = s.phase /\ t.round = s.round
         /\ s.votes \subseteq t.votes
    BY <1>3, <1>5, <1>8, <1>10 DEF VoteFrame
  <1>13. Sound(D, V, n, t, B) /\ Extends(d, t)
    BY <1>8, <1>9, <1>10, SameRead
  <1>14. Extends(s, t)
    BY <1>3, <1>4, <1>6, <1>8, <1>9, <1>13, ExtendsTrans
  <1> QED
    BY <1>11, <1>12, <1>13, <1>14, WaitedKept DEF Leads

LEMMA LeadsSelf ==
  ASSUME NEW V, NEW D, NEW n, NEW s \in State(V), Sound(D, V, n, s, s.binValues), Waited(V, s)
  PROVE  Leads(D, V, n, s, s)
  BY ExtendsSelf DEF Leads

LEMMA process_val_phase_1Leads ==
  ASSUME NEW V, NEW D, NEW n \in Active, NEW s \in State(V), Sound(D, V, n, s, s.binValues),
         Waited(V, s), s.output = None
  PROVE  Leads(D, V, n, s, process_val_phase_1(n, s))
  <1> DEFINE v == s.cache1[s.round]
             c == [s EXCEPT !.valSent = TRUE]
             t == broadcast_val(n, c, "val", v)
  <1>1. CASE v = None \/ v = s.input \/ s.valSent
    BY <1>1, LeadsSelf DEF process_val_phase_1
  <1>2. CASE ~(v = None \/ v = s.input \/ s.valSent)
    <2>1. v \in V
      BY <1>2, FieldTypes
    <2>2. process_val_phase_1(n, s) = t
      BY <1>2 DEF process_val_phase_1
    <2>3. c \in State(V)
      BY ONLY s \in State(V), Zenon DEF State
    <2>4. /\ Read(c) = Read(s) /\ c.votes = s.votes /\ c.phase = s.phase /\ c.round = s.round
          /\ c.output = s.output /\ c.binValues = s.binValues
      BY DEF State, Read
    <2> HIDE DEF c, v
    <2>5. Sound(D, V, n, c, s.binValues) /\ Extends(s, c)
      BY <2>3, <2>4, SameRead
    <2>6. /\ t \in State(V) /\ Sound(D, V, n, t, s.binValues) /\ Extends(c, t)
          /\ c.votes \subseteq t.votes /\ VoteFrame(t) = VoteFrame(c)
      <3>1. c.output = None
        BY <2>4
      <3>2. t \in State(V) /\ Sound(D, V, n, t, s.binValues)
        BY ONLY <2>1, <2>3, <2>5, <3>1, ValSound, n \in Active, Zenon
      <3>3. Extends(c, t) /\ c.votes \subseteq t.votes
        BY ONLY <2>1, <2>3, <2>5, <3>1, ValSound, n \in Active, Zenon
      <3>4. VoteFrame(t) = VoteFrame(c)
        BY ONLY <2>1, <2>3, <2>5, <3>1, ValSound, n \in Active
      <3> QED
        BY ONLY <3>2, <3>3, <3>4, Zenon
    <2> HIDE DEF t
    <2>7. /\ t.binValues = s.binValues /\ t.phase = s.phase /\ t.round = s.round
          /\ s.votes \subseteq t.votes
      BY <2>4, <2>6 DEF VoteFrame
    <2>8. Extends(s, t)
      BY <2>3, <2>5, <2>6, ExtendsTrans
    <2> QED
      BY <2>2, <2>6, <2>7, <2>8, WaitedKept DEF Leads
  <1> QED
    BY <1>1, <1>2

LEMMA process_val_phase_2Leads ==
  ASSUME Cardinality(Active) = quorum_threshold, NEW V, None \notin V, NEW D,
         NEW n \in Active, NEW s, Local(V, n, s), Ready(s), Sound(D, V, n, s, s.binValues),
         Waited(V, s)
  PROVE  Leads(D, V, n, s, process_val_phase_2(n, s))
  <1> DEFINE v == s.cache2[s.round]
             c == [s EXCEPT !.auxSent = TRUE]
             d == broadcast_val(n, c, "aux", v)
             s1 == IF s.binValues = {} \/ s.auxSent THEN s ELSE d
             B == s.binValues \cup {v}
             t == [s1 EXCEPT !.binValues = @ \cup {v}]
  <1>1. s \in State(V) /\ s.output = None
    BY DEF Local, Ready
  <1>2. CASE v = None
    BY <1>1, <1>2, LeadsSelf DEF process_val_phase_2
  <1>3. CASE v # None
    <2>1. v \in V
      BY <1>1, <1>3, FieldTypes
    <2>2. Sound(D, V, n, s, B) /\ Extends(s, s)
      <3>1. Read(s) = Read(s) /\ s.binValues \subseteq B
        OBVIOUS
      <3> HIDE DEF B
      <3> QED
        BY <1>1, <3>1, SameRead
    <2>3. /\ s1 \in State(V) /\ Sound(D, V, n, s1, B) /\ Extends(s, s1)
          /\ s.votes \subseteq s1.votes
          /\ s1.binValues = s.binValues /\ s1.phase = s.phase /\ s1.round = s.round
      <3>1. CASE s.binValues = {} \/ s.auxSent
        BY <1>1, <2>2, <3>1
      <3>2. CASE ~(s.binValues = {} \/ s.auxSent)
        <4>1. \A u \in s.votes : u.author = n /\ u.type = "aux" => u.round # s.round
          BY <3>2 DEF Local, OwnVotes
        <4>2. c \in {[s EXCEPT !.valSent = TRUE], [s EXCEPT !.auxSent = TRUE],
                     [s EXCEPT !.coinSent = TRUE]}
          OBVIOUS
        <4>3. /\ Read(c) = Read(s) /\ c.votes = s.votes /\ c.phase = s.phase
              /\ c.round = s.round /\ c.output = s.output /\ c.binValues = s.binValues
          BY <1>1 DEF State, Read
        <4>4. Local(V, n, c) /\ c \in State(V)
          <5>1. Prepares(V, n, s, c)
            BY <4>2, FlagSet
          <5> HIDE DEF c
          <5> QED
            BY <5>1 DEF Prepares, Local
        <4> HIDE DEF c, B
        <4>5. Sound(D, V, n, c, B) /\ Extends(s, c)
          BY <1>1, <2>2, <4>3, <4>4, SameRead
        <4>6. v \in B
          BY DEF B
        <4> HIDE DEF v
        <4>7. /\ d \in State(V) /\ Sound(D, V, n, d, B) /\ Extends(c, d)
              /\ c.votes \subseteq d.votes /\ VoteFrame(d) = VoteFrame(c)
          BY <1>1, <2>1, <4>1, <4>3, <4>4, <4>5, <4>6, AuxSound
        <4> HIDE DEF d
        <4>8. Extends(s, d)
          BY <1>1, <4>4, <4>5, <4>7, ExtendsTrans
        <4>9. d.binValues = s.binValues /\ d.phase = s.phase /\ d.round = s.round
          BY <4>3, <4>7 DEF VoteFrame
        <4> QED
          BY <3>2, <4>3, <4>7, <4>8, <4>9
      <3> QED
        BY <3>1, <3>2
    <2>4. process_val_phase_2(n, s) = t
      BY <1>3 DEF process_val_phase_2
    <2> HIDE DEF s1
    <2>5. s1.binValues \cup {v} \in SUBSET V /\ s1.binValues \cup {v} = B
      BY <2>1, <2>3, FieldTypes
    <2>6. t \in State(V)
      BY ONLY <2>3, <2>5, Zenon DEF State
    <2>7. /\ Read(t) = Read(s1) /\ t.votes = s1.votes /\ t.phase = s1.phase
          /\ t.round = s1.round /\ t.binValues = B
      BY <2>3, <2>5 DEF State, Read
    <2> HIDE DEF t, B
    <2>8. Sound(D, V, n, t, B) /\ Extends(s1, t)
      BY <2>3, <2>6, <2>7, SameRead
    <2>9. Extends(s, t) /\ s.votes \subseteq t.votes
      BY <1>1, <2>3, <2>6, <2>7, <2>8, ExtendsTrans
    <2>10. Waited(V, t)
      BY <2>3, <2>7, <2>9, WaitedKept
    <2> QED
      BY <2>4, <2>7, <2>8, <2>9, <2>10 DEF Leads
  <1> QED
    BY <1>2, <1>3

\* handle_coin_share of a share whose round has its AUX value.
LEMMA CoinSound ==
  ASSUME NEW V, NEW D, NEW n, NEW s \in State(V), NEW B, Sound(D, V, n, s, B),
         NEW m \in Letter(V), NEW v \in V, Done(D, s, m.round, v)
  PROVE  LET t == handle_coin_share(s, m)
         IN  /\ t \in State(V) /\ Sound(D, V, n, t, B) /\ Extends(s, t)
             /\ t.votes = s.votes /\ t.binValues = s.binValues
             /\ t.phase = s.phase /\ t.round = s.round
  <1> DEFINE t     == handle_coin_share(s, m)
             known == {u \in s.shares : u.round = m.round}
             S     == s.shares \cup {m}
             C     == IF m \notin known /\ Cardinality(known) + 1 = random_coin_threshold
                      THEN s.coin \cup {m.round} ELSE s.coin
  <1>1. CASE is_expired_aba_message(s, m)
    <2>1. t = s
      BY <1>1 DEF handle_coin_share
    <2> HIDE DEF t
    <2> QED
      BY <2>1, ExtendsSelf DEF t
  <1>2. CASE ~is_expired_aba_message(s, m)
    <2>1. t = [s EXCEPT !.shares = S, !.coin = C]
      BY <1>2 DEF handle_coin_share
    <2>2. S \in SUBSET Letter(V) /\ C \in SUBSET Rounds
      <3>1. s.shares \in SUBSET Letter(V) /\ s.coin \in SUBSET Rounds /\ m.round \in Rounds
        BY FieldTypes, LetterIs
      <3> QED
        BY <3>1
    <2>3. \A r \in C : r \in s.coin \/ r = m.round
      OBVIOUS
    <2> HIDE DEF t, C, S
    <2>4. t \in State(V)
      BY ONLY s \in State(V), <2>1, <2>2, Zenon DEF State
    <2>5. /\ t.round = s.round /\ t.auxNums = s.auxNums /\ t.auxProof = s.auxProof
          /\ t.proof = s.proof /\ t.output = s.output /\ t.outputRound = s.outputRound
          /\ t.votes = s.votes /\ t.coin = C /\ t.sent = s.sent /\ t.phase = s.phase
          /\ t.binValues = s.binValues
      BY <2>1, <2>4 DEF State
    <2>6. Done(D, t, m.round, v)
      BY <2>5, FullKept DEF Done
    <2>7. \A r \in t.coin : r \in s.coin \/ \E w \in V : Done(D, t, r, w)
      BY <2>3, <2>5, <2>6
    <2>8. Sound(D, V, n, t, B) /\ Extends(s, t)
      BY <2>4, <2>5, <2>7, Quiet
    <2> QED
      BY <2>4, <2>5, <2>8 DEF t
  <1> QED
    BY <1>1, <1>2

LEMMA process_aux_phaseLeads ==
  ASSUME Cardinality(Active) = quorum_threshold, NEW V, NEW D, NEW n \in Active, NEW s,
         Local(V, n, s), Sound(D, V, n, s, s.binValues), Waited(V, s)
  PROVE  Leads(D, V, n, s, process_aux_phase(n, s))
  <1> DEFINE m == Message("coin", n, s.round, None)
             p == s.auxProof[s.round]
             c == [s EXCEPT !.coinSent = TRUE]
             b == broadcast(c, m)
             t == handle_coin_share(b, m)
  <1>0. s \in State(V)
    BY DEF Local
  <1>1. CASE p = None \/ s.coinSent
    BY <1>0, <1>1, LeadsSelf DEF process_aux_phase
  <1>2. CASE ~(p = None \/ s.coinSent)
    <2>1. s.round \in Rounds /\ p \in V
      BY <1>0, <1>2, FieldTypes
    <2>2. Full(s, s.round, p)
      BY <1>2, <2>1, ProofIsFull DEF Local
    <2>3. process_aux_phase(n, s) = t
      BY <1>2 DEF process_aux_phase
    <2>4. m \in Letter(V) /\ m.type = "coin" /\ m.round = s.round
      BY <2>1 DEF Letter, Message
    <2>5. c \in State(V)
      BY ONLY <1>0, Zenon DEF State
    <2>6. /\ Read(c) = Read(s) /\ c.votes = s.votes /\ c.phase = s.phase /\ c.round = s.round
          /\ c.binValues = s.binValues
      BY <1>0 DEF State, Read
    <2> HIDE DEF c, m, p
    <2>7. Sound(D, V, n, c, s.binValues) /\ Extends(s, c)
      BY <1>0, <2>5, <2>6, SameRead
    <2>8. /\ b \in State(V) /\ Sound(D, V, n, b, s.binValues) /\ Extends(c, b)
          /\ b.votes = c.votes /\ VoteFrame(b) = VoteFrame(c)
      <3>1. m.type # "aux" /\ m.type # "proof"
        BY <2>4
      <3> QED
        BY ONLY <2>4, <2>5, <2>7, <3>1, BroadcastSound
    <2> HIDE DEF b
    <2>9. b.phase = s.phase /\ b.round = s.round /\ b.binValues = s.binValues
      BY <2>6, <2>8 DEF VoteFrame
    <2>10. Done(D, b, m.round, p)
      BY <2>2, <2>4, <2>6, <2>8, FullKept DEF Done
    <2>11. /\ t \in State(V) /\ Sound(D, V, n, t, s.binValues) /\ Extends(b, t)
           /\ t.votes = b.votes /\ t.binValues = b.binValues
           /\ t.phase = b.phase /\ t.round = b.round
      BY ONLY <2>1, <2>4, <2>8, <2>10, CoinSound
    <2> HIDE DEF t
    <2>12. Extends(s, t)
      <3>1. Extends(s, b)
        BY <1>0, <2>5, <2>7, <2>8, ExtendsTrans
      <3> QED
        BY <1>0, <2>8, <2>11, <3>1, ExtendsTrans
    <2>13. Waited(V, t)
      BY <2>6, <2>8, <2>9, <2>11, WaitedKept
    <2> QED
      BY <2>3, <2>6, <2>8, <2>9, <2>11, <2>12, <2>13 DEF Leads
  <1> QED
    BY <1>1, <1>2

\* The next round of a node whose value has not the parity of the coin.
LEMMA AdvanceLeads ==
  ASSUME NEW V, None \notin V, NEW D, NEW n \in Active, NEW s, Local(V, n, s),
         Sound(D, V, n, s, s.binValues), s.output = None, s.round \in 1 .. MaxRound,
         NEW p \in V, Full(s, s.round, p), p % 2 # Coin[s.round], NEW v \in V
  PROVE  Leads(D, V, n, s, advance_aba_round(n, s, v))
  <1> DEFINE r  == s.round + 1
             c1 == [k \in Rounds |-> IF k < r THEN None ELSE s.cache1[k]]
             c2 == [k \in Rounds |-> IF k < r THEN None ELSE s.cache2[k]]
             ap == [k \in Rounds |-> IF k < r THEN None ELSE s.auxProof[k]]
             pr == [k \in Rounds |-> IF k < r THEN None ELSE s.proof[k]]
             an == [k \in Rounds |-> IF k < r THEN 0 ELSE s.auxNums[k]]
             c  == [s EXCEPT !.round = r, !.phase = VAL_PHASE, !.input = v, !.binValues = {},
                      !.valSent = FALSE, !.auxSent = FALSE, !.coinSent = FALSE,
                      !.proofSent = FALSE, !.cache1 = c1, !.cache2 = c2, !.auxProof = ap,
                      !.proof = pr, !.auxNums = an]
             t  == broadcast_val(n, c, "val", v)
  <1>1. s \in State(V)
    BY DEF Local
  <1>2. /\ r \in Rounds /\ VAL_PHASE \in INIT_PHASE .. COIN_PHASE /\ v \in V \cup {None}
        /\ {} \in SUBSET V /\ FALSE \in BOOLEAN /\ s.round < r
    BY TCVBAAssumption DEF Rounds, VAL_PHASE, INIT_PHASE, COIN_PHASE
  <1>3. /\ c1 \in [Rounds -> V \cup {None}] /\ c2 \in [Rounds -> V \cup {None}]
        /\ ap \in [Rounds -> V \cup {None}] /\ pr \in [Rounds -> V \cup {None}]
        /\ an \in [Rounds -> Nat]
    <2>1. /\ s.cache1 \in [Rounds -> V \cup {None}] /\ s.cache2 \in [Rounds -> V \cup {None}]
          /\ s.auxProof \in [Rounds -> V \cup {None}] /\ s.proof \in [Rounds -> V \cup {None}]
          /\ s.auxNums \in [Rounds -> Nat]
      BY <1>1, FieldTypes
    <2> HIDE DEF r
    <2> QED
      BY <2>1
  <1>4. s.round \in Int /\ r \in Int /\ r = s.round + 1
    BY <1>1, FieldTypes DEF Rounds
  <1>5. \A k \in Rounds :
          /\ k >= r => k >= s.round /\ ap[k] = s.auxProof[k] /\ an[k] = s.auxNums[k]
          /\ k < r => k < s.round \/ k = s.round
          /\ pr[k] # None => pr[k] = s.proof[k]
    BY <1>4 DEF Rounds
  <1>6. advance_aba_round(n, s, v) = t
    BY DEF advance_aba_round
  <1> HIDE DEF r, c1, c2, ap, pr, an
  <1>7. c \in State(V)
    BY ONLY <1>1, <1>2, <1>3, ZenonT(60) DEF State
  <1>8. /\ c.round = r /\ c.votes = s.votes /\ c.output = None /\ c.phase = VAL_PHASE
        /\ c.binValues = {} /\ c.auxProof = ap /\ c.proof = pr /\ c.auxNums = an
        /\ c.coin = s.coin /\ c.sent = s.sent
    <2>1. c.round = r /\ c.phase = VAL_PHASE
      BY ONLY <1>1 DEF State
    <2>2. c.binValues = {} /\ c.auxProof = ap
      BY ONLY <1>1 DEF State
    <2>3. c.proof = pr /\ c.auxNums = an
      BY ONLY <1>1 DEF State
    <2>4. c.votes = s.votes /\ c.output = s.output
      BY ONLY <1>1 DEF State
    <2>5. c.coin = s.coin /\ c.sent = s.sent
      BY ONLY <1>1 DEF State
    <2>6. c.output = None
      BY ONLY <2>4, s.output = None, Zenon
    <2> QED
      BY ONLY <2>1, <2>2, <2>3, <2>4, <2>5, <2>6, Zenon
  <1> HIDE DEF c
  <1>9. /\ \A k, w : Full(c, k, w) <=> Full(s, k, w)
        /\ \A k, w : Done(D, c, k, w) <=> Done(D, s, k, w)
        /\ \A k : AuxVotes(c, k) = AuxVotes(s, k)
    BY <1>8 DEF Full, Done, AuxVoters, AuxVotes
  <1>10. Tallies(n, c, {})
    <2>1. ASSUME NEW u \in c.votes, u.author = n PROVE u.round # c.round
      <3>1. u.round <= s.round
        BY <1>8, <2>1 DEF Local, OwnVotes
      <3>2. u \in Letter(V)
        BY <1>1, <1>8, FieldTypes
      <3>3. u.round \in Int
        BY <3>2, LetterIs DEF Rounds
      <3> QED
        BY <1>4, <1>8, <3>1, <3>3
    <2>2. \A k \in Rounds : k >= c.round =>
            /\ c.auxNums[k] <= Cardinality(AuxVotes(c, k))
            /\ c.auxProof[k] = None => \A w : ~Full(c, k, w)
      BY <1>5, <1>8, <1>9 DEF Sound, Tallies
    <2> QED
      BY <1>8, <2>1, <2>2 DEF Sound, Tallies
  <1>11. Outcome(D, V, c)
    <2>1. \A k \in Rounds : k < c.round => \E w \in V : Full(c, k, w) /\ w % 2 # Coin[k]
      BY <1>5, <1>8, <1>9 DEF Sound, Outcome
    <2>2. \A k \in Rounds : c.proof[k] # None => Done(D, c, k, c.proof[k])
      BY <1>5, <1>8, <1>9 DEF Sound, Outcome
    <2>3. /\ \A k \in c.coin : \E w \in V : Done(D, c, k, w)
          /\ \A i \in 1 .. Len(c.sent) :
               c.sent[i].type = "proof" => Full(c, c.sent[i].round, c.sent[i].val)
      BY <1>8, <1>9 DEF Sound, Outcome
    <2> QED
      BY <1>8, <2>1, <2>2, <2>3 DEF Outcome
  <1>12. Sound(D, V, n, c, {}) /\ Extends(s, c)
    <2>1. Agrees(D, n, c)
      BY <1>8 DEF Sound, Agrees
    <2>2. Extends(s, s)
      BY <1>1, ExtendsSelf
    <2> QED
      BY <1>8, <1>10, <1>11, <2>1, <2>2 DEF Sound, Extends
  <1>13. /\ t \in State(V) /\ Sound(D, V, n, t, {}) /\ Extends(c, t)
         /\ c.votes \subseteq t.votes /\ VoteFrame(t) = VoteFrame(c)
    BY ONLY <1>7, <1>8, <1>12, ValSound, n \in Active, v \in V
  <1> HIDE DEF t
  <1>14. t.binValues = {} /\ Waited(V, t)
    BY <1>8, <1>13 DEF VoteFrame, Waited, VAL_PHASE, COIN_PHASE
  <1>15. Extends(s, t)
    BY <1>1, <1>7, <1>12, <1>13, ExtendsTrans
  <1> QED
    BY <1>6, <1>8, <1>13, <1>14, <1>15 DEF Leads

\* An output that is the value of the round and has the parity of its coin.
LEMMA OutputSet ==
  ASSUME NEW V, NEW D, NEW n, NEW s \in State(V), NEW B, Sound(D, V, n, s, B),
         NEW v, Done(D, s, s.round, v), v % 2 = Coin[s.round],
         NEW c, c.output = v, c.outputRound = s.round, c.round = s.round, c.votes = s.votes,
         c.auxProof = s.auxProof, c.auxNums = s.auxNums, c.proof = s.proof, c.coin = s.coin,
         c.sent = s.sent
  PROVE  Sound(D, V, n, c, B) /\ Extends(s, c)
  <1>4. /\ \A k, w : Full(c, k, w) <=> Full(s, k, w)
        /\ \A k, w : Done(D, c, k, w) <=> Done(D, s, k, w)
        /\ \A k : AuxVotes(c, k) = AuxVotes(s, k)
    BY DEF Full, Done, AuxVoters, AuxVotes
  <1>5. Tallies(n, c, B)
    BY <1>4 DEF Sound, Tallies
  <1>6. Outcome(D, V, c)
    BY <1>4 DEF Sound, Outcome
  <1>7. Agrees(D, n, c)
    BY DEF Sound, Agrees
  <1>8. Extends(s, c)
    BY ExtendsSelf DEF Extends
  <1> QED
    BY <1>5, <1>6, <1>7, <1>8 DEF Sound

LEMMA OutputLeads ==
  ASSUME Cardinality(Active) = quorum_threshold, NEW V, NEW D, NEW n \in Active, NEW s,
         Local(V, n, s), Sound(D, V, n, s, s.binValues), Waited(V, s),
         s.auxProof[s.round] # None, NEW v \in V, Full(s, s.round, v), v % 2 = Coin[s.round]
  PROVE  Leads(D, V, n, s, Output(n, s, v))
  <1> DEFINE m == Message("proof", n, s.round, s.auxProof[s.round])
             c == [s EXCEPT !.output = v, !.outputRound = s.round]
             d == [c EXCEPT !.proofSent = TRUE]
             t == broadcast(d, m)
  <1>1. s \in State(V) /\ s.round \in Rounds /\ s.auxProof[s.round] \in V \cup {None}
    BY FieldTypes DEF Local
  <1>2. /\ c \in State(V) /\ Sound(D, V, n, c, s.binValues) /\ Extends(s, c)
        /\ c.votes = s.votes /\ c.phase = s.phase /\ c.round = s.round
        /\ c.binValues = s.binValues
    <2>1. Done(D, s, s.round, v) /\ v \in V \cup {None} /\ s.round \in Nat
      BY <1>1 DEF Done, Rounds
    <2>2. c \in State(V)
      BY ONLY <1>1, <2>1, Zenon DEF State
    <2>3. /\ c.output = v /\ c.outputRound = s.round /\ c.round = s.round /\ c.votes = s.votes
          /\ c.auxProof = s.auxProof /\ c.auxNums = s.auxNums /\ c.proof = s.proof
          /\ c.coin = s.coin /\ c.sent = s.sent /\ c.phase = s.phase
          /\ c.binValues = s.binValues
      BY <1>1 DEF State
    <2> HIDE DEF c
    <2>4. Sound(D, V, n, c, s.binValues) /\ Extends(s, c)
      BY <1>1, <2>1, <2>3, OutputSet
    <2> QED
      BY <2>2, <2>3, <2>4
  <1>3. CASE s.proofSent
    <2>1. Output(n, s, v) = c
      BY <1>3 DEF Output
    <2> HIDE DEF c
    <2> QED
      BY <1>2, <2>1, WaitedKept DEF Leads
  <1>4. CASE ~s.proofSent
    <2>1. Output(n, s, v) = t
      BY <1>4 DEF Output
    <2>2. /\ m \in Letter(V) /\ m.type = "proof" /\ m.round = s.round
          /\ m.val = s.auxProof[s.round]
      BY <1>1 DEF Letter, Message
    <2> HIDE DEF c, m
    <2>3. d \in State(V)
      BY ONLY <1>2, Zenon DEF State
    <2>4. /\ Read(d) = Read(c) /\ d.votes = c.votes /\ d.phase = c.phase /\ d.round = c.round
          /\ d.binValues = c.binValues
      BY <1>2 DEF State, Read
    <2> HIDE DEF d
    <2>5. Sound(D, V, n, d, s.binValues) /\ Extends(c, d)
      BY <1>2, <2>3, <2>4, SameRead
    <2>6. Full(d, m.round, m.val)
      <3>1. Full(s, s.round, s.auxProof[s.round])
        BY <1>1, ProofIsFull DEF Local
      <3> QED
        BY <1>2, <2>2, <2>4, <3>1, FullKept
    <2>7. /\ t \in State(V) /\ Sound(D, V, n, t, s.binValues) /\ Extends(d, t)
          /\ t.votes = d.votes /\ VoteFrame(t) = VoteFrame(d)
      <3>1. m.type # "aux"
        BY <2>2
      <3> QED
        BY ONLY <2>2, <2>3, <2>5, <2>6, <3>1, BroadcastSound
    <2> HIDE DEF t
    <2>8. t.phase = s.phase /\ t.round = s.round /\ t.binValues = s.binValues
          /\ s.votes \subseteq t.votes
      BY <1>2, <2>4, <2>7 DEF VoteFrame
    <2>9. Extends(s, t)
      <3>1. Extends(s, d)
        BY <1>1, <1>2, <2>3, <2>5, ExtendsTrans
      <3> QED
        BY <1>1, <2>3, <2>7, <3>1, ExtendsTrans
    <2> QED
      BY <2>1, <2>7, <2>8, <2>9, WaitedKept DEF Leads
  <1> QED
    BY <1>3, <1>4

LEMMA process_coin_shareLeads ==
  ASSUME Cardinality(Active) = quorum_threshold, NEW V, Closed(V), NEW D, NEW n \in Active,
         NEW s, Local(V, n, s), Ready(s), Sound(D, V, n, s, s.binValues), Waited(V, s),
         s.phase = COIN_PHASE, s.round \in 1 .. MaxRound
  PROVE  Leads(D, V, n, s, process_coin_share(n, s))
  <1> DEFINE c == Coin[s.round]
             v == CHOOSE x \in s.binValues : TRUE
             p == s.auxProof[s.round]
             t == process_coin_share(n, s)
  <1>1. None \notin V
    BY DEF Closed, None
  <1>2. s \in State(V) /\ s.round \in s.coin /\ s.output = None
    BY DEF Ready, Local
  <1>3. s.round \in Rounds /\ s.round >= s.round /\ p \in V \cup {None} /\ c \in {0, 1}
        /\ s.binValues \in SUBSET V
    BY <1>2, TCVBAAssumption, FieldTypes DEF Rounds
  <1>4. p # None
    <2>1. PICK x \in V : Full(s, s.round, x)
      BY DEF Waited
    <2> QED
      BY <1>3, <2>1 DEF Sound, Tallies
  <1>5. p \in V /\ Full(s, s.round, p)
    BY <1>3, <1>4, ProofIsFull DEF Local
  <1>6. p \in s.binValues
    <2>1. Message("aux", n, s.round, p) \in s.votes
      BY <1>5 DEF Full, AuxVoters
    <2>2. /\ Message("aux", n, s.round, p).type = "aux"
          /\ Message("aux", n, s.round, p).author = n
          /\ Message("aux", n, s.round, p).round = s.round
          /\ Message("aux", n, s.round, p).val = p
      BY DEF Message
    <2> QED
      BY <2>1, <2>2 DEF Sound, Tallies
  <1>7. p % 2 = c => Leads(D, V, n, s, Output(n, s, p))
    BY <1>4, <1>5, OutputLeads
  <1>8. ASSUME p % 2 # c, NEW w \in V PROVE Leads(D, V, n, s, advance_aba_round(n, s, w))
    BY <1>1, <1>2, <1>5, <1>8, AdvanceLeads
  <1>9. CASE Cardinality(s.binValues) = 1
    <2>1. IsFiniteSet(s.binValues)
      BY DEF Local, Phased
    <2>2. PICK x : s.binValues = {x}
      BY <1>9, <2>1, FS_Singleton
    <2>3. v = p
      BY <1>6, <2>2
    <2>4. t = IF v % 2 = c THEN Output(n, s, v) ELSE advance_aba_round(n, s, v)
      BY <1>2, <1>9 DEF process_coin_share
    <2> HIDE DEF t, v, p, c
    <2> QED
      BY <1>5, <1>7, <1>8, <2>3, <2>4 DEF t
  <1>10. CASE Cardinality(s.binValues) # 1
    <2>1. c \in V
      <3>1. CASE {0, 1} \subseteq V
        BY <1>3, <3>1
      <3>2. ASSUME NEW h, V = {h} PROVE FALSE
        <4>1. s.binValues = {h}
          BY <1>3, <1>6, <3>2
        <4> QED
          BY <1>10, <4>1, FS_Singleton
      <3> QED
        BY <3>1, <3>2 DEF Closed
    <2>2. t = IF p # None /\ p % 2 = c THEN Output(n, s, p) ELSE advance_aba_round(n, s, c)
      BY <1>2, <1>10 DEF process_coin_share
    <2> HIDE DEF t, v, p, c
    <2> QED
      BY <1>4, <1>7, <1>8, <2>1, <2>2 DEF t
  <1> QED
    BY <1>9, <1>10

LEMMA process_aba_proofLeads ==
  ASSUME NEW V, NEW D, NEW n, NEW s \in State(V), Sound(D, V, n, s, s.binValues), Waited(V, s)
  PROVE  Leads(D, V, n, s, process_aba_proof(s))
  <1> DEFINE p == s.proof[s.round]
             c == [s EXCEPT !.output = p, !.outputRound = s.round]
             t == process_aba_proof(s)
  <1>1. CASE t = s
    BY <1>1, LeadsSelf
  <1>2. CASE t # s
    <2>1. t = c /\ p # None /\ p % 2 = Coin[s.round]
      BY <1>2 DEF process_aba_proof
    <2>2. s.round \in Rounds /\ s.round \in Nat /\ p \in V \cup {None}
      <3>1. s.round \in Rounds /\ s.proof \in [Rounds -> V \cup {None}]
        BY FieldTypes
      <3>2. s.round \in Nat
        BY <3>1 DEF Rounds
      <3> QED
        BY <3>1, <3>2
    <2>3. Done(D, s, s.round, p)
      BY <2>1, <2>2 DEF Sound, Outcome
    <2> HIDE DEF t, p
    <2>4. c \in State(V)
      BY ONLY <2>2, s \in State(V), Zenon DEF State
    <2>5. /\ c.output = p /\ c.outputRound = s.round /\ c.round = s.round /\ c.votes = s.votes
          /\ c.auxProof = s.auxProof /\ c.auxNums = s.auxNums /\ c.proof = s.proof
          /\ c.coin = s.coin /\ c.sent = s.sent /\ c.phase = s.phase
          /\ c.binValues = s.binValues
      BY DEF State
    <2> HIDE DEF c
    <2>6. Sound(D, V, n, c, s.binValues) /\ Extends(s, c)
      BY <2>1, <2>3, <2>5, OutputSet
    <2> QED
      BY <2>1, <2>5, <2>6, WaitedKept DEF Leads, t
  <1> QED
    BY <1>1, <1>2

\* Who enters the last phase has the AUX values of all: it counted as many,
\* and the value of the coin's round is the value of each.
LEMMA EnterPhasesLeads ==
  ASSUME Cardinality(Active) = quorum_threshold, NEW V, NEW D, NEW n \in Active, NEW s,
         Local(V, n, s), Settled(s), s.output = None, Sound(D, V, n, s, s.binValues)
  PROVE  Leads(D, V, n, s, CoinPhase(AuxPhase(ValPhase(s))))
  <1> DEFINE a == ValPhase(s)
             b == AuxPhase(a)
             t == CoinPhase(b)
  <1>1. /\ s \in State(V) /\ s.phase # COIN_PHASE
        /\ {VAL_PHASE, AUX_PHASE, COIN_PHASE} \subseteq INIT_PHASE .. COIN_PHASE
    BY DEF Local, Settled, VAL_PHASE, AUX_PHASE, COIN_PHASE, INIT_PHASE
  <1>2. ASSUME NEW x \in State(V), NEW ph \in {VAL_PHASE, AUX_PHASE, COIN_PHASE},
               Sound(D, V, n, x, x.binValues), NEW y, y = [x EXCEPT !.phase = ph]
        PROVE  /\ y \in State(V) /\ Sound(D, V, n, y, y.binValues) /\ Extends(x, y)
               /\ y.votes = x.votes /\ y.round = x.round /\ y.phase = ph
    <2>1. y \in State(V)
      BY ONLY <1>1, <1>2, Zenon DEF State
    <2>2. /\ Read(y) = Read(x) /\ y.votes = x.votes /\ y.round = x.round /\ y.phase = ph
          /\ y.binValues = x.binValues
      BY <1>2 DEF State, Read
    <2>3. Sound(D, V, n, y, x.binValues) /\ Extends(x, y)
      BY <1>2, <2>1, <2>2, SameRead
    <2> QED
      BY <2>1, <2>2, <2>3
  <1>3. /\ a \in State(V) /\ Sound(D, V, n, a, a.binValues) /\ Extends(s, a)
        /\ a.votes = s.votes /\ a.round = s.round /\ a.phase # COIN_PHASE
    <2>1. CASE s.phase = INIT_PHASE /\ s.tcProcessed
      <3>1. a = [s EXCEPT !.phase = VAL_PHASE]
        BY <2>1 DEF ValPhase
      <3>2. VAL_PHASE # COIN_PHASE
        BY DEF VAL_PHASE, COIN_PHASE
      <3> HIDE DEF a
      <3> QED
        BY <1>1, <1>2, <3>1, <3>2
    <2>2. CASE ~(s.phase = INIT_PHASE /\ s.tcProcessed)
      BY <1>1, <2>2, ExtendsSelf DEF ValPhase
    <2> QED
      BY <2>1, <2>2
  <1> HIDE DEF a
  <1>4. /\ b \in State(V) /\ Sound(D, V, n, b, b.binValues) /\ Extends(a, b)
        /\ b.votes = a.votes /\ b.round = a.round /\ b.phase # COIN_PHASE
    <2>1. CASE a.phase = VAL_PHASE /\ a.binValues # {}
      <3>1. b = [a EXCEPT !.phase = AUX_PHASE]
        BY <2>1 DEF AuxPhase
      <3>2. AUX_PHASE # COIN_PHASE
        BY DEF AUX_PHASE, COIN_PHASE
      <3> HIDE DEF b
      <3> QED
        BY <1>2, <1>3, <3>1, <3>2
    <2>2. CASE ~(a.phase = VAL_PHASE /\ a.binValues # {})
      BY <1>3, <2>2, ExtendsSelf DEF AuxPhase
    <2> QED
      BY <2>1, <2>2
  <1> HIDE DEF b
  <1>5. Extends(s, b)
    BY <1>1, <1>3, <1>4, ExtendsTrans
  <1>6. CASE t = b
    BY <1>3, <1>4, <1>5, <1>6 DEF Leads, Waited, b, a
  <1>7. CASE t # b
    <2>1. /\ b.round \in b.coin /\ b.auxNums[b.round] >= quorum_threshold
          /\ t = [b EXCEPT !.phase = COIN_PHASE]
      BY <1>7 DEF CoinPhase
    <2>2. b.round \in Rounds /\ b.round >= b.round
      BY <1>4, FieldTypes DEF Rounds
    <2>3. \A k \in Active : \E u \in b.votes :
            u.type = "aux" /\ u.round = b.round /\ u.author = k
      BY <1>4, <2>1, <2>2, AllSent DEF Sound
    <2>4. PICK v \in V : Done(D, b, b.round, v)
      BY <1>4, <2>1 DEF Sound, Outcome
    <2>5. Full(b, b.round, v)
      <3>1. ASSUME <<b.round, v>> \in D, NEW k \in Active
            PROVE  Message("aux", k, b.round, v) \in b.votes
        <4>1. PICK u \in b.votes : u.type = "aux" /\ u.round = b.round /\ u.author = k
          BY <2>3
        <4>2. u.val = v
          BY <1>4, <3>1, <4>1 DEF Sound, Agrees
        <4>3. u \in Letter(V)
          BY <1>4, FieldTypes
        <4>4. u = Message(u.type, u.author, u.round, u.val)
          BY <4>3, LetterIs
        <4> QED
          BY <4>1, <4>2, <4>4
      <3> QED
        BY <2>4, <3>1 DEF Done, Full, AuxVoters
    <2>6. /\ t \in State(V) /\ Sound(D, V, n, t, t.binValues) /\ Extends(b, t)
          /\ t.votes = b.votes /\ t.round = b.round /\ t.phase = COIN_PHASE
      <3> HIDE DEF t
      <3> QED
        BY <1>2, <1>4, <2>1
    <2> HIDE DEF t
    <2>7. Waited(V, t)
      BY <2>5, <2>6, FullKept DEF Waited
    <2>8. Extends(s, t)
      BY <1>1, <1>4, <1>5, <2>6, ExtendsTrans
    <2> QED
      BY <1>3, <1>4, <2>6, <2>7, <2>8 DEF Leads, t, b, a
  <1> QED
    BY <1>6, <1>7

LEMMA process_aba_phaseLeads ==
  ASSUME Cardinality(Active) = quorum_threshold, NEW V, Closed(V), NEW D, NEW n \in Active,
         NEW s, Local(V, n, s), Ready(s), Sound(D, V, n, s, s.binValues), Waited(V, s),
         s.round \in 1 .. MaxRound
  PROVE  Leads(D, V, n, s, process_aba_phase(n, s))
  <1> DEFINE s1 == IF s.tc = None \/ s.tcProcessed THEN s ELSE process_tc(n, s)
             a  == process_val_phase_1(n, s1)
             s2 == IF s.phase >= VAL_PHASE THEN process_val_phase_2(n, a) ELSE s1
             s3 == IF s.phase >= AUX_PHASE THEN process_aux_phase(n, s2) ELSE s2
             s4 == IF s.phase >= COIN_PHASE THEN process_coin_share(n, s3) ELSE s3
             t  == process_aba_phase(n, s)
  <1>1. None \notin V /\ s \in State(V) /\ s.output = None
    BY DEF Closed, None, Local, Ready
  <1>2. Prepares(V, n, s, s1) /\ Leads(D, V, n, s, s1)
    <2>1. CASE s.tc = None \/ s.tcProcessed
      BY <1>1, <2>1, PreparesSelf, LeadsSelf
    <2>2. CASE ~(s.tc = None \/ s.tcProcessed)
      BY <1>1, <2>2, process_tcPrepares, process_tcLeads
    <2> QED
      BY <2>1, <2>2
  <1> HIDE DEF s1
  <1>3. Prepares(V, n, s, a) /\ Leads(D, V, n, s, a)
    <2>1. Prepares(V, n, s1, a)
      BY <1>1, <1>2, process_val_phase_1Prepares DEF Prepares
    <2>2. Leads(D, V, n, s1, a)
      BY <1>2, process_val_phase_1Leads DEF Prepares, Leads, Local, Ready
    <2>3. s1 \in State(V) /\ a \in State(V)
      BY <1>2, <2>1 DEF Prepares, Local
    <2> QED
      BY <1>1, <1>2, <2>1, <2>2, <2>3, PreparesTrans, LeadsTrans
  <1> HIDE DEF a
  <1>4. Prepares(V, n, s, s2) /\ Leads(D, V, n, s, s2)
    <2>1. CASE s.phase >= VAL_PHASE
      <3>1. a.tcProcessed
        BY <1>3, <2>1 DEF Prepares, Local, Phased, VAL_PHASE, INIT_PHASE
      <3>2. Prepares(V, n, a, s2)
        BY <1>1, <1>3, <2>1, <3>1, process_val_phase_2Prepares DEF Prepares
      <3>3. Leads(D, V, n, a, s2)
        BY <1>1, <1>3, <2>1, process_val_phase_2Leads DEF Prepares, Leads
      <3>4. s2 \in State(V) /\ a \in State(V)
        BY <1>3, <3>2 DEF Prepares, Local
      <3> QED
        BY <1>1, <1>3, <3>2, <3>3, <3>4, PreparesTrans, LeadsTrans
    <2>2. CASE ~(s.phase >= VAL_PHASE)
      BY <1>2, <2>2
    <2> QED
      BY <2>1, <2>2
  <1> HIDE DEF s2
  <1>5. Prepares(V, n, s, s3) /\ Leads(D, V, n, s, s3)
    <2> DEFINE b == process_aux_phase(n, s2)
    <2>1. Prepares(V, n, s2, b)
      BY <1>1, <1>4, process_aux_phasePrepares DEF Prepares
    <2>2. Leads(D, V, n, s2, b)
      BY <1>4, process_aux_phaseLeads DEF Prepares, Leads
    <2>3. s2 \in State(V) /\ b \in State(V)
      BY <1>4, <2>1 DEF Prepares, Local
    <2>4. Prepares(V, n, s, b) /\ Leads(D, V, n, s, b)
      BY <1>1, <1>4, <2>1, <2>2, <2>3, PreparesTrans, LeadsTrans
    <2> QED
      BY <1>4, <2>4
  <1> HIDE DEF s3
  <1>6. Leads(D, V, n, s, s4) /\ s4 \in State(V)
    <2>1. CASE s.phase >= COIN_PHASE
      <3>1. s3.phase = COIN_PHASE /\ s3.round \in 1 .. MaxRound
        <4>1. s.phase \in INIT_PHASE .. COIN_PHASE
          BY FieldTypes DEF Local
        <4>2. s.phase = COIN_PHASE
          BY <2>1, <4>1 DEF INIT_PHASE, COIN_PHASE
        <4> QED
          BY <1>5, <4>2 DEF Prepares
      <3>2. /\ Local(V, n, s3) /\ Ready(s3) /\ Sound(D, V, n, s3, s3.binValues)
            /\ Waited(V, s3) /\ s3 \in State(V)
        BY <1>5 DEF Prepares, Leads, Local
      <3>3. Leads(D, V, n, s3, s4) /\ Local(V, n, s4)
        BY <2>1, <3>1, <3>2, process_coin_shareLocal, process_coin_shareLeads
      <3>4. s4 \in State(V)
        BY <3>3 DEF Local
      <3> QED
        BY <1>1, <1>5, <3>2, <3>3, <3>4, LeadsTrans
    <2>2. CASE ~(s.phase >= COIN_PHASE)
      BY <1>5, <2>2 DEF Prepares, Local
    <2> QED
      BY <2>1, <2>2
  <1>7. t = process_aba_proof(s4)
    BY DEF process_aba_phase, s1, a, s2, s3
  <1>8. t \in State(V)
    BY process_aba_phaseLocal DEF Local
  <1> HIDE DEF s4, t
  <1>9. Leads(D, V, n, s4, t)
    BY <1>6, <1>7, process_aba_proofLeads DEF Leads
  <1>10. Leads(D, V, n, s, t)
    BY <1>1, <1>6, <1>8, <1>9, LeadsTrans
  <1> QED
    BY <1>10 DEF t

LEMMA IterateSound ==
  ASSUME Cardinality(Active) = quorum_threshold, NEW V, Closed(V), NEW D, NEW n \in Active,
         NEW s, Local(V, n, s), Settled(s), Sound(D, V, n, s, s.binValues),
         s.round \in 1 .. MaxRound
  PROVE  LET t == Iterate(n, s) IN Sound(D, V, n, t, t.binValues) /\ Extends(s, t)
  <1> DEFINE e == CoinPhase(AuxPhase(ValPhase(s)))
             a == update_aba_phase(n, s)
             t == [a EXCEPT !.isViewChange = TRUE]
  <1>1. s \in State(V)
    BY DEF Local
  <1>2. a \in State(V) /\ Sound(D, V, n, a, a.binValues) /\ Extends(s, a)
    <2>1. CASE ~s.isViewChange \/ s.output # None
      <3>1. a = s
        BY <2>1 DEF update_aba_phase
      <3> QED
        BY <1>1, <3>1, ExtendsSelf
    <2>2. CASE ~(~s.isViewChange \/ s.output # None)
      <3>1. a = process_aba_phase(n, e)
        BY <2>2 DEF update_aba_phase
      <3>2. Local(V, n, e) /\ Ready(e) /\ e.round = s.round
        BY <2>2, EnterPhases
      <3>3. Leads(D, V, n, s, e)
        BY <2>2, EnterPhasesLeads
      <3> HIDE DEF e, a
      <3>4. Leads(D, V, n, e, a)
        BY <3>1, <3>2, <3>3, process_aba_phaseLeads DEF Leads
      <3>5. a \in State(V) /\ e \in State(V)
        BY <3>1, <3>2, process_aba_phaseLocal DEF Local
      <3>6. Leads(D, V, n, s, a)
        BY <1>1, <3>3, <3>4, <3>5, LeadsTrans
      <3> QED
        BY <3>5, <3>6 DEF Leads
    <2> QED
      BY <2>1, <2>2
  <1> HIDE DEF a
  <1>3. t \in State(V)
    BY ONLY <1>2, Zenon DEF State
  <1>4. Read(t) = Read(a) /\ t.binValues = a.binValues
    BY <1>2 DEF State, Read
  <1> HIDE DEF t
  <1>5. Sound(D, V, n, t, t.binValues) /\ Extends(s, t)
    <2>1. Sound(D, V, n, t, a.binValues) /\ Extends(a, t)
      BY <1>2, <1>3, <1>4, SameRead
    <2> QED
      BY <1>1, <1>2, <1>3, <1>4, <2>1, ExtendsTrans
  <1>6. Iterate(n, s) \in {a, t}
    BY DEF Iterate, check_timeout, a, t
  <1> QED
    BY <1>2, <1>5, <1>6

\* The message of another node that has not been handled before.
LEMMA HandleSound ==
  ASSUME Cardinality(Active) = quorum_threshold, NEW V, None \notin V, NEW D, NEW n \in Active,
         NEW s, Local(V, n, s), Sound(D, V, n, s, s.binValues), NEW m \in Letter(V),
         m.author # n, m.type \in {"val", "aux", "proof"} => m.val # None,
         m.type = "aux" =>
           /\ \A u \in s.votes : u.type = "aux" /\ u.author = m.author => u.round # m.round
           /\ \A v : <<m.round, v>> \in D => m.val = v,
         m.type = "coin" => \E v \in V : <<m.round, v>> \in D,
         m.type = "proof" => <<m.round, m.val>> \in D
  PROVE  LET t == Handle(s, m) IN Sound(D, V, n, t, t.binValues)
  <1> DEFINE t == Handle(s, m)
  <1>1. /\ s \in State(V) /\ Proven(s) /\ m.val \in V \cup {None} /\ m.round \in Rounds
        /\ s.proof \in [Rounds -> V \cup {None}]
        /\ m.type \in {"tc", "val", "aux", "coin", "proof"}
    BY FieldTypes, LetterIs DEF Local, Letter
  <1>2. CASE m.type = "tc"
    <2>1. t = [s EXCEPT !.tc = m.val]
      BY <1>2 DEF Handle, handle_tc
    <2> HIDE DEF t
    <2>2. t \in State(V)
      BY ONLY <1>1, <2>1, Zenon DEF State
    <2>3. Read(t) = Read(s) /\ t.binValues = s.binValues
      BY <1>1, <2>1 DEF State, Read
    <2> QED
      BY <1>1, <2>2, <2>3, SameRead DEF t
  <1>3. CASE m.type = "val"
    <2>1. t = handle_aba_val(s, m)
      BY <1>3 DEF Handle
    <2>2. CASE is_expired_aba_message(s, m)
      BY <2>1, <2>2 DEF handle_aba_val
    <2>3. CASE ~is_expired_aba_message(s, m)
      <3>1. t = handle_val_phase(s, m)
        BY <1>3, <2>1, <2>3 DEF handle_aba_val
      <3> HIDE DEF t
      <3>2. /\ t \in State(V) /\ VoteFrame(t) = VoteFrame(s) /\ t.sent = s.sent
            /\ t.votes = s.votes \cup {m}
        BY <1>1, <3>1, VoteTypes
      <3>3. t.auxNums = s.auxNums /\ t.auxProof = s.auxProof /\ t.proof = s.proof
        BY <1>1, <3>1, ValFields
      <3>4. /\ t.round = s.round /\ t.output = s.output /\ t.outputRound = s.outputRound
            /\ t.coin = s.coin /\ t.binValues = s.binValues
        BY <3>2 DEF VoteFrame
      <3> QED
        BY <1>1, <1>3, <3>2, <3>3, <3>4, Quiet DEF t
    <2> QED
      BY <2>2, <2>3
  <1>4. CASE m.type = "aux"
    <2>1. t = handle_aba_val(s, m)
      BY <1>4 DEF Handle
    <2>2. CASE is_expired_aba_message(s, m)
      BY <2>1, <2>2 DEF handle_aba_val
    <2>3. CASE ~is_expired_aba_message(s, m)
      <3>1. t = handle_aux_phase(s, m)
        BY <1>4, <2>1, <2>3 DEF handle_aba_val
      <3> HIDE DEF t
      <3>2. t.binValues = s.binValues
        <4>1. VoteFrame(t) = VoteFrame(s)
          BY <1>1, <3>1, VoteTypes
        <4> QED
          BY <4>1 DEF VoteFrame
      <3>3. Sound(D, V, n, t, s.binValues)
        BY <1>1, <1>4, <3>1, AuxCounted
      <3> QED
        BY <3>2, <3>3 DEF t
    <2> QED
      BY <2>2, <2>3
  <1>5. CASE m.type = "coin"
    <2>1. t = handle_coin_share(s, m)
      BY <1>5 DEF Handle
    <2>2. PICK v \in V : Done(D, s, m.round, v)
      BY <1>5 DEF Done
    <2> HIDE DEF t
    <2>3. Sound(D, V, n, t, s.binValues) /\ t.binValues = s.binValues
      BY <1>1, <2>1, <2>2, CoinSound
    <2> QED
      BY <2>3 DEF t
  <1>6. CASE m.type = "proof"
    <2>1. t = handle_aba_proof(s, m)
      BY <1>6 DEF Handle
    <2>2. CASE is_expired_aba_message(s, m)
      BY <2>1, <2>2 DEF handle_aba_proof
    <2>3. CASE ~is_expired_aba_message(s, m)
      <3> DEFINE f == [s.proof EXCEPT ![m.round] = m.val]
      <3>1. t = [s EXCEPT !.proof = f]
        BY <2>1, <2>3 DEF handle_aba_proof
      <3>2. f \in [Rounds -> V \cup {None}]
            /\ \A r \in Rounds : f[r] = s.proof[r] \/ (r = m.round /\ f[r] = m.val)
        BY <1>1
      <3> HIDE DEF t, f
      <3>3. t \in State(V)
        BY ONLY <1>1, <3>1, <3>2, Zenon DEF State
      <3>4. /\ t.round = s.round /\ t.votes = s.votes /\ t.output = s.output
            /\ t.binValues = s.binValues /\ t.auxProof = s.auxProof /\ t.auxNums = s.auxNums
            /\ t.coin = s.coin /\ t.sent = s.sent /\ t.outputRound = s.outputRound
            /\ t.proof = f
        BY <1>1, <3>1 DEF State
      <3>5. /\ \A k, w : Full(t, k, w) <=> Full(s, k, w)
            /\ \A k, w : Done(D, t, k, w) <=> Done(D, s, k, w)
            /\ \A k : AuxVotes(t, k) = AuxVotes(s, k)
        BY <3>4 DEF Full, Done, AuxVoters, AuxVotes
      <3>6. \A r \in Rounds : t.proof[r] # None => Done(D, t, r, t.proof[r])
        <4>1. <<m.round, m.val>> \in D
          BY <1>6
        <4> QED
          BY <3>2, <3>4, <3>5, <4>1 DEF Sound, Outcome, Done
      <3>7. Tallies(n, t, t.binValues) /\ Agrees(D, n, t)
        BY <3>4, <3>5 DEF Sound, Tallies, Agrees
      <3>8. Outcome(D, V, t)
        BY <3>4, <3>5, <3>6 DEF Sound, Outcome
      <3> QED
        BY <3>7, <3>8 DEF Sound, t
    <2> QED
      BY <2>2, <2>3
  <1> QED
    BY <1>1, <1>2, <1>3, <1>4, <1>5, <1>6
-----------------------------------------------------------------------------
(***************************************************************************)
(* All nodes.                                                              *)
(***************************************************************************)
\* The rounds and values that some node shows are full.
Pairs == {d \in Rounds \X Value : \E k \in Active : Full(node[k], d[1], d[2])}

\* The AUX values a node has of another one came over its connection.
Delivered ==
  \A n \in Active : \A u \in node[n].votes :
    u.type = "aux" /\ u.author # n =>
      \E i \in 1 .. handled[n][u.author] : node[u.author].sent[i] = u

Decides ==
  /\ Global(Value) /\ Delivered
  /\ \A n \in Active :
       Tallies(n, node[n], node[n].binValues) /\ Outcome(Pairs, Value, node[n])

\* Every node that runs sent the value of a full round, and no other in it.
LEMMA FullOfAll ==
  ASSUME NEW V, Global(V), NEW k \in Active, NEW r, NEW v, Full(node[k], r, v),
         NEW n \in Active
  PROVE  /\ Message("aux", n, r, v) \in node[n].votes
         /\ \A u \in node[n].votes : u.type = "aux" /\ u.round = r => u.val = v
  <1>1. ASSUME NEW a \in Active PROVE Message("aux", a, r, v) \in node[a].votes
    <2>1. Message("aux", a, r, v) \in node[k].votes
      BY DEF Full, AuxVoters
    <2>2. Message("aux", a, r, v).author = a
      BY DEF Message
    <2> QED
      BY <2>1, <2>2 DEF Global
  <1>2. ASSUME NEW u \in node[n].votes, u.type = "aux", u.round = r PROVE u.val = v
    <2>1. u.author \in Active
      <3>1. u \in Letter(V)
        BY FieldTypes DEF Global
      <3> QED
        BY <3>1, LetterIs
    <2>2. u \in node[u.author].votes /\ Message("aux", u.author, r, v) \in node[u.author].votes
      BY <1>1, <2>1 DEF Global
    <2>3. OwnVotes(V, u.author, node[u.author])
      BY <2>1 DEF Global, Local
    <2>4. /\ Message("aux", u.author, r, v).type = "aux"
          /\ Message("aux", u.author, r, v).author = u.author
          /\ Message("aux", u.author, r, v).round = r
          /\ Message("aux", u.author, r, v).val = v
      BY DEF Message
    <2>5. u = Message("aux", u.author, r, v)
      BY <1>2, <2>2, <2>3, <2>4 DEF OwnVotes
    <2> QED
      BY <2>4, <2>5
  <1> QED
    BY <1>1, <1>2

LEMMA NodesAgree ==
  ASSUME Global(Value), NEW n \in Active
  PROVE  Agrees(Pairs, n, node[n])
  <1> SUFFICES ASSUME NEW r, NEW v, <<r, v>> \in Pairs
               PROVE  /\ Message("aux", n, r, v) \in node[n].votes
                      /\ \A u \in node[n].votes : u.type = "aux" /\ u.round = r => u.val = v
    BY DEF Agrees
  <1>1. PICK k \in Active : Full(node[k], r, v)
    BY DEF Pairs
  <1> QED
    BY <1>1, FullOfAll

\* A full round is one of the pairs.
LEMMA FullIsPair ==
  ASSUME Global(Value), NEW k \in Active, NEW r, NEW v, Full(node[k], r, v), v # None
  PROVE  <<r, v>> \in Pairs
  <1>1. Message("aux", k, r, v) \in node[k].votes
    BY DEF Full, AuxVoters
  <1>2. Message("aux", k, r, v) \in Letter(Value)
    BY <1>1, FieldTypes DEF Global
  <1>3. Message("aux", k, r, v).round = r /\ Message("aux", k, r, v).val = v
    BY DEF Message
  <1>4. r \in Rounds /\ v \in Value
    BY <1>2, <1>3, LetterIs
  <1> QED
    BY <1>4 DEF Pairs

LEMMA OutcomeKept ==
  ASSUME NEW D, NEW E, D \subseteq E, NEW V, NEW s, Outcome(D, V, s)
  PROVE  Outcome(E, V, s)
  <1>1. \A r, v : Done(D, s, r, v) => Done(E, s, r, v)
    BY DEF Done
  <1> QED
    BY <1>1 DEF Outcome

\* One node goes on.
LEMMA NodeDecides ==
  ASSUME Cardinality(Active) = quorum_threshold, Decides, Closed(Value), Global(Value)',
         NEW n \in Active, NEW s, Local(Value, n, s), Settled(s), Iteration(n, s),
         s.round = node[n].round, s.sent = node[n].sent,
         Sound(Pairs, Value, n, s, s.binValues), node[n].votes \subseteq s.votes,
         \A k, m \in Active : handled[k][m] <= handled'[k][m],
         \A u \in s.votes : u.type = "aux" /\ u.author # n =>
           \E i \in 1 .. handled'[n][u.author] : node[u.author].sent[i] = u
  PROVE  Decides'
  <1> DEFINE t == Iterate(n, s)
  <1>1. node \in [Active -> State(Value)] /\ s.round \in 1 .. MaxRound
    BY DEF Decides, Global
  <1>2. Local(Value, n, t) /\ Grows(n, s, t)
    BY <1>1, IterateLocal
  <1>3. Sound(Pairs, Value, n, t, t.binValues) /\ Extends(s, t)
    BY <1>1, IterateSound
  <1>4. node' = [node EXCEPT ![n] = t]
    BY DEF Iteration
  <1> HIDE DEF t
  <1>5. node'[n] = t /\ \A k \in Active \ {n} : node'[k] = node[k]
    BY <1>1, <1>4
  <1>6. \A k \in Active : node[k].votes \subseteq node'[k].votes
    BY <1>2, <1>5 DEF Grows
  <1>7. Pairs \subseteq Pairs'
    <2>1. ASSUME NEW k \in Active, NEW r, NEW v, Full(node[k], r, v)
          PROVE  Full(node'[k], r, v)
      BY <1>6, <2>1, FullKept
    <2> QED
      BY <2>1 DEF Pairs
  <1>8. \A k \in Active :
          Tallies(k, node'[k], node'[k].binValues) /\ Outcome(Pairs', Value, node'[k])
    <2>1. Tallies(n, t, t.binValues) /\ Outcome(Pairs', Value, t)
      BY <1>3, <1>7, OutcomeKept DEF Sound
    <2>2. \A k \in Active : Tallies(k, node[k], node[k].binValues) /\ Outcome(Pairs', Value, node[k])
      BY <1>7, OutcomeKept DEF Decides
    <2> QED
      BY <1>5, <2>1, <2>2
  <1>9. ASSUME NEW k \in Active, NEW u \in node'[k].votes, u.type = "aux", u.author # k
        PROVE  \E i \in 1 .. handled'[k][u.author] : node'[u.author].sent[i] = u
    <2>1. u.author \in Active
      <3>1. u \in Letter(Value)
        BY <1>9, FieldTypes DEF Global
      <3> QED
        BY <3>1, LetterIs
    <2>2. CASE k = n
      <3>1. u \in s.votes
        BY <1>2, <1>5, <1>9, <2>2 DEF Grows
      <3>2. PICK i \in 1 .. handled'[n][u.author] : node[u.author].sent[i] = u
        BY <1>9, <2>2, <3>1
      <3> QED
        BY <1>5, <1>9, <2>1, <2>2, <3>2
    <2>3. CASE k # n
      <3>1. u \in node[k].votes
        BY <1>5, <1>9, <2>3
      <3>2. PICK i \in 1 .. handled[k][u.author] : node[u.author].sent[i] = u
        BY <1>9, <3>1 DEF Decides, Delivered
      <3>3. /\ handled'[k][u.author] \in Nat /\ handled[k][u.author] \in Nat
            /\ handled[k][u.author] <= handled'[k][u.author]
            /\ handled[k][u.author] <= Len(node[u.author].sent)
        BY <2>1 DEF Decides, Global
      <3>4. Len(node[u.author].sent) \in Nat
        BY <1>1, <2>1, FieldTypes
      <3>5. i \in 1 .. handled'[k][u.author] /\ i \in 1 .. Len(node[u.author].sent)
        BY <3>3, <3>4
      <3>6. node'[u.author].sent[i] = u
        <4>1. CASE u.author = n
          BY <1>3, <1>5, <3>2, <3>5, <4>1 DEF Extends
        <4>2. CASE u.author # n
          BY <1>5, <2>1, <3>2, <4>2
        <4> QED
          BY <4>1, <4>2
      <3> QED
        BY <3>5, <3>6
    <2> QED
      BY <2>2, <2>3
  <1> QED
    BY <1>8, <1>9 DEF Decides, Delivered

LEMMA InitDecides ==
  ASSUME Init
  PROVE  Decides
  <1>1. Global(Value)
    BY InitGlobal
  <1>2. \A n \in Active :
          /\ node[n].votes = {} /\ node[n].sent = <<>> /\ node[n].coin = {}
          /\ node[n].output = None /\ node[n].round = 1
          /\ node[n].auxProof = [r \in Rounds |-> None]
          /\ node[n].proof = [r \in Rounds |-> None]
          /\ node[n].auxNums = [r \in Rounds |-> 0]
    BY DEF Init, NewNode
  <1>3. \E n : n \in Active
    <2>1. {} \notin Quorum
      BY FS_EmptySet, Thresholds DEF Quorum
    <2> QED
      BY <2>1, TCVBAAssumption
  <1>4. ASSUME NEW n \in Active
        PROVE  Tallies(n, node[n], node[n].binValues) /\ Outcome(Pairs, Value, node[n])
    <2>1. \A r : AuxVotes(node[n], r) = {} /\ \A v : ~Full(node[n], r, v)
      BY <1>2, <1>3 DEF AuxVotes, Full, AuxVoters
    <2>2. \A r \in Rounds : /\ node[n].auxNums[r] <= Cardinality(AuxVotes(node[n], r))
                            /\ ~(r < node[n].round) /\ node[n].proof[r] = None
      <3>1. Cardinality({}) = 0
        BY FS_EmptySet
      <3>2. \A r \in Rounds : node[n].auxNums[r] = 0 /\ node[n].proof[r] = None
        BY <1>2
      <3>3. \A r \in Rounds : ~(r < node[n].round)
        BY <1>2 DEF Rounds
      <3> QED
        BY <2>1, <3>1, <3>2, <3>3
    <2>3. Len(node[n].sent) = 0
      BY <1>2
    <2>4. Tallies(n, node[n], node[n].binValues)
      BY <1>2, <2>1, <2>2, <2>3 DEF Tallies
    <2>5. Outcome(Pairs, Value, node[n])
      BY <1>2, <2>2, <2>3 DEF Outcome
    <2> QED
      BY <2>4, <2>5
  <1>5. Delivered
    BY <1>2 DEF Delivered
  <1> QED
    BY <1>1, <1>4, <1>5 DEF Decides

LEMMA StepDecides ==
  ASSUME Cardinality(Active) = quorum_threshold, Closed(Value),
         \A n \in Active : TCHeights[n] \subseteq Value, Decides, [Next]_vars
  PROVE  Decides'
  <1>1. Global(Value) /\ Global(Value)' /\ Delivered /\ None \notin Value
    <2>1. Global(Value) /\ Delivered
      BY DEF Decides
    <2>2. Global(Value)'
      BY <2>1, StepGlobal
    <2>3. None \notin Value
      BY DEF Closed, None
    <2> QED
      BY <2>1, <2>2, <2>3
  <1>2. \A k \in Active : Sound(Pairs, Value, k, node[k], node[k].binValues)
    BY <1>1, NodesAgree DEF Decides, Sound
  <1>3. \A k, m \in Active : handled[k][m] \in Nat
    BY <1>1 DEF Global
  <1>4. CASE UNCHANGED vars
    <2>1. node' = node /\ handled' = handled
      BY ONLY <1>4, Zenon DEF vars
    <2>2. Pairs' = Pairs
      BY ONLY <2>1, Zenon DEF Pairs
    <2>3. Delivered'
      BY ONLY <1>1, <2>1, Zenon DEF Delivered
    <2>4. \A n \in Active :
            Tallies(n, node[n], node[n].binValues) /\ Outcome(Pairs, Value, node[n])
      BY ONLY Decides, Zenon DEF Decides
    <2>5. \A n \in Active :
            Tallies(n, node'[n], node'[n].binValues) /\ Outcome(Pairs', Value, node'[n])
      BY ONLY <2>1, <2>2, <2>4, Zenon
    <2> QED
      BY ONLY <1>1, <2>3, <2>5, Zenon DEF Decides
  <1>5. ASSUME NEW n \in Active, NEW v \in TCHeights[n], AssembleTC(n, v)
        PROVE  Decides'
    <2> DEFINE s == handle_tc(node[n], v)
               m == Message("tc", n, 1, v)
    <2>1. /\ Local(Value, n, node[n]) /\ Settled(node[n]) /\ node[n] \in State(Value)
          /\ v \in Value \cup {None}
      BY <1>1 DEF Global
    <2>2. s = [node[n] EXCEPT !.tc = v]
      BY DEF handle_tc
    <2>3. Iteration(n, s) /\ handled' = handled
      BY <1>5 DEF AssembleTC
    <2> HIDE DEF s
    <2>4. s \in State(Value)
      BY ONLY <2>1, <2>2, Zenon DEF State
    <2>5. /\ Read(s) = Read(node[n]) /\ s.binValues = node[n].binValues
          /\ s.votes = node[n].votes /\ s.sent = node[n].sent /\ s.round = node[n].round
      BY <2>1, <2>2 DEF State, Read
    <2>6. Local(Value, n, s) /\ Settled(s)
      BY <2>1, <2>2, <2>4, CacheLocal
    <2>7. Sound(Pairs, Value, n, s, s.binValues)
      BY <1>2, <2>1, <2>4, <2>5, SameRead
    <2>8. /\ \A u \in s.votes : u.type = "aux" /\ u.author # n =>
               \E i \in 1 .. handled'[n][u.author] : node[u.author].sent[i] = u
          /\ \A a, b \in Active : handled[a][b] <= handled'[a][b]
      BY <1>1, <1>3, <2>3, <2>5 DEF Delivered
    <2> QED
      BY <1>1, <2>3, <2>5, <2>6, <2>7, <2>8, NodeDecides
  <1>6. ASSUME NEW n \in Active, NEW k \in Active, Receive(n, k)
        PROVE  Decides'
    <2> DEFINE i == handled[n][k] + 1
               m == node[k].sent[i]
               s == Handle(node[n], m)
    <2>1. /\ n # k /\ handled[n][k] < Len(node[k].sent) /\ Iteration(n, s)
          /\ handled' = [handled EXCEPT ![n][k] = @ + 1]
      BY <1>6 DEF Receive, Deliver
    <2>2. /\ Local(Value, n, node[n]) /\ Settled(node[n]) /\ Local(Value, k, node[k])
          /\ node[k] \in State(Value) /\ handled[n][k] \in Nat
      BY <1>1 DEF Global
    <2>3. node[k].sent \in Seq(Letter(Value)) /\ Len(node[k].sent) \in Nat
      BY <2>2, FieldTypes
    <2>4. i \in 1 .. Len(node[k].sent)
      BY <2>1, <2>2, <2>3
    <2>5. /\ m \in Letter(Value) /\ m.author = k
          /\ m.type = "aux" => m \in node[k].votes
          /\ m.type = "coin" => AuxDone(Value, node[k], m.round)
          /\ m.type \in {"val", "aux", "proof"} => m.val # None
      <3>1. m \in Letter(Value)
        BY ONLY <2>3, <2>4
      <3>2. Sent(Value, k, node[k])
        BY ONLY <2>2, Zenon DEF Local
      <3> HIDE DEF i
      <3> QED
        BY ONLY <2>4, <3>1, <3>2 DEF Sent
    <2>6. m.type = "proof" => Full(node[k], m.round, m.val)
      BY <2>4 DEF Decides, Outcome
    <2>7. /\ \A a, b \in Active : handled[a][b] <= handled'[a][b]
          /\ handled'[n][k] = i
      <3>1. handled \in [Active -> [Active -> Nat]]
        BY <1>1 DEF Global
      <3>2. handled[n] \in [Active -> Nat] /\ handled[n][k] \in Nat
        BY ONLY <3>1, n \in Active, k \in Active, Zenon
      <3>3. handled' = [handled EXCEPT ![n] = [handled[n] EXCEPT ![k] = i]]
        BY ONLY <2>1
      <3>4. handled'[n] = [handled[n] EXCEPT ![k] = i]
        BY ONLY <3>1, <3>3, n \in Active, Zenon
      <3>5. \A a \in Active \ {n} : handled'[a] = handled[a]
        BY ONLY <3>1, <3>3, Zenon
      <3>6. handled'[n][k] = i
        BY ONLY <3>2, <3>4, k \in Active, Zenon
      <3>7. \A b \in Active \ {k} : handled'[n][b] = handled[n][b]
        BY ONLY <3>2, <3>4, Zenon
      <3>8. handled[n][k] <= i
        BY ONLY <3>2
      <3> HIDE DEF i
      <3> QED
        BY ONLY <1>3, <3>5, <3>6, <3>7, <3>8
    <2>8. ASSUME m.type = "aux", NEW u \in node[n].votes, u.type = "aux", u.author = k,
                 u.round = m.round
          PROVE  FALSE
      <3>1. PICK j \in 1 .. handled[n][k] : node[k].sent[j] = u
        BY <1>1, <2>1, <2>8 DEF Delivered
      <3>2. j \in 1 .. Len(node[k].sent) /\ j < i
        BY <2>1, <2>2, <2>3
      <3>3. u \in node[k].votes
        BY <2>2, <2>8, <3>1, <3>2 DEF Local, Sent
      <3>4. u = m
        BY <2>2, <2>5, <2>8, <3>3 DEF Local, OwnVotes
      <3> QED
        BY <2>4, <2>8, <3>1, <3>2, <3>4 DEF Decides, Tallies
    <2>9. \A v : m.type = "aux" /\ <<m.round, v>> \in Pairs => m.val = v
      BY <1>1, <2>5, NodesAgree DEF Agrees
    <2>10. m.type = "coin" => \E v \in Value : <<m.round, v>> \in Pairs
      <3> SUFFICES ASSUME m.type = "coin" PROVE \E v \in Value : <<m.round, v>> \in Pairs
        OBVIOUS
      <3>1. PICK v \in Value : AuxVoters(node[k], m.round, v) \in Quorum
        BY <2>5 DEF AuxDone
      <3>2. AuxVoters(node[k], m.round, v) \subseteq Active
        BY DEF AuxVoters
      <3>3. Full(node[k], m.round, v)
        BY <3>1, <3>2, QuorumIsAll DEF Full
      <3>4. v # None
        BY <1>1, <3>1
      <3> QED
        BY <1>1, <3>3, <3>4, FullIsPair
    <2>11. m.type = "proof" => <<m.round, m.val>> \in Pairs
      BY <1>1, <2>5, <2>6, FullIsPair
    <2> HIDE DEF i, m
    <2>12. Sound(Pairs, Value, n, s, s.binValues)
      <3>1. m.type = "aux" =>
              /\ \A u \in node[n].votes :
                   u.type = "aux" /\ u.author = m.author => u.round # m.round
              /\ \A v : <<m.round, v>> \in Pairs => m.val = v
        BY <2>5, <2>8, <2>9
      <3>2. m.author # n
        BY <2>1, <2>5
      <3> QED
        BY <1>1, <1>2, <2>2, <2>5, <2>10, <2>11, <3>1, <3>2, HandleSound
    <2>13. Local(Value, n, s) /\ Settled(s) /\ Takes(node[n], m, s)
      BY <2>1, <2>2, <2>5, HandleLocal
    <2>14. Iteration(n, s)
      BY <2>1 DEF m, i
    <2> HIDE DEF s
    <2>15. s.round = node[n].round /\ s.sent = node[n].sent /\ node[n].votes \subseteq s.votes
      BY <2>13 DEF Takes
    <2>16. ASSUME NEW u \in s.votes, u.type = "aux", u.author # n
           PROVE  \E j \in 1 .. handled'[n][u.author] : node[u.author].sent[j] = u
      <3>1. CASE u \in node[n].votes
        <4>1. PICK j \in 1 .. handled[n][u.author] : node[u.author].sent[j] = u
          BY <1>1, <2>16, <3>1 DEF Delivered
        <4>2. u.author \in Active
          <5>1. u \in Letter(Value)
            BY <1>1, <3>1, FieldTypes DEF Global
          <5> QED
            BY <5>1, LetterIs
        <4>3. /\ handled[n][u.author] <= handled'[n][u.author] /\ handled[n][u.author] \in Nat
              /\ handled'[n][u.author] \in Nat
          BY <1>1, <1>3, <2>7, <4>2 DEF Global
        <4> QED
          BY <4>1, <4>3
      <3>2. CASE u \notin node[n].votes
        <4>1. u = m
          BY <2>13, <2>16, <3>2 DEF Takes
        <4>2. i \in 1 .. handled'[n][k] /\ node[k].sent[i] = m
          BY <2>2, <2>7 DEF i, m
        <4> QED
          BY <2>5, <4>1, <4>2
      <3> QED
        BY <3>1, <3>2
    <2> QED
      BY <1>1, <2>7, <2>12, <2>13, <2>14, <2>15, <2>16, NodeDecides
  <1>7. ASSUME NEW n \in Active, OtherMessage(n) PROVE Decides'
    <2>1. Iteration(n, node[n]) /\ handled' = handled
      BY <1>7 DEF OtherMessage
    <2>2. Local(Value, n, node[n]) /\ Settled(node[n])
      BY <1>1 DEF Global
    <2>3. /\ \A u \in node[n].votes : u.type = "aux" /\ u.author # n =>
               \E i \in 1 .. handled'[n][u.author] : node[u.author].sent[i] = u
          /\ \A a, b \in Active : handled[a][b] <= handled'[a][b]
      BY <1>1, <1>3, <2>1 DEF Delivered
    <2> QED
      BY <1>1, <1>2, <2>1, <2>2, <2>3, NodeDecides
  <1> QED
    BY <1>4, <1>5, <1>6, <1>7 DEF Next

\* One round decides for all: no node has passed it.
LEMMA DecidesAgree ==
  ASSUME Decides, NEW n \in Active, NEW m \in Active, Decided(n), Decided(m),
         node[n].outputRound <= node[m].outputRound
  PROVE  node[n].output = node[m].output
  <1> DEFINE v == node[n].output
             w == node[m].output
             r == node[n].outputRound
             q == node[m].outputRound
  <1>1. Global(Value)
    BY DEF Decides
  <1>2. ASSUME NEW k \in Active, Decided(k)
        PROVE  /\ \E a \in Active : Full(node[a], node[k].outputRound, node[k].output)
               /\ node[k].output % 2 = Coin[node[k].outputRound]
    <2>1. /\ Done(Pairs, node[k], node[k].outputRound, node[k].output)
          /\ node[k].output % 2 = Coin[node[k].outputRound]
      BY <1>2 DEF Decides, Outcome, Decided
    <2> QED
      BY <2>1 DEF Done, Pairs
  <1>3. PICK a \in Active : Full(node[a], r, v)
    BY <1>2
  <1>4. PICK b \in Active : Full(node[b], q, w)
    BY <1>2
  <1>5. \A x : /\ Message("aux", m, r, x).type = "aux" /\ Message("aux", m, r, x).round = r
               /\ Message("aux", m, r, x).val = x
    BY DEF Message
  <1>6. CASE r = q
    <2>1. Message("aux", m, r, w) \in node[m].votes
      BY <1>1, <1>4, <1>6, FullOfAll
    <2>2. \A u \in node[m].votes : u.type = "aux" /\ u.round = r => u.val = v
      BY <1>1, <1>3, FullOfAll
    <2> QED
      BY <1>5, <2>1, <2>2
  <1>7. CASE r # q
    <2>1. r \in Nat /\ q \in Nat /\ node[m].round \in Int /\ q <= node[m].round
      <3>1. node[n] \in State(Value) /\ node[m] \in State(Value) /\ q <= node[m].round
        BY <1>1 DEF Global, Local, Phased
      <3> QED
        BY <3>1, FieldTypes DEF Rounds
    <2>2. r \in Rounds /\ r < node[m].round
      <3>1. Message("aux", m, r, v) \in node[m].votes
        BY <1>1, <1>3, FullOfAll
      <3>2. Message("aux", m, r, v) \in Letter(Value)
        BY <1>1, <3>1, FieldTypes DEF Global
      <3>3. r \in Rounds
        BY <1>5, <3>2, LetterIs
      <3> QED
        BY <1>7, <2>1, <3>3
    <2>3. PICK x \in Value : Full(node[m], r, x) /\ x % 2 # Coin[r]
      BY <2>2 DEF Decides, Outcome
    <2>4. x = v
      <3>1. Message("aux", m, r, x) \in node[m].votes
        BY <1>1, <2>3, FullOfAll
      <3>2. \A u \in node[m].votes : u.type = "aux" /\ u.round = r => u.val = v
        BY <1>1, <1>3, FullOfAll
      <3> QED
        BY <1>5, <3>1, <3>2
    <2> QED
      BY <1>2, <2>3, <2>4
  <1> QED
    BY <1>6, <1>7

\* When f authorities have crashed, the others end the epoch at one height,
\* whatever the heights of their TCs, the coins and the order of the messages.
THEOREM AgreementWithCrashes ==
  ASSUME Cardinality(Active) = quorum_threshold
  PROVE  Spec => []Agreement
  <1>1. Init => Decides
    BY InitDecides
  <1>2. Decides /\ [Next]_vars => Decides'
    BY ValueClosed, StepDecides
  <1>3. Decides => Agreement
    <2> SUFFICES ASSUME Decides, NEW n \in Active, NEW m \in Active, Decided(n), Decided(m)
                 PROVE  node[n].output = node[m].output
      BY DEF Agreement
    <2>1. node[n].outputRound \in Nat /\ node[m].outputRound \in Nat
      BY FieldTypes DEF Decides, Global
    <2>2. \/ node[n].outputRound <= node[m].outputRound
          \/ node[m].outputRound <= node[n].outputRound
      BY <2>1
    <2> QED
      BY <2>2, DecidesAgree
  <1> QED
    BY <1>1, <1>2, <1>3, PTL DEF Spec
=============================================================================
