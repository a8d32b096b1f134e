-------------------------------- MODULE TCVBA --------------------------------
(***************************************************************************)
(* The binary agreement that ends an epoch (the ABA half of Core,          *)
(* consensus/src/core.rs): the nodes put in the greatest height of their   *)
(* timeout certificates and agree on the height at which the chain of the  *)
(* leader ends.  One epoch is modelled, from the timeout certificates to   *)
(* the output of each node; what a node does with its output is            *)
(* advance_epoch of module Chain.                                          *)
(*                                                                         *)
(* One action is one iteration of the loop of Core::run: the handler of a  *)
(* message, then update_aba_phase, then check_timeout.  The network keeps  *)
(* one connection per peer (network/src/lib.rs), so the broadcasts of a    *)
(* node reach each peer in the order they were made.                       *)
(*                                                                         *)
(* no_val_phase_1, process_aux_early, advance_keeping_phase, OutputInput   *)
(* and OutputCoin are not part of the specification: each is the           *)
(* definition after it with a mistake in it, to see which property notices.*)
(***************************************************************************)
EXTENDS Committee, Sequences

CONSTANTS
  Active,     \* the authorities that run; the others have crashed
  TimedOut,   \* those of them in view change before they have a TC
  TCHeights,  \* the greatest high QC heights of the TCs each may assemble
  Coin,       \* the common coin of each round
  MaxRound    \* bound: the rounds of the agreement

\* The rounds nodes take part in, and the one they may already have data of.
Rounds == 1 .. (MaxRound + 1)

None == -1

ASSUME TCVBAAssumption ==
  /\ Active \in Quorum
  /\ TimedOut \subseteq Active
  /\ TCHeights \in [Active -> SUBSET Nat]
  /\ MaxRound \in Nat \ {0}
  /\ Coin \in [Rounds -> 0 .. 1]

VARIABLES
  node,      \* the record of each active node
  handled,   \* handled[n][m]: how many broadcasts of m node n has handled
  assembled  \* the nodes that have assembled their TC

vars == <<node, handled, assembled>>

\* The phases, as the code numbers them.
INIT_PHASE == 0
VAL_PHASE == 1
AUX_PHASE == 2
COIN_PHASE == 3

\* The state Core::new gives a node.  `votes' are the ABAProofMakers and
\* `shares' the ABARandomCoinMakers; cache1, cache2, auxProof and proof are
\* the caches of ABAProofs of the epoch, a round's proof being its value.
NewNode(n) ==
  [isViewChange |-> n \in TimedOut, tc |-> None,
   tcProcessed |-> FALSE, phase |-> INIT_PHASE, round |-> 1,
   input |-> None, binValues |-> {}, output |-> None, outputRound |-> 0,
   valSent |-> FALSE, auxSent |-> FALSE, coinSent |-> FALSE, proofSent |-> FALSE,
   votes |-> {}, shares |-> {}, auxNums |-> [r \in Rounds |-> 0],
   cache1 |-> [r \in Rounds |-> None], cache2 |-> [r \in Rounds |-> None],
   auxProof |-> [r \in Rounds |-> None], proof |-> [r \in Rounds |-> None],
   coin |-> {}, sent |-> <<>>]

Message(type, n, r, v) == [type |-> type, author |-> n, round |-> r, val |-> v]

broadcast(s, m) == [s EXCEPT !.sent = Append(@, m)]
-----------------------------------------------------------------------------
(***************************************************************************)
(* Handlers.                                                               *)
(***************************************************************************)
is_expired_aba_message(s, m) == s.output # None \/ m.round < s.round

\* The weight of the ABAProofMaker of the value of m.
Weight(s, m) ==
  Cardinality({u \in s.votes : <<u.type, u.round, u.val>> = <<m.type, m.round, m.val>>})

\* ABAProofMaker::append: a proof is made at exactly two weights (the reset
\* of the weight leaves too few authorities for a second one).
ProofAt(threshold, s, m, cache) ==
  IF m \notin s.votes /\ Weight(s, m) + 1 = threshold
  THEN [cache EXCEPT ![m.round] = m.val] ELSE cache

handle_val_phase(s, m) ==
  [s EXCEPT !.votes  = @ \cup {m},
            !.cache1 = ProofAt(random_coin_threshold, s, m, @),
            !.cache2 = ProofAt(quorum_threshold, s, m, @)]

\* The number of AUX values is counted before the duplicates are refused.
handle_aux_phase(s, m) ==
  [s EXCEPT !.votes    = @ \cup {m},
            !.auxNums  = [s.auxNums EXCEPT ![m.round] = @ + 1],
            !.auxProof = ProofAt(quorum_threshold, s, m, @)]

handle_aba_val(s, m) ==
  IF is_expired_aba_message(s, m) THEN s
  ELSE IF m.type = "val" THEN handle_val_phase(s, m)
  ELSE handle_aux_phase(s, m)

\* ABARandomCoinMaker::append: the coin is known at exactly f + 1 shares.
handle_coin_share(s, m) ==
  LET known == {u \in s.shares : u.round = m.round}
  IN  IF is_expired_aba_message(s, m) THEN s
      ELSE [s EXCEPT !.shares = @ \cup {m},
                     !.coin = IF m \notin known
                                 /\ Cardinality(known) + 1 = random_coin_threshold
                              THEN @ \cup {m.round} ELSE @]

handle_aba_proof(s, m) ==
  IF is_expired_aba_message(s, m) THEN s
  ELSE [s EXCEPT !.proof = [@ EXCEPT ![m.round] = m.val]]

\* A TC replaces the one in the cache, even when that one was used.
handle_tc(s, v) == [s EXCEPT !.tc = v]

Handle(s, m) ==
  CASE m.type = "tc"    -> handle_tc(s, m.val)
    [] m.type \in {"val", "aux"} -> handle_aba_val(s, m)
    [] m.type = "coin"  -> handle_coin_share(s, m)
    [] m.type = "proof" -> handle_aba_proof(s, m)
-----------------------------------------------------------------------------
(***************************************************************************)
(* What update_aba_phase does after the handler.                           *)
(***************************************************************************)
\* A node handles what it broadcasts at once.
broadcast_val(n, s, type, v) ==
  LET m == Message(type, n, s.round, v) IN handle_aba_val(broadcast(s, m), m)

process_tc(n, s) ==
  LET s1 == broadcast(s, Message("tc", n, 1, s.tc))
  IN  [broadcast_val(n, [s1 EXCEPT !.input = s.tc], "val", s.tc)
         EXCEPT !.tcProcessed = TRUE]

no_val_phase_1(n, s) == s

\* f + 1 nodes sent another value than our input: send it too, once.
process_val_phase_1(n, s) ==
  LET v == s.cache1[s.round]
  IN  IF v = None \/ v = s.input \/ s.valSent THEN s
      ELSE broadcast_val(n, [s EXCEPT !.valSent = TRUE], "val", v)

\* 2f + 1 nodes sent a value: accept it.  The AUX value is sent when this is
\* not the first time, and is then the last value to have a proof.
process_val_phase_2(n, s) ==
  LET v  == s.cache2[s.round]
      s1 == IF s.binValues = {} \/ s.auxSent THEN s
            ELSE broadcast_val(n, [s EXCEPT !.auxSent = TRUE], "aux", v)
  IN  IF v = None THEN s ELSE [s1 EXCEPT !.binValues = @ \cup {v}]

process_aux_early(n, s) ==
  LET m == Message("coin", n, s.round, None)
  IN  IF s.coinSent THEN s
      ELSE handle_coin_share(broadcast([s EXCEPT !.coinSent = TRUE], m), m)

process_aux_phase(n, s) ==
  LET m == Message("coin", n, s.round, None)
  IN  IF s.auxProof[s.round] = None \/ s.coinSent THEN s
      ELSE handle_coin_share(broadcast([s EXCEPT !.coinSent = TRUE], m), m)

advance_keeping_phase(n, s, v) ==
  broadcast_val(n, [s EXCEPT !.round = s.round + 1, !.phase = @ + 1, !.input = v,
                             !.binValues = {}], "val", v)

\* The next round starts; what belongs to earlier rounds is dropped.
advance_aba_round(n, s, v) ==
  LET r == s.round + 1
      retain(cache, empty) == [k \in Rounds |-> IF k < r THEN empty ELSE cache[k]]
  IN  broadcast_val(n,
        [s EXCEPT !.round = r, !.phase = VAL_PHASE, !.input = v, !.binValues = {},
                  !.valSent = FALSE, !.auxSent = FALSE, !.coinSent = FALSE,
                  !.proofSent = FALSE, !.cache1 = retain(@, None),
                  !.cache2 = retain(@, None), !.auxProof = retain(@, None),
                  !.proof = retain(@, None), !.auxNums = retain(@, 0)],
        "val", v)

OutputInput(n, s, v) == [s EXCEPT !.output = s.input, !.outputRound = s.round]

OutputCoin(n, s, v) == [s EXCEPT !.output = Coin[s.round], !.outputRound = s.round]

\* The output is the value of the AUX proof or, when a single value was
\* accepted, that value; its parity is the coin of the round.
Output(n, s, v) ==
  LET m  == Message("proof", n, s.round, s.auxProof[s.round])
      s1 == [s EXCEPT !.output = v, !.outputRound = s.round]
  IN  IF s.proofSent THEN s1 ELSE broadcast([s1 EXCEPT !.proofSent = TRUE], m)

process_coin_share(n, s) ==
  LET c == Coin[s.round]
      v == CHOOSE x \in s.binValues : TRUE
      p == s.auxProof[s.round]
  IN  IF s.round \notin s.coin THEN s
      ELSE IF Cardinality(s.binValues) = 1
      THEN IF v % 2 = c THEN Output(n, s, v) ELSE advance_aba_round(n, s, v)
      ELSE IF p # None /\ p % 2 = c THEN Output(n, s, p)
      ELSE advance_aba_round(n, s, c)

\* The proof of a peer gives the output to a node that has the coin.
process_aba_proof(s) ==
  LET p == s.proof[s.round]
  IN  IF p # None /\ s.round \in s.coin /\ p % 2 = Coin[s.round]
      THEN [s EXCEPT !.output = p, !.outputRound = s.round] ELSE s

process_aba_phase(n, s) ==
  LET s1 == IF s.tc = None \/ s.tcProcessed THEN s ELSE process_tc(n, s)
      s2 == IF s.phase >= VAL_PHASE
            THEN process_val_phase_2(n, process_val_phase_1(n, s1)) ELSE s1
      s3 == IF s.phase >= AUX_PHASE THEN process_aux_phase(n, s2) ELSE s2
      s4 == IF s.phase >= COIN_PHASE THEN process_coin_share(n, s3) ELSE s3
  IN  process_aba_proof(s4)

\* The phases a node enters before it processes them.
ValPhase(s) ==
  IF s.phase = INIT_PHASE /\ s.tcProcessed THEN [s EXCEPT !.phase = VAL_PHASE] ELSE s

AuxPhase(s) ==
  IF s.phase = VAL_PHASE /\ s.binValues # {} THEN [s EXCEPT !.phase = AUX_PHASE] ELSE s

CoinPhase(s) ==
  IF /\ s.phase = AUX_PHASE
     /\ s.round \in s.coin
     /\ s.auxNums[s.round] >= quorum_threshold
     /\ Cardinality(s.binValues) = 2 \/ s.auxProof[s.round] # None
  THEN [s EXCEPT !.phase = COIN_PHASE] ELSE s

update_aba_phase(n, s) ==
  IF ~s.isViewChange \/ s.output # None THEN s
  ELSE process_aba_phase(n, CoinPhase(AuxPhase(ValPhase(s))))

\* check_timeout of a node that has a TC or is already in view change.
check_timeout(s) == IF s.tc # None THEN [s EXCEPT !.isViewChange = TRUE] ELSE s

Iterate(n, s) == check_timeout(update_aba_phase(n, s))
-----------------------------------------------------------------------------
\* A handler leaves n in s; the iteration goes on.  No node goes beyond
\* round MaxRound.
Iteration(n, s) ==
  LET t == Iterate(n, s)
  IN  /\ t.round <= MaxRound
      /\ node' = [node EXCEPT ![n] = t]

\* handle_timeout: the timeout that completes a TC, once per epoch.
AssembleTC(n, v) ==
  /\ n \notin assembled
  /\ assembled' = assembled \cup {n}
  /\ Iteration(n, handle_tc(node[n], v))
  /\ UNCHANGED handled

\* The next message of m on its connection to n.
Deliver(n, m) ==
  /\ handled[n][m] < Len(node[m].sent)
  /\ handled' = [handled EXCEPT ![n][m] = @ + 1]

Receive(n, m) ==
  /\ n # m
  /\ Deliver(n, m)
  /\ Iteration(n, Handle(node[n], node[m].sent[handled[n][m] + 1]))
  /\ UNCHANGED assembled

\* A message of the chains, which drives the loop once more.
OtherMessage(n) ==
  /\ Iteration(n, node[n])
  /\ UNCHANGED <<handled, assembled>>

Init ==
  /\ node = [n \in Active |-> NewNode(n)]
  /\ handled = [n \in Active |-> [m \in Active |-> 0]]
  /\ assembled = {}

Next ==
  \E n \in Active : \/ \E v \in TCHeights[n] : AssembleTC(n, v)
                    \/ \E m \in Active : Receive(n, m)
                    \/ OtherMessage(n)

\* The chains driving the loop of n once more would change nothing.
Idle(n) == LET t == Iterate(n, node[n]) IN t = node[n] \/ t.round > MaxRound

\* Connections deliver, the timeouts of the active nodes make a TC at each of
\* them, and the other chains drive every loop again and again.  The last is
\* the weak fairness of OtherMessage(n): as each such step that changes node
\* n takes it further in the agreement, it is fair when n is idle again and
\* again.  The others are on the part of the action that says it was taken.
Fairness ==
  \A n \in Active :
    /\ WF_assembled(n \notin assembled /\ assembled' = assembled \cup {n})
    /\ []<>Idle(n)
    /\ \A m \in Active \ {n} : WF_handled(Deliver(n, m))

Spec == Init /\ [][Next]_vars

FairSpec == Spec /\ Fairness
-----------------------------------------------------------------------------
(***************************************************************************)
(* Properties.                                                             *)
(***************************************************************************)
Value == {0, 1} \cup UNION {TCHeights[n] : n \in Active}

ABAMessage ==
  [type : {"tc", "val", "aux", "coin", "proof"}, author : Active, round : Rounds,
   val : Value \cup {None}]

Cache == [Rounds -> Value \cup {None}]

NodeState ==
  [isViewChange : BOOLEAN, tc : Value \cup {None}, tcProcessed : BOOLEAN,
   phase : INIT_PHASE .. COIN_PHASE, round : 1 .. MaxRound,
   input : Value \cup {None}, binValues : SUBSET Value,
   output : Value \cup {None}, outputRound : 0 .. MaxRound,
   valSent : BOOLEAN, auxSent : BOOLEAN, coinSent : BOOLEAN, proofSent : BOOLEAN,
   votes : SUBSET ABAMessage, shares : SUBSET ABAMessage,
   auxNums : [Rounds -> Nat], cache1 : Cache, cache2 : Cache, auxProof : Cache,
   proof : Cache, coin : SUBSET Rounds, sent : Seq(ABAMessage)]

\* Types; a node handles no broadcast before it is made, and the AUX proof
\* that process_coin_share unwraps to send it was there.
TypeOK ==
  /\ node \in [Active -> NodeState]
  /\ \A n \in Active : \A i \in DOMAIN node[n].sent :
       node[n].sent[i].type = "proof" => node[n].sent[i].val # None
  /\ handled \in [Active -> [Active -> Nat]]
  /\ \A n, m \in Active : handled[n][m] <= Len(node[m].sent)
  /\ assembled \subseteq Active

Decided(n) == node[n].output # None

\* The heights that went into the agreement: those of the TCs processed.
Proposed ==
  {v \in Value : \E n \in Active : Message("val", n, 1, v) \in node[n].votes}

\* The nodes end the epoch at the same height, in whichever rounds and by
\* whichever rule of process_coin_share or process_aba_proof they decide.
Agreement ==
  \A n, m \in Active : Decided(n) /\ Decided(m) => node[n].output = node[m].output

\* The height is one that process_tc of some node put in, so that a block of
\* it exists for update_aba_phase to commit.
Validity == \A n \in Active : Decided(n) => node[n].output \in Proposed

\* Nobody learns the coin of a round before a quorum has fixed the AUX value
\* of that round, whose parity the coin is compared with.
CoinAfterAux ==
  \A n \in Active : \A r \in node[n].coin : \E v \in Value :
    {m \in Active : Message("aux", m, r, v) \in node[m].votes} \in Quorum

\* Every node outputs a height, if its connections deliver and its loop runs.
Termination == <>(\A n \in Active : Decided(n))
=============================================================================
