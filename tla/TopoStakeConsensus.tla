--------------------------- MODULE TopoStakeConsensus ---------------------------
(* The TopoStake consensus object of src/consensus/topostake.rs, as operators   *)
(* on its state record.  validators is the list the world state passes in, a    *)
(* sequence of [address, stake] without repeated addresses.                     *)
(*                                                                              *)
(* Amounts are abstracted to their provenance.  A score is the set of evidence  *)
(* that contributes to it, [produced, block, block_epoch]: the score epoch in   *)
(* which a block of block_epoch was credited (the EMA keeps a positive share of *)
(* every earlier contribution when beta < 1).  A proposer weight is the stake   *)
(* and the score it was computed from, and is positive when the stake is.       *)
(* Score maps are total: an address without an entry has score {}, as every     *)
(* lookup of the code defaults to 0.                                            *)
(* A reward batch is the set of rewarded addresses.  RewardCurve has the        *)
(* arithmetic.                                                                  *)
EXTENDS Path, Integers, FiniteSets

CONSTANTS
  Node,                            \* the addresses of validators and relayers
  score_activation_delay_epochs,   \* TopoStakeConfig, validated to be >= 1
  reward_settlement_depth,         \* TopoStakeConfig, in blocks
  max_path_hops                    \* TopoStakeConfig, validated to be >= 2

ASSUME ConfigAssumption ==
  /\ score_activation_delay_epochs \in Nat \ {0}
  /\ reward_settlement_depth \in Nat
  /\ max_path_hops \in Nat \ {0, 1}

NoEpoch == -1   \* active_score_epoch = None

NewConsensus ==
  [score_history           |-> [a \in Node |-> {}],
   active_score_history    |-> [a \in Node |-> {}],
   active_score_epoch      |-> NoEpoch,
   next_epoch              |-> 0,
   pending_score_roots     |-> <<>>,
   frozen_proposer_weights |-> <<>>,
   pending_rewards         |-> <<>>]

Addresses(validators) == {validators[i].address : i \in DOMAIN validators}

StakeOf(validators, a) ==
  validators[CHOOSE i \in DOMAIN validators : validators[i].address = a].stake

valid_path_record(rec, tx, miner, epoch) ==
  /\ path_length(rec, miner) <= max_path_hops
  /\ verify_at_epoch(rec, tx, miner, epoch)

\* The validators at an interior position of an eligible path of the block; they
\* get the relay rewards and the raw contribution (position 0 is the originator,
\* the last position the proposer).
Relayers(block, validators) ==
  {a \in Addresses(validators) : \E tx \in block.txs :
     LET rec == block.paths[tx] IN
       /\ valid_path_record(rec, tx, block.miner, block.epoch)
       /\ \E position \in 1..(path_length(rec, block.miner) - 1) :
            full_path(rec, block.miner)[position + 1] = a}

\* A validator without stake gets no saturated contribution.
Contribution(c, blocks, validators, a) ==
  {[produced |-> c.next_epoch, block |-> b.index, block_epoch |-> b.epoch] :
     b \in {b \in blocks : StakeOf(validators, a) > 0 /\ a \in Relayers(b, validators)}}

update_scores_from_epoch(c, blocks, validators) ==
  [c EXCEPT !.score_history =
     [a \in Node |-> IF a \in Addresses(validators)
                     THEN Contribution(c, blocks, validators, a) \cup c.score_history[a]
                     ELSE {}]]

\* Mutant: the root activates one epoch early.
enqueue_score_root_early(c, produced_epoch) ==
  [c EXCEPT !.pending_score_roots =
     Append(@, [produced_epoch     |-> produced_epoch,
                activates_at_epoch |-> produced_epoch + score_activation_delay_epochs - 1,
                scores             |-> c.score_history])]

enqueue_score_root(c, produced_epoch) ==
  [c EXCEPT !.pending_score_roots =
     Append(@, [produced_epoch     |-> produced_epoch,
                activates_at_epoch |-> produced_epoch + score_activation_delay_epochs,
                scores             |-> c.score_history])]

\* The roots at the front of the queue that the while loop pops.
RootsDue(roots, epoch) ==
  CHOOSE k \in 0..Len(roots) :
    /\ \A j \in 1..k : roots[j].activates_at_epoch <= epoch
    /\ k < Len(roots) => roots[k + 1].activates_at_epoch > epoch

activate_score_roots_for_epoch(c, target_epoch) ==
  LET roots == c.pending_score_roots
      k     == RootsDue(roots, target_epoch)
  IN IF k = 0 THEN c
     ELSE [c EXCEPT !.active_score_epoch   = roots[k].produced_epoch,
                    !.active_score_history = roots[k].scores,
                    !.pending_score_roots  = SubSeq(roots, k + 1, Len(roots))]

\* Mutant: the weights use the latest scores instead of the active ones.
freeze_latest_scores(c, validators) ==
  [c EXCEPT !.frozen_proposer_weights =
     [a \in Addresses(validators) |->
        [stake |-> StakeOf(validators, a),
         score |-> c.score_history[a]]]]

freeze_proposer_weights(c, validators) ==
  [c EXCEPT !.frozen_proposer_weights =
     [a \in Addresses(validators) |->
        [stake |-> StakeOf(validators, a),
         score |-> c.active_score_history[a]]]]

on_epoch_end(c, blocks, validators) ==
  LET updated  == update_scores_from_epoch(c, blocks, validators)
      enqueued == [enqueue_score_root(updated, c.next_epoch)
                     EXCEPT !.next_epoch = c.next_epoch + 1]
  IN freeze_proposer_weights(
       activate_score_roots_for_epoch(enqueued, enqueued.next_epoch), validators)

\* select_with_frozen_weights freezes lazily when no weights exist yet.
WithFrozenWeights(c, validators) ==
  IF DOMAIN c.frozen_proposer_weights = {}
  THEN freeze_proposer_weights(c, validators)
  ELSE c

Weighted(c, a) ==
  a \in DOMAIN c.frozen_proposer_weights /\ c.frozen_proposer_weights[a].stake > 0

\* The addresses select_with_frozen_weights can return on weights that are
\* frozen: none without positive weight in total.  The walk stops at the first
\* accumulated weight >= the draw, and a draw of exactly 0 stops at the first
\* validator even when its weight is 0.
Electable(c, validators) ==
  IF \A i \in DOMAIN validators : ~Weighted(c, validators[i].address) THEN {}
  ELSE {validators[i].address : i \in {j \in DOMAIN validators :
          j = 1 \/ Weighted(c, validators[j].address)}}

\* compute_block_rewards always pays the proposer.
BlockRewards(block, validators) == {block.miner} \cup Relayers(block, validators)

Enqueued(c, block, validators) ==
  Append(c.pending_rewards,
         [settle_at_block |-> block.index + reward_settlement_depth,
          rewards         |-> BlockRewards(block, validators)])

\* The batches at the front of the queue that settle_matured_rewards pops.
BatchesDue(batches, index) ==
  CHOOSE k \in 0..Len(batches) :
    /\ \A j \in 1..k : batches[j].settle_at_block <= index
    /\ k < Len(batches) => batches[k + 1].settle_at_block > index

\* Mutant: matured batches stay in the queue.
distribute_rewards_keeping(c, block, validators) ==
  [c EXCEPT !.pending_rewards = Enqueued(c, block, validators)]

distribute_rewards(c, block, validators) ==
  LET batches == Enqueued(c, block, validators)
      k       == BatchesDue(batches, block.index)
  IN [c EXCEPT !.pending_rewards = SubSeq(batches, k + 1, Len(batches))]

\* What distribute_rewards returns for settlement.
settle_matured_rewards(c, block, validators) ==
  LET batches == Enqueued(c, block, validators)
  IN SubSeq(batches, 1, BatchesDue(batches, block.index))

---------------------------------------------------------------------------------
\* Shapes of the state.
Evidence == [produced : Nat, block : Nat, block_epoch : Nat]

ScoreMap == [Node -> SUBSET Evidence]

ScoreRoot == [produced_epoch : Nat, activates_at_epoch : Nat, scores : ScoreMap]

RewardBatch == [settle_at_block : Nat, rewards : SUBSET Node]

Validators == Seq([address : Node, stake : Nat])

ConsensusType(c) ==
  /\ DOMAIN c = DOMAIN NewConsensus
  /\ c.score_history \in ScoreMap
  /\ c.active_score_history \in ScoreMap
  /\ c.active_score_epoch \in Nat \cup {NoEpoch}
  /\ c.next_epoch \in Nat
  /\ c.pending_score_roots \in Seq(ScoreRoot)
  /\ DOMAIN c.frozen_proposer_weights \subseteq Node
  /\ \A a \in DOMAIN c.frozen_proposer_weights :
       c.frozen_proposer_weights[a] \in [stake : Nat, score : SUBSET Evidence]
  /\ c.pending_rewards \in Seq(RewardBatch)

\* The pending roots are those of the latest epochs before epoch, without a gap,
\* and the active root is the one produced exactly the delay before epoch.
PipelineAt(c, epoch) ==
  LET roots == c.pending_score_roots
      delay == score_activation_delay_epochs
  IN /\ c.next_epoch = epoch
     /\ Len(roots) = IF epoch < delay THEN epoch ELSE delay - 1
     /\ \A i \in DOMAIN roots :
          /\ roots[i].produced_epoch = epoch - Len(roots) + i - 1
          /\ roots[i].activates_at_epoch = roots[i].produced_epoch + delay
     /\ c.active_score_epoch = IF epoch >= delay THEN epoch - delay ELSE NoEpoch

\* Whether every piece of evidence in scores is of a block of epoch or earlier.
UpTo(scores, epoch) ==
  \A a \in DOMAIN scores : \A ev \in scores[a] : ev.block_epoch <= epoch

\* How old the evidence in each score of the object is when epoch is current.
FreshnessAt(c, epoch) ==
  /\ UpTo(c.score_history, epoch - 1)
  /\ \A i \in DOMAIN c.pending_score_roots :
       UpTo(c.pending_score_roots[i].scores, c.pending_score_roots[i].produced_epoch)
  /\ UpTo(c.active_score_history, epoch - score_activation_delay_epochs)
  /\ \A a \in DOMAIN c.frozen_proposer_weights :
       \A ev \in c.frozen_proposer_weights[a].score :
         ev.block_epoch <= epoch - score_activation_delay_epochs
=================================================================================
