------------------------------- MODULE WorldState -------------------------------
(* The coordinator of src/network/world_state.rs: slot and epoch clock,         *)
(* validator registry, canonical chain, proposer election, scheduled outages    *)
(* and reward settlement, composed with the canonical Blockchain and the        *)
(* TopoStakeConsensus object.                                                   *)
(*                                                                              *)
(* The timer task runs next_slot under the world state's write lock and the     *)
(* receiver task takes the same lock for every message, so next_slot and the    *)
(* registration handler are the atomic actions.  The mempool of the proposer is *)
(* an input: any set of complete simple paths from an originator to the owner   *)
(* of the mempool, created in this or an earlier epoch (PathEvidence shows that *)
(* mempools hold nothing else).                                                 *)
EXTENDS Blockchain, TopoStakeConsensus

CONSTANTS
  Tx,                      \* transactions, records with field from \in Node
  stake,                   \* the stake with which each node registers
  node_mempools,           \* the node whose mempool an address proposes from: a
                           \* Sybil identity has that of its owner
  slot_per_epoch,
  max_epochs,
  max_tx_per_block,
  MaxTxAge,                \* bound: epochs a transaction may wait in a mempool
  outage_validators,       \* outage_validator_addresses
  outage_start_epoch,
  outage_duration_epochs   \* 0: the outage never ends

ASSUME WorldAssumption ==
  /\ "genesis" \notin Node
  /\ stake \in [Node -> Nat]
  /\ node_mempools \in [Node -> Node]
  /\ \A tx \in Tx : tx.from \in Node
  /\ slot_per_epoch \in Nat \ {0}
  /\ max_epochs \in Nat
  /\ max_tx_per_block \in Nat
  /\ MaxTxAge \in Nat
  /\ outage_validators \subseteq Node
  /\ outage_start_epoch \in Nat
  /\ outage_duration_epochs \in Nat

VARIABLES
  running,                    \* FALSE after std::process::exit
  current_epoch,
  current_slot,
  logical_slot_counter,
  validators,
  blockchain,                 \* the canonical chain
  consensus,
  node_availability,
  epoch_proposer_counts,      \* duties of the current epoch, summed over proposers
  block_production_success,
  block_production_failed,
  settled,                    \* reward batches credited to account_balances, in order
  ledger                      \* history: the transactions of every canonical block

clock == <<running, current_epoch, current_slot, logical_slot_counter>>
counters == <<epoch_proposer_counts, block_production_success, block_production_failed>>
vars == <<clock, validators, blockchain, consensus, node_availability, counters,
          settled, ledger>>

---------------------------------------------------------------------------------
\* The genesis block.  Its miner is a fresh wallet, its transaction is outside Tx
\* and nobody relayed it.
Genesis ==
  [index |-> 0, epoch |-> 0, slot |-> 0, hash |-> 0, parent_hash |-> -1,
   miner |-> "genesis", txs |-> {}, paths |-> <<>>]

scheduled_outage_active(epoch) ==
  /\ outage_validators # {}
  /\ epoch >= outage_start_epoch
  /\ \/ outage_duration_epochs = 0
     \/ epoch < outage_start_epoch + outage_duration_epochs

\* update_scheduled_availability: the flags all nodes have in an epoch.
Availability(epoch) ==
  [n \in Node |-> ~(scheduled_outage_active(epoch) /\ n \in outage_validators)]

\* The complete path records the mempool of miner may hold for tx: simple paths
\* from the originator to its owner, created at most MaxTxAge epochs ago.
MempoolEntries(tx, miner, epoch) ==
  {[tx |-> tx, epoch |-> e, nodes |-> path, pending |-> FALSE] :
     e \in {e \in 0..epoch : e + MaxTxAge >= epoch},
     path \in {path \in UNION {[1..k -> Node] : k \in 1..Cardinality(Node)} :
                 /\ path[1] = tx.from
                 /\ path[Len(path)] = node_mempools[miner]
                 /\ IsInjective(path)}}

\* Mutant: transactions of the chain are not filtered out.
PackableUnfiltered(miner, epoch) ==
  {packed \in UNION {[txs -> UNION {MempoolEntries(tx, miner, epoch) : tx \in Tx}] :
                       txs \in SUBSET Tx} :
     /\ Cardinality(DOMAIN packed) <= max_tx_per_block
     /\ \A tx \in DOMAIN packed : packed[tx].tx = tx}

\* What build_canonical_block may pack: at most max_tx_per_block transactions
\* that the canonical chain does not hold, each with the path of its entry.
Packable(miner, epoch) ==
  {packed \in UNION {[txs -> UNION {MempoolEntries(tx, miner, epoch) : tx \in Tx}] :
                       txs \in SUBSET {tx \in Tx : ~exist_transaction(blockchain, tx)}} :
     /\ Cardinality(DOMAIN packed) <= max_tx_per_block
     /\ \A tx \in DOMAIN packed : packed[tx].tx = tx}

build_canonical_block(miner, epoch, slot, packed) ==
  [index       |-> get_last_index(blockchain) + 1,
   epoch       |-> epoch,
   slot        |-> slot,
   hash        |-> get_last_index(blockchain) + 1,
   parent_hash |-> get_last_hash(blockchain),
   miner       |-> miner,
   txs         |-> DOMAIN packed,
   paths       |-> [tx \in DOMAIN packed |-> from_transaction_paths(packed[tx])]]

---------------------------------------------------------------------------------
Init ==
  /\ running = TRUE
  /\ current_epoch = 0
  /\ current_slot = 0
  /\ logical_slot_counter = 0
  /\ validators = <<>>
  /\ blockchain = new(Genesis)
  /\ consensus = NewConsensus
  /\ node_availability = [n \in Node |-> TRUE]
  /\ epoch_proposer_counts = 0
  /\ block_production_success = 0
  /\ block_production_failed = 0
  /\ settled = <<>>
  /\ ledger = <<>>

\* Every node sends ReceiveBecomeValidator once, in any order and at any time, so
\* retain finds no older entry of the address to drop before push.
ReceiveBecomeValidator(n) ==
  /\ running
  /\ n \notin Addresses(validators)
  /\ validators' = Append(validators, [address |-> n, stake |-> stake[n]])
  /\ UNCHANGED <<clock, blockchain, consensus, node_availability, counters, settled, ledger>>

\* select_proposer returns an error and next_slot returns early.
NoProposer(c) ==
  /\ Electable(c, validators) = {}
  /\ consensus' = c
  /\ UNCHANGED <<blockchain, block_production_success, block_production_failed, settled, ledger>>

\* The elected proposer is in the scheduled outage.
MissedDuty(c, miner) ==
  /\ ~node_availability'[miner]
  /\ consensus' = c
  /\ block_production_failed' = block_production_failed + 1
  /\ UNCHANGED <<blockchain, block_production_success, settled, ledger>>

\* apply_canonical_block.  When add_block accepts the block the chain grows, its
\* rewards are queued and the matured ones are credited; when it does not, the
\* duty counts as failed and the packed transactions are gone from the mempool.
apply_canonical_block(c, miner, block) ==
  LET ok == add_block_error(blockchain, block) = "Ok" IN
    /\ node_availability'[miner]
    /\ blockchain' = IF ok THEN add_block(blockchain, block) ELSE blockchain
    /\ consensus' = IF ok THEN distribute_rewards(c, block, validators) ELSE c
    /\ settled' = IF ok THEN settled \o settle_matured_rewards(c, block, validators)
                  ELSE settled
    /\ ledger' = IF ok THEN Append(ledger, block.txs) ELSE ledger
    /\ block_production_success' = block_production_success + IF ok THEN 1 ELSE 0
    /\ block_production_failed' = block_production_failed + IF ok THEN 0 ELSE 1

\* The part of next_slot after the clock has moved to (epoch, slot).
Propose(c, epoch, slot, duties) ==
  \/ NoProposer(c) /\ epoch_proposer_counts' = duties
  \/ \E miner \in Electable(c, validators) :
       /\ epoch_proposer_counts' = duties + 1
       /\ \/ MissedDuty(c, miner)
          \/ \E packed \in Packable(miner, epoch) :
               apply_canonical_block(
                 c, miner, build_canonical_block(miner, epoch, slot, packed))

LastSlotOfEpoch == current_slot >= slot_per_epoch - 1

\* next_slot inside an epoch.
NextSlot ==
  /\ running
  /\ ~LastSlotOfEpoch
  /\ current_slot' = current_slot + 1
  /\ logical_slot_counter' = logical_slot_counter + 1
  /\ node_availability' = Availability(current_epoch)
  /\ Propose(WithFrozenWeights(consensus, validators),
             current_epoch, current_slot + 1, epoch_proposer_counts)
  /\ UNCHANGED <<running, current_epoch, validators>>

\* The state of the consensus after next_epoch has called on_epoch_end.
ConsensusAfterEpoch ==
  on_epoch_end(consensus, get_last_epoch_block(blockchain), validators)

\* Mutant: the duties of the old epoch are not cleared.
NextEpochKeepingDuties ==
  /\ running
  /\ LastSlotOfEpoch
  /\ current_epoch + 1 < max_epochs
  /\ current_epoch' = current_epoch + 1
  /\ current_slot' = 0
  /\ logical_slot_counter' = logical_slot_counter + 1
  /\ node_availability' = Availability(current_epoch + 1)
  /\ Propose(WithFrozenWeights(ConsensusAfterEpoch, validators),
             current_epoch + 1, 0, epoch_proposer_counts)
  /\ UNCHANGED <<running, validators>>

\* next_slot across an epoch boundary: next_epoch, then the first slot.
NextEpoch ==
  /\ running
  /\ LastSlotOfEpoch
  /\ current_epoch + 1 < max_epochs
  /\ current_epoch' = current_epoch + 1
  /\ current_slot' = 0
  /\ logical_slot_counter' = logical_slot_counter + 1
  /\ node_availability' = Availability(current_epoch + 1)
  /\ Propose(WithFrozenWeights(ConsensusAfterEpoch, validators), current_epoch + 1, 0, 0)
  /\ UNCHANGED <<running, validators>>

\* next_epoch ends the process after the last epoch.
Shutdown ==
  /\ running
  /\ LastSlotOfEpoch
  /\ current_epoch + 1 >= max_epochs
  /\ running' = FALSE
  /\ current_epoch' = current_epoch + 1
  /\ current_slot' = 0
  /\ consensus' = ConsensusAfterEpoch
  /\ node_availability' = Availability(current_epoch + 1)
  /\ epoch_proposer_counts' = 0
  /\ UNCHANGED <<logical_slot_counter, validators, blockchain,
                 block_production_success, block_production_failed, settled, ledger>>

Next ==
  \/ \E n \in Node : ReceiveBecomeValidator(n)
  \/ NextSlot
  \/ NextEpoch
  \/ Shutdown

Spec == Init /\ [][Next]_vars

---------------------------------------------------------------------------------
\* The type invariant: the clock, the registry, the counters and the queues of
\* the consensus object keep their shapes, and there is always a last block.
TypeOK ==
  /\ running \in BOOLEAN
  /\ current_epoch \in Nat
  /\ current_slot \in 0..(slot_per_epoch - 1)
  /\ logical_slot_counter \in Nat
  /\ validators \in Validators
  /\ \A i \in DOMAIN blockchain.blocks :
       LET b == blockchain.blocks[i] IN
         /\ b.index \in Nat /\ b.epoch \in Nat /\ b.slot \in Nat
         /\ b.txs \subseteq Tx
  /\ Len(blockchain.blocks) \in 1..max_blocks_in_memory
  /\ blockchain.transaction_index \subseteq Tx
  /\ ConsensusType(consensus)
  /\ node_availability \in [Node -> BOOLEAN]
  /\ epoch_proposer_counts \in 0..slot_per_epoch
  /\ block_production_success \in Nat
  /\ block_production_failed \in Nat
  /\ settled \in Seq(RewardBatch)
  /\ ledger \in Seq(SUBSET Tx)

\* enqueue_score_root and activate_score_roots_for_epoch: the pending queue holds
\* the roots of the latest epochs without a gap, fewer than the delay, and the
\* active root is the one produced exactly score_activation_delay_epochs before
\* the current epoch, so no root is skipped, late or early.
ScorePipeline == PipelineAt(consensus, current_epoch)

\* freeze_proposer_weights: the weights used for proposer selection in an epoch
\* contain no evidence of a block that is younger than the activation delay,
\* whatever order of blocks, empty epochs and registrations led there.
EvidenceDelay ==
  \A a \in DOMAIN consensus.frozen_proposer_weights :
    \A ev \in consensus.frozen_proposer_weights[a].score :
      ev.block_epoch + score_activation_delay_epochs <= current_epoch

\* distribute_rewards and settle_matured_rewards: the batch of every canonical
\* block is credited exactly once, in chain order, and exactly when the chain is
\* reward_settlement_depth blocks past it.
RewardsSettledOnce ==
  LET last == get_last_index(blockchain)
      all  == settled \o consensus.pending_rewards
  IN /\ Len(all) = last
     /\ Len(settled) = IF last > reward_settlement_depth
                       THEN last - reward_settlement_depth ELSE 0
     /\ \A i \in DOMAIN all : all[i].settle_at_block = i + reward_settlement_depth

After(epoch1, slot1, epoch2, slot2) ==
  epoch1 > epoch2 \/ (epoch1 = epoch2 /\ slot1 > slot2)

\* next_slot and add_block: the blocks in memory are linked by index and parent
\* hash, at most one block exists per slot, and none is from a future slot.
ChainLinked ==
  LET blocks == blockchain.blocks IN
    /\ \A i \in 1..(Len(blocks) - 1) :
         /\ blocks[i + 1].index = blocks[i].index + 1
         /\ blocks[i + 1].parent_hash = blocks[i].hash
         /\ After(blocks[i + 1].epoch, blocks[i + 1].slot, blocks[i].epoch, blocks[i].slot)
    /\ ~After(get_last_block(blockchain).epoch, get_last_block(blockchain).slot,
              current_epoch, current_slot)

\* build_canonical_block and add_block: no transaction is packed into two
\* canonical blocks, also when the first one has been pruned from memory.
NoDoubleInclusion ==
  \A i, j \in DOMAIN ledger : i # j => ledger[i] \cap ledger[j] = {}

SlotNumber(epoch, slot) == epoch * slot_per_epoch + slot

\* Counters of next_slot and apply_canonical_block: every produced block is
\* counted once, every slot has at most one duty with one outcome, and the duties
\* reported for an epoch are those of its own slots.
DutyAccounting ==
  /\ block_production_success = get_last_index(blockchain)
  /\ block_production_success + block_production_failed <= logical_slot_counter
  /\ epoch_proposer_counts <= block_production_success + block_production_failed
  /\ epoch_proposer_counts <= current_slot + 1
  /\ running => logical_slot_counter = SlotNumber(current_epoch, current_slot)

\* next_slot skips a proposer that is in the scheduled outage: no block in memory
\* was mined by an outage validator in an epoch of the outage.
OfflineNeverProposes ==
  \A i \in DOMAIN blockchain.blocks :
    ~(/\ scheduled_outage_active(blockchain.blocks[i].epoch)
      /\ blockchain.blocks[i].miner \in outage_validators)

\* select_with_frozen_weights and update_scores_from_epoch: once frozen, the
\* proposer weights stay the same until the epoch changes, although validators
\* register, blocks arrive and scores are produced in between.
FrozenWithinEpoch ==
  [][(current_epoch' = current_epoch /\ DOMAIN consensus.frozen_proposer_weights # {})
       => consensus'.frozen_proposer_weights = consensus.frozen_proposer_weights]_vars

\* apply_canonical_block never fails on a block that build_canonical_block made:
\* a duty is counted as failed only because of the scheduled outage.
FailsOnlyInOutage ==
  [][block_production_failed' # block_production_failed
       => scheduled_outage_active(current_epoch')]_vars

\* add_block prunes and next_epoch scores what get_last_epoch_block still finds in
\* memory.  With room for the blocks of one epoch, no block leaves memory in the
\* epoch that it belongs to, so every block is there when its epoch is scored.
ScoredBeforePruned ==
  [][(/\ slot_per_epoch <= max_blocks_in_memory
      /\ blockchain'.blocks[1] # blockchain.blocks[1])
       => blockchain.blocks[1].epoch < current_epoch']_vars

\* The score root of an epoch credits the evidence of blocks of that epoch only
\* (raw_i(e) of the score update), and evidence cannot be replayed in another
\* epoch.
ScoresOwnEpochOnly ==
  \A a \in DOMAIN consensus.score_history :
    \A ev \in consensus.score_history[a] : ev.block_epoch = ev.produced
=================================================================================
