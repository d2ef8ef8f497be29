CONSTANTS
  n1 = n1
  n2 = n2
  n3 = n3
  Node <- MCNode
  Tx <- MCTx
  stake <- MCStake
  node_mempools <- MCSybilMempools
  max_blocks_in_memory = 2
  score_activation_delay_epochs = 2
  reward_settlement_depth = 2
  max_path_hops = 2
  slot_per_epoch = 2
  max_epochs = 3
  max_tx_per_block = 1
  MaxTxAge = 1
  outage_validators = {n1}
  outage_start_epoch = 1
  outage_duration_epochs = 1
SPECIFICATION Spec
INVARIANTS
  ScorePipeline
  EvidenceDelay
  RewardsSettledOnce
  NoDoubleInclusion
  DutyAccounting
PROPERTIES
  FailsOnlyInOutage
  ScoredBeforePruned
CHECK_DEADLOCK FALSE
