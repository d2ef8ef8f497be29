SPECIFICATION Spec
CONSTANTS
  Node <- MCOne
  stake <- MCOneStake
  transaction_cost = 2
  may_be_offline = {}
  node_capacity = 2
  world_capacity = 2
  MaxEmitted = 2
  MaxRewards = 1
CHECK_DEADLOCK FALSE
INVARIANTS
  PaymentsAndRewardsKept
