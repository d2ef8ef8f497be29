SPECIFICATION MCSpec
CONSTANTS
  Node <- MCNode
  stake <- MCStake
  transaction_cost = 2
  may_be_offline = {"n2"}
  node_capacity = 2
  world_capacity = 2
  MaxEmitted = 4
  MaxRewards = 2
  Depth <- MCDepth
  max_path_hops <- MCHops
  Validator <- MCValidator
  effective_balance <- MCBalance
  Paths <- MCPaths
  SCALE = 100
  U64_MAX = 1000000
  target_depth = 2
  fee_ratio = 50
  reference_cost = 3
  beta = 80
  saturation_k = 100
  kappa = 100
  zeta = 100
  bonus_cap = 100
  eta = 50
  Fees = {3, 50}
  Costs = {1, 9}
  max_random = 4
  MaxPaths = 2
  MaxEpochs = 2
\* Each component stops at its bounds.
CHECK_DEADLOCK FALSE
INVARIANTS
  BalanceEnvelope
  LedgerCoversPayments
  FeesConserved
  MoreRelayedScoresNoLess
PROPERTIES
  PaddingNeverPays
  ProposerInOneRound
