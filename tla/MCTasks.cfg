SPECIFICATION MCSpec
CONSTANTS
  Node <- MCNode
  degree <- MCDegree
  outage_nodes = {"n1"}
  outage_start_epoch = 1
  outage_duration_epochs = 2
  MaxEpoch = 4
  MaxForwards = 3
  Validator = {"n1"}
  node_capacity = 1
  world_capacity = 6
  MaxLoad = 2
  MaxBacklog = 1
  max_threads = 2
  ValidatorLists <- MCLists
  initial_difficulty = 1
  max_batches = 2
  HashBits = 1
  MaxDifficulty = 2
  Lists <- MCMiners
  stake <- MCStake
  MaxIndex = 1
  MaxRounds = 2
INVARIANTS
  OnsetDrain
  TasksTypeOK
  SelectedIsWinner
  FinderWinsUnlessPolled
  WorkCounted
  ElectsOnMinedIndex
PROPERTIES
  SlotAnnounced
  SelectReturns
  BasisFrozen
  RoundEnds
