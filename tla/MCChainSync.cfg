SPECIFICATION MCSpec
CONSTANTS
  Node <- MCPair
  neighbors <- MCPairNeighbors
  Unstable = {"n1"}
  outage_nodes = {"n2"}
  outage_start_epoch = 1
  outage_duration_epochs = 1
  slot_per_epoch = 1
  node_capacity = 3
  world_capacity = 1
  MaxSlot = 3
  MaxLag = 2
  max_blocks_in_memory = 2
CHECK_DEADLOCK FALSE
INVARIANTS
  SyncTypeOK
  LocalChainsCanonical
PROPERTIES
  TipsNeverRetreat
  NodeCatchesUp
