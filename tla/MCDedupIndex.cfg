SPECIFICATION MCSpec
CONSTANTS
  Node <- MCPair
  neighbors <- MCPairNeighbors
  Unstable = {}
  outage_nodes = {"n2"}
  outage_start_epoch = 1
  outage_duration_epochs = 1
  slot_per_epoch = 1
  node_capacity = 6
  world_capacity = 1
  MaxSlot = 4
  MaxLag = 1
  max_blocks_in_memory = 2
CHECK_DEADLOCK FALSE
INVARIANTS
  DedupIndexComplete
