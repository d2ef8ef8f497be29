SPECIFICATION MCSpec
CONSTANTS
  n1 = n1
  n2 = n2
  n3 = n3
  s1 = s1
  Node <- MCTriangle
  Tx <- MCTwoTx
  neighbors <- MCTriangleNeighbors
  sybil_nodes <- MCSybilNodes
  relays_all = {n1}
  max_tx_per_block = 1
  max_mempool_size = 1
  MaxEpoch = 1
  MaxBlocks = 1
  MaxLost = 1
  identified <- MCOneUnknown
  sender_hops = 3
  receiver_hops = 3
  Epoch = {0, 1}
  Links <- MCLinks
  Entry = {n1}
  Moving = {n2}
CHECK_DEADLOCK FALSE
INVARIANTS
  EvidenceTypeOK
  MempoolPaths
  PathsFormATree
  EligibleEvidence
  RelayForest
PROPERTIES
  MetadataKept
