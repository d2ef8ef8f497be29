SPECIFICATION MCSpec
CONSTANTS
  c1 = c1
  c2 = c2
  n1 = n1
  n2 = n2
  Beacon = {c1, c2}
  Node = {n1, n2}
  rpc_urls <- MCUrls
  Epoch = {0, 1}
  Credits <- MCCredits
  Fees = {1}
  RewardDepth = 1
  Capacity = 1
  SettlementMutation = TRUE
  MaxFinalized = 2
  MaxBlocks = 2
  MaxBuilding = 1
INVARIANTS
  BuiltBlocksImport
  
PROPERTY PaysOnce
CHECK_DEADLOCK FALSE
