SPECIFICATION Spec
CONSTANTS
  t1 = t1
  t2 = t2
  Tx = {t1, t2}
  Relayed = {t2}
  Paying = {t1, t2}
  Bodies <- MCBodies
  ActivationDelay = 2
  FinalityDepth = 1
  RewardDepth = 1
  MaxEpoch = 4
  MaxBlocks = 3
INVARIANTS
  CreditedOnce
  EvidenceDelay
  SettledEpochsClosed
  SubmittedIsComplete
CHECK_DEADLOCK FALSE
