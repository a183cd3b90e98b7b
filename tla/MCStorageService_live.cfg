CONSTANTS
  k1 = k1
  k2 = k2
  Keys = {k1}
  Calls <- ReadsAndWrites
  MaxRequests = 2
  MaxReloads = 1
  ClearOnInit = TRUE
  NearFull = TRUE
  InitMayFail = FALSE
  MayAbort <- TxKinds
SPECIFICATION FairSpec
INVARIANTS
  ClearedOnInit
PROPERTIES
  EveryRequestSettles
CHECK_DEADLOCK FALSE
