CONSTANTS
  k1 = k1
  k2 = k2
  Keys = {k1, k2}
  Calls <- TwoKeyCalls
  MaxRequests = 3
  MaxReloads = 0
  ClearOnInit = FALSE
  NearFull = FALSE
  InitMayFail = TRUE
  MayAbort <- TxKinds
SPECIFICATION Spec
SYMMETRY KeySymmetry
INVARIANTS
  TypeOK
  ServedInOrder
  ReadsAreFresh
  OneSweepAtATime
CHECK_DEADLOCK FALSE
