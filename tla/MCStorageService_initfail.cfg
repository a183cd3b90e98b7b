CONSTANTS
  k1 = k1
  k2 = k2
  Keys = {k1}
  Calls <- Gets
  MaxRequests = 1
  MaxReloads = 0
  ClearOnInit = FALSE
  NearFull = FALSE
  InitMayFail = TRUE
  MayAbort = {}
SPECIFICATION FairSpec
PROPERTY EveryRequestSettles
CHECK_DEADLOCK FALSE
