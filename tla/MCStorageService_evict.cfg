CONSTANTS
  k1 = k1
  k2 = k2
  Keys = {k1}
  Calls <- Sets
  MaxRequests = 1
  MaxReloads = 0
  ClearOnInit = FALSE
  NearFull = FALSE
  InitMayFail = FALSE
  MayAbort = {}
SPECIFICATION Spec
PROPERTY OnlyExpiredEvicted
CHECK_DEADLOCK FALSE
