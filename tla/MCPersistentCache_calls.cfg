CONSTANTS
  Keys = {k}
  Calls <- AllCalls
  MaxCalls = 4
  StorageMayFail = TRUE
  GetValueMayFail = TRUE
SPECIFICATION FairSpec
INVARIANTS
  TypeOK
  OneComputation
  FailuresNotCached
  LastPutServed
PROPERTIES
  EveryCallSettles
CHECK_DEADLOCK FALSE
