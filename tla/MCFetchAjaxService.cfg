CONSTANTS
  Requests = {r1, r2, r3, r4}
  Eligible = {r1, r2}
  FlushedRequests = {r1, r3, r4}
  HasPermission = TRUE
  LowSize = 1
  HighSize = 2
  LockBased = TRUE
  TabLocks = {0}
SPECIFICATION FairSpec
INVARIANTS
  TypeOK
  FetchHoldsItsSlots
  NothingLeaks
  OutstandingIdsDistinct
PROPERTIES
  NoIdOnlyBeyondLimit
  EveryRequestSettles
CHECK_DEADLOCK FALSE
