CONSTANTS
  Requests = {r1, r2, r3, r4}
  Flushes = {f1, f2}
  Size = 2
SPECIFICATION FairSpec
INVARIANTS
  TypeOK
  NoLostWakeup
PROPERTIES
  ImplementsHandoff
  EveryWaiterGranted
  FlushReturns
CHECK_DEADLOCK FALSE
