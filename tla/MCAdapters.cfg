CONSTANTS
  a1 = a1
  a2 = a2
  a3 = a3
  Nothing = Nothing
  Adapters <- ThreeAdapters
  Table <- Partitions
  MayLose = TRUE
  MayFail = TRUE
  MayDelete = TRUE
  Items = {1, 2}
  ItemSizes = {4, 6}
  MaxSize = 10
  AgeLimit = 2
  SizeCalls = 3
  ItemKeys = {"item"}
  Sentinel = "cryptoadapter"
  Values = {"v", "w"}
  CryptoKeys = {"K1", "K2"}
  Garbage = "garbage"
  CryptoCalls = 2
  MaxReloads = 1
SPECIFICATION FairSpec
INVARIANTS
  TypesHold
  OpeningIsSafe
  EstimateIsSound
  OneKeyInTable
  AnsweredWritesStay
PROPERTIES
  OneOutcome
  EverythingSettles
CHECK_DEADLOCK FALSE
