CONSTANTS
  Keys = {a, b, c}
  Values = {v, w}
  None = None
  FirstLimits <- WithAndWithoutLimit
  LaterLimits = {3}
  EnsureUnique = FALSE
  Froms = {"f", "g"}
  Tos = {"t", "u"}
  Capacity = 2
  MaxAdds = 4
  ResultKeys = {"k", "l"}
  Results = {"r", "s"}
  MaxQueries = 2
  StoragePrefixes = {"p", "q"}
  Sources = {"s", "t"}
  Kinds = {"sync", "empty", "promise", "stream", "late"}
  MaxEvents = 3
  MaxRenders = 3
  Deferreds = {"d", "e"}
  Zones = {"A", "B"}
  Start <- FirstChildren
  Neighbors <- OneBelowTheOther
  Modes = {"skip", "own"}
  MaxGestures = 3
  ItemSize <- Sizes
  Spacing = 1
  Names = {"m", "n", "o"}
  Codes = {"s", "t"}
  Constants = {"f", "g", "h"}
  MaxConstants = 3
  DragItems = {"i", "j"}
  Directions = {"BEFORE", "AFTER"}
  PromisedElements = {"e", "f"}
SPECIFICATION MCSpec
INVARIANTS
  StructuresSound
  GraphAnalysisIsRight
  ColorsAgree
  DataCombined
  LateResultsAreRight
  
  StateCleared
  NothingOverlaps
PROPERTIES
  ImplementsLru
  OthersKept
  SourcesStop
CHECK_DEADLOCK FALSE
