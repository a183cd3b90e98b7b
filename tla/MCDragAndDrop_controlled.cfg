CONSTANTS
 A = A
 B = B
 None = None
 Zones <- TwoZones
 Start <- Lists
 Neighbors <- Beside
 Modes = {"controlled"}
 Size <- Sizes
 Spacing = 1
 MaxGestures = 2
SPECIFICATION Spec
INVARIANT StateCleared
CHECK_DEADLOCK FALSE
