CONSTANTS
  Keys = {a, b, c}
  Values = {v}
  None = None
  FirstLimits = {2}
  LaterLimits = {1}
SPECIFICATION Spec
INVARIANT LimitKept
