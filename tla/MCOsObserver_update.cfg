SPECIFICATION Spec
CONSTANTS
  Client = {c1, c2}
  Item = {i1, i2}
  Value = {v1, v2}
  None = None
  UpdatesAgain = TRUE
  MaxQueue = 2
  MaxSent = 5
SYMMETRY Symmetry
INVARIANT WantedIsHeard
CHECK_DEADLOCK FALSE
