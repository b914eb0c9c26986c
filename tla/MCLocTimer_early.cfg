SPECIFICATION TmSpec
CONSTANTS
  Timer = {t1, t2}
  Delegate = {d1, d2, d3}
  Container = {alarms}
  NULL = NULL
  Delays = {0, 2}
  Destroys = FALSE
  MaxTime = 3
  MaxTmQueue = 2
SYMMETRY Symmetry
PROPERTIES
  NoEarlyExpiry
CHECK_DEADLOCK FALSE
