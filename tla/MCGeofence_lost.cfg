SPECIFICATION FencesSpec
CONSTANTS
  Geofence = {g1, g2}
  Client = {c1}
  Owner <- OneOwner
  Option = {o1}
  HwId = {hw1, hw2}
  Batches <- Singles
  Ops = {"add", "remove"}
  Failing = {}
  Destroys = FALSE
  MaxCommands = 3
  MaxEvents = 1
  None = None
  NtStream = {a, b}
  NtNeeds = {a}
  NtNone = NtNone
  NtSession = {s1, s2}
  NtNetwork = {"wifi", "cell"}
  MaxNtEvents = 0
  MaxNtQueue = 0
  GrClient = {"app", "engine"}
  GrCallbacks <- ReportsCallbacks
  GrQuality <- ReportsQuality
  GrConf <- ReportsConf
  GrFix <- ReportsFix
  MaxGrFixes = 0
  MaxGrEvents = 0
  g1 = g1
  g2 = g2
  c1 = c1
  c2 = c2
SYMMETRY Symmetry
INVARIANTS
  AddedIsMonitored
CHECK_DEADLOCK FALSE
