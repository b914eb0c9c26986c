SPECIFICATION FencesSpec
CONSTANTS
  Geofence = {g1, g2}
  Client = {c1}
  Owner <- OneOwner
  Option = {o1, o2}
  HwId = {hw1, hw2}
  Batches <- Pairs
  Ops = {"add", "remove", "pause", "resume", "modify"}
  Failing = {"add", "remove", "pause", "resume", "modify"}
  Destroys = TRUE
  MaxCommands = 2
  MaxEvents = 1
  None = None
  NtStream = {a, b}
  NtNeeds = {a}
  NtNone = NtNone
  NtSession = {s1, s2}
  NtNetwork = {"wifi", "cell"}
  MaxNtEvents = 4
  MaxNtQueue = 2
  GrClient = {"app", "engine"}
  GrCallbacks <- ReportsCallbacks
  GrQuality <- ReportsQuality
  GrConf <- ReportsConf
  GrFix <- ReportsFix
  MaxGrFixes = 2
  MaxGrEvents = 2
  g1 = g1
  g2 = g2
  c1 = c1
  c2 = c2
SYMMETRY Symmetry
INVARIANTS
  FencesTypesOK
  FencesAreKept
  BreachesReachTheirOwner
  CommandsAreAnswered
  DaemonsFollow
  WantedStreamComes
  ReportsReachTheirClients
CHECK_DEADLOCK FALSE
