SPECIFICATION RecordsSpec
CONSTANTS
  Timer = {t1, t2}
  Delegate = {d1, d2}
  Container = {alarms}
  NULL = NULL
  Delays = {1, 2}
  Destroys = TRUE
  MaxTime = 3
  MaxTmQueue = 1
  HpId = {1, 2, 3, 4}
  HpRank = {1, 2, 3}
  Client = {c1, c2}
  Item = {i1, i2}
  Value = {v1, v2}
  None = None
  UpdatesAgain = FALSE
  MaxQueue = 2
  MaxSent = 4
  NsNetwork = {"home", "work", "cell"}
  NsTypeOf <- NetworkTypes
  NsMobile = "mobile"
  NsApn = {"internet"}
  NsNoApn = ""
  NsMaxHandles = 2
  NsMaxItem = 2
  MaxNsReports = 5
  MaxNsQueue = 2
  SsPlain = {"gps_state"}
  SsNews <- TwoNews
  SsMaxItem = 2
  MaxSsEvents = 3
  CsId = {i1, i2}
  CsTroubles = {}
  MaxCsCommands = 5
  CgId = {1, 2}
  CgWish = {{"enter"}, {"enter", "exit"}}
  CgTroubles = {}
  MaxCgCommands = 3
  MaxCgFences = 2
INVARIANTS
  RecordsTypesOK
  TimersAreKept
  FrameworkIsAsked
  WantedIsHeard
  StatusIsKnown
  ClientBaseKnows
PROPERTIES
  EveryStartEnds
  ImplementsDataItems
CHECK_DEADLOCK FALSE
