SPECIFICATION TrackSpec
CONSTANTS
  Session = {s1, s2}
  Client = {c1, c2}
  Owner <- TwoOwners
  Option <- Options
  None = None
  Impatient = {"start", "stop"}
  MaxRequests = 3
  MaxQueue = 2
  MaxEvents = 1
  s1 = s1
  s2 = s2
  c1 = c1
  c2 = c2
  EcSv = {v1, v2}
  EcLists <- SvLists
  EcGnssConfigs <- GnssConfigs
  EcConfigs <- Configs
  AgpsConfigInject = TRUE
  MaxEcEvents = 3
  MaxEcQueue = 2
  EdFromConf = {"tunc"}
  EdOther = {"bands"}
  MaxEdEvents = 2
  MaxEdQueue = 2
  v1 = v1
  v2 = v2
INVARIANTS
  TrackTypesOK
  ModemRunsTheSessions
  RequestsAreAnswered
  EndedSessionsStayEnded
  ModemIsConfigured
  ConfigurationIsAnswered
SYMMETRY Symmetry
CHECK_DEADLOCK FALSE
