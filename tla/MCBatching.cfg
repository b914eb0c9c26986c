SPECIFICATION BatchSpec
CONSTANTS
  Session = {1, 2}
  Client = {c1, c2}
  Owner <- TwoOwners
  Option <- Options
  None = None
  Modulus = 8
  Impatient = {"start", "stop"}
  MaxQueue = 2
  MaxEvents = 3
  MaxMoves = 2
  c1 = c1
  c2 = c2
  BfCallback = {cb1}
  BfNone = BfNone
  BfFlusher = {"flush1"}
  MaxBfEvents = 4
  cb1 = cb1
  BlStatus = {"charging", "discharging", "not_charging"}
  MaxBlChanges = 3
  MaxBlDeaths = 2
  NvHal = "hal"
  NvOthers = {"other"}
  NvRandom = {1, 2}
  MaxNvUsers = 2
  MaxNvSaves = 2
  MaxNvTroubles = 1
  BqThread = {t1, t2}
  MaxBqPushes = 2
  PcCard = {"trip", "fix"}
  PcName = {"time", "place"}
  MaxPcAdds = 2
INVARIANTS
  BatchTypesOK
  SessionsAreServed
  StoppedStaysStopped
  BatchesReachTheFramework
  BatteryIsKnown
  UtilitiesKeepTheirs
CHECK_DEADLOCK FALSE
