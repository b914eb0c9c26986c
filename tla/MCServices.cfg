SPECIFICATION ServicesSpec
CONSTANTS
  MqMessage = {m1, m2, m3}
  MqNull = MqNull
  MqTroubles = {}
  IpSender = {s1, s2}
  IpRecver = {"recver"}
  IpTo <- OneReceiver
  IpNamed = {}
  MaxIpMessages = 2
  MaxIpPieces = 2
  MaxIpBuffer = 2
  LcObject = {o1, o2}
  LcAdapter = {"gnss", "batching"}
  LcKinds = {{}, {"gnss"}, {"gnss", "batching"}}
  LcMayFail = {"gnss"}
  MaxLcCalls = 3
  MaxLcModem = 1
  MaxLcFails = 1
  MaxLcQueue = 1
  NmFixes <- Fixes
  NmViews <- Views
  NmConfigs <- Configs
  NmConfs <- Confs
  NmWorlds <- Worlds
  NmPerGsa = 2
  NmPerGsv = 2
  NmMaxInUse = 4
  NmMaxCode = 4
INVARIANTS
  ServicesTypesOK
  MessagesArriveWhole
  ClientsAreWhoIsThere
  SentencesAreTrue
PROPERTIES
  ImplementsFifo
  EveryoneIsServed
CHECK_DEADLOCK FALSE
