SPECIFICATION GnssSpec
CONSTANTS
  Handle = {h1, h2}
  UseEmergencyPdn = FALSE
  AgpsCapable = TRUE
  PdnLookup = TRUE
  Troubles = {"open_fails", "close_fails", "lost"}
  MaxSsr = 1
  MaxInbox = 2
  MaxLookups = 1
  NiRequest = {r1, r2}
  NiNone = NiNone
  NfwDenies = TRUE
  SuplEsAlways = FALSE
  CpMtlrEs = TRUE
  NiUserAnswers = {"ACCEPT", "DENY"}
  NiKinds <- Kinds
  MaxNiAnswers = 2
  MaxNiMoves = 1
  OdPriority = {0, 2}
  MaxOdRequests = 5
  MaxOdEvents = 3
INVARIANTS
  GnssTypesOK
  ConnectionIsWanted
  SubscribersMatchModem
  CommandsNameOwnType
  RequestsAreKept
PROPERTIES
  ImplementsAtlService
  EveryRequestEnds
CHECK_DEADLOCK FALSE
