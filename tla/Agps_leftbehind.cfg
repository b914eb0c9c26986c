SPECIFICATION Spec
CONSTANTS
  Handle = {h1, h2}
  UseEmergencyPdn = FALSE
  AgpsCapable = TRUE
  PdnLookup = FALSE
  Troubles = {"open_fails"}
  MaxSsr = 0
  MaxInbox = 3
  MaxLookups = 0
INVARIANT
  NoConnectionLeftBehind
CHECK_DEADLOCK FALSE
