SPECIFICATION IpSpec
CONSTANTS
  IpSender = {s1, s2}
  IpRecver = {"recver"}
  IpTo <- OneReceiver
  IpNamed = {s1}
  MaxIpMessages = 2
  MaxIpPieces = 2
  MaxIpBuffer = 2
PROPERTY StopEndsListening
CHECK_DEADLOCK FALSE
