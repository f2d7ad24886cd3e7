SPECIFICATION FairSpec
CONSTANTS
  p1 = p1
  p2 = p2
  Peer <- OnePeer
  NODES = 2
  Static = FALSE
  SetupOrder <- Nobody
  BatteryPeer <- NoPeer
  KeepJoining = TRUE
  AfterHealthy <- ZeroByte
  MaxChange = 1
  MaxFault = 2
  MaxNet = 5
  SUBINITHEALTHY = 2
  SUBSINCREASE = 2
  SUBSDECREASE = 1
  SUBMAXHEALTY = 3
PROPERTY Converges
