SPECIFICATION MCSpec
CONSTANTS
  p1 = p1
  p2 = p2
  Peer <- TwoPeers
  NODES = 3
  Static = FALSE
  SetupOrder <- Nobody
  BatteryPeer <- NoPeer
  KeepJoining = FALSE
  MaxChange = 1
  MaxFault = 1
  MaxNet = 2
  AfterHealthy <- ZeroByte
  SUBINITHEALTHY = 2
  SUBSINCREASE = 2
  SUBSDECREASE = 1
  SUBMAXHEALTY = 3
  MaCaco_INMAXSUBSCR = 4
  Requester <- Five
  MAXBYTE = 5
  MaxDeletions = 2
INVARIANTS NoCrossTalk AddressesUnique NoEarlyFailure OneEntryEach OnlyNextMissed KindMatches
PROPERTY Replicates
SYMMETRY PeerSymmetry
