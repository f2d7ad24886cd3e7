SPECIFICATION MCSpec
CONSTANTS
  Node = {a, b}
  Supernode = {}
  NoEEPROM = {b}
  MaCaco_NODES = 3
  MaxFaults = 2
  Networks <- SoundNetworks
  VNET_ROUTING_TABLE = 10
INVARIANTS AddressesUnique BroadcastReaches ReplyArrives
PROPERTIES AddressKept EveryoneJoins TrafficEnds
CHECK_DEADLOCK FALSE
