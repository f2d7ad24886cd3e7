SPECIFICATION DiscoverySpec
CONSTANTS
  MaCaco_NODES = 3
  TIMEOUT_SET = 3
  Interface = {u, v}
  MaxRequests = 2
INVARIANTS FirstAsked
CHECK_DEADLOCK FALSE
