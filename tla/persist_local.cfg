SPECIFICATION Spec
CONSTANTS
  BUFSIZE = 3
  Peer = {1, 2, 3}
  MaxSample = 2
  LocalLogic = TRUE
PROPERTIES FreeSpaceUsed
CHECK_DEADLOCK FALSE
