SPECIFICATION TableSpec
CONSTANTS
  MaCaco_INMAXSUBSCR = 4
  Requester <- Four
  MAXBYTE = 7
  MaxDeletions = 2
INVARIANT EveryoneTried
