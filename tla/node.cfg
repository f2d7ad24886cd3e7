SPECIFICATION MCSpec
CONSTANTS
  BUFSIZE = 3
  Peer = {1, 2, 3}
  MaxSample = 2
  LocalLogic = TRUE
  MaCaco_NODES = 3
  TIMEOUT_SET = 3
  Interface = {u, v}
  MaxRequests = 2
  time_base_fast = 3
  time_base_slow = 8
  num_phases = 7
  Period = 3
  Shift = 2
  WRAP = 24
  MAXBODY = 2
  Pin = {1, 2}
  Helpers = {"DigInFilter", "DigInHold", "DigKeepHold", "DigInHoldSteps"}
  Holdtime = 2
  MaxGap = 2
  Wrap = 10
  Group = 3
  Messages <- Frames
  MarkLen = 2
  USART_FRAME_LEN = 15
  USART_MAXRETRY = 1
  MaxTokens = 1
  MaxFaults = 1
  MaxSends = 2
INVARIANTS NoticeKept LastDataKept NoneForgotten InTime Delivered
PROPERTIES EventuallySeen PollEnds NothingEarly
CHECK_DEADLOCK FALSE
