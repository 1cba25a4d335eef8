SPECIFICATION Spec
CONSTANTS
  MSS = 2
  InitialSsthresh = 3
  StreamLen = 4
  WriteLens = {4}
  MaxRetrans = 1
  CwndCap = 5
  SndChanCap = 1
  RcvBufSize = 4
  ReadLen = 2
  MutexKind = "normal"
  ChanCap = 1
  Segment = {}
  Reorder = FALSE
INVARIANT ResentAsSent
CHECK_DEADLOCK FALSE
