SPECIFICATION FairSpec
CONSTANTS
  MSS = 1
  InitialSsthresh = 2
  StreamLen = 2
  WriteLens = {1}
  MaxRetrans = 1
  CwndCap = 2
  SndChanCap = 1
  RcvBufSize = 1
  ReadLen = 1
  MutexKind = "errorcheck"
  ChanCap = 1
  Segment = {}
  Reorder = FALSE
PROPERTY EverythingDelivered
CHECK_DEADLOCK FALSE
