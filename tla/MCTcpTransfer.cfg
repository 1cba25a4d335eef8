SPECIFICATION Spec
CONSTANTS
  MSS = 3
  InitialSsthresh = 4
  StreamLen = 6
  WriteLens = {2}
  MaxRetrans = 1
  CwndCap = 6
  SndChanCap = 1
  RcvBufSize = 5
  ReadLen = 2
  MutexKind = "errorcheck"
  ChanCap = 1
  Segment = {}
  Reorder = FALSE
INVARIANTS TypeOK StreamIntact  UnackedIsBuffered   
CHECK_DEADLOCK FALSE
