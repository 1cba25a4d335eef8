SPECIFICATION Spec
CONSTANTS
  MSS = 1
  InitialSsthresh = 2
  StreamLen = 2
  WriteLens = {1}
  MaxRetrans = 1
  CwndCap = 2
  SndChanCap = 1
  RcvBufSize = 1
  ReadLen = 1
  MutexKind = "normal"
  ChanCap = 2
  Segment = {}
  Reorder = TRUE
INVARIANTS NoSilentStall InFlightIsTimed
 
CHECK_DEADLOCK FALSE
