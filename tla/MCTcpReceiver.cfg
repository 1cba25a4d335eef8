SPECIFICATION RcvFairSpec
CONSTANTS
  RcvBufSize = 5
  ReadLen = 2
  MutexKind = "normal"
  ChanCap = 1
  Segment <- MCSegment
INVARIANTS RcvTypeOK RcvStreamIntact NoLostWakeup
PROPERTY EverythingRead
