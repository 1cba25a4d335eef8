SPECIFICATION RcvSpec
CONSTANTS
  RcvBufSize = 5
  ReadLen = 2
  MutexKind = "normal"
  ChanCap = 1
  Segment <- MCSegment
PROPERTY ReaderUndisturbed
