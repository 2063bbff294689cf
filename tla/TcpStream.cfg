SPECIFICATION Spec
CONSTANTS
  a = a
  b = b
  End = {a, b}
  Peer <- Pair
  Active = {a}
  Writes <- OneWay
  SndBuf = 3
  RcvBuf = 3
  Mss = 2
  PathMss = 1
  MaxXmit = 2
  MaxXmitOpening = 2
  Nagle = FALSE
  AckDelay = TRUE
  MayFail = {b}
  MayClose = {a}
  ReadSizes = {2}
  Again = {}
  MaxNet = 2
CHECK_DEADLOCK FALSE
INVARIANTS
  TypeOK
  SegmentsCover
  WindowHonoured
  AckComes
  NothingStalls
  FlushedWhenDone
PROPERTIES
  StreamSpec
