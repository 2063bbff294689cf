SPECIFICATION Spec
CONSTANTS
  a = a
  b = b
  End = {a, b}
  Peer <- Pair
  Active = {a}
  Writes <- Back
  SndBuf = 3
  RcvBuf = 3
  Mss = 1
  PathMss = 1
  MaxXmit = 2
  MaxXmitOpening = 2
  Nagle = FALSE
  AckDelay = TRUE
  MayFail = {}
  MayClose = {}
  ReadSizes = {1, 2}
  Again = {}
  MaxNet = 2
CHECK_DEADLOCK FALSE
INVARIANTS
  StreamIntact
