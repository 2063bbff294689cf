SPECIFICATION Spec
CONSTANTS
  rtp = rtp
  rtcp = rtcp
  Comp = {rtp, rtcp}
  MaxRef = 2
  MaxCand = 1
  MaxGather = 2
  MaxSig = 2
CHECK_DEADLOCK FALSE
INVARIANTS
  TypeOK
  WritableFollows
  TimerWatches
  CandidatesReach
  RequestPends
