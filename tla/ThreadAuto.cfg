SPECIFICATION Spec
CONSTANTS
  a = a
  b = b
  main = main
  ext = ext
  ha = ha
  hb = hb
  Worker = {a}
  Main = main
  Foreign = {ext}
  Handler = {ha}
  HomeOf <- Home1
  CanPost <- PostTimers
  CanSend <- FromForeign
  Before = {}
  MayQuit = {}
  Doomed = {}
  Delays = {}
  MaxMsgs = 1
  MaxTime = 0
CHECK_DEADLOCK FALSE
INVARIANTS
  WakeTargetExists
