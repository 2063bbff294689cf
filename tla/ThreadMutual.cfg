SPECIFICATION FairSpec
CONSTANTS
  a = a
  b = b
  main = main
  ext = ext
  ha = ha
  hb = hb
  Worker = {a, b}
  Main = main
  Foreign = {}
  Handler = {ha, hb}
  HomeOf <- Home2
  CanPost <- PostToOne
  CanSend <- Mutual
  Before = {}
  MayQuit = {}
  Doomed = {}
  Delays = {}
  MaxMsgs = 4
  MaxTime = 0
CHECK_DEADLOCK FALSE
INVARIANTS
  NoLostWakeup
PROPERTIES
  SendReturns
