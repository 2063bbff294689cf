SPECIFICATION FairSpec
CONSTANTS
  a = a
  b = b
  main = main
  ext = ext
  ha = ha
  hb = hb
  Worker = {a}
  Main = main
  Foreign = {}
  Handler = {ha}
  HomeOf <- Home1
  CanPost <- PostTimers
  CanSend = {}
  Before = {}
  MayQuit = {}
  Doomed = {}
  Delays = {1, 2}
  MaxMsgs = 3
  MaxTime = 3
CHECK_DEADLOCK FALSE
INVARIANTS
  TypeOK
  DelayedNotEarly
  DelayedInOrder
PROPERTIES
  NothingStays
