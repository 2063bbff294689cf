SPECIFICATION Spec
CONSTANTS
  a = a
  b = b
  main = main
  ext = ext
  ha = ha
  hb = hb
  Worker = {a, b}
  Main = main
  Foreign = {}
  Handler = {ha, hb}
  HomeOf <- Home2
  CanPost <- PostAll
  CanSend <- OneWay
  Before <- SenderFirst
  MayQuit = {b}
  Doomed = {hb}
  Delays = {}
  MaxMsgs = 3
  MaxTime = 0
CHECK_DEADLOCK FALSE
INVARIANTS
  NoLostWakeup
  ReadyPointsToWaitingSend
  SendIsSynchronous
PROPERTIES
  NoCallAfterDestroy
