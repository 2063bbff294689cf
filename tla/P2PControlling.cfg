SPECIFICATION FairSpec
CONSTANTS
  p1 = p1
  p2 = p2
  r1 = r1
  r2 = r2
  n1 = n1
  n2 = n2
  Port = {p1}
  Remote = {r1, r2}
  NetOf <- OneNet
  Pref <- Prefs
  Controlled = FALSE
  MayReset = FALSE
  Overlap = FALSE
  MaxSorts = 1
  None = None
INVARIANTS
  DeadIsDoomed
  BestIsTop
  StatesReported
PROPERTIES
  SortsEnd
