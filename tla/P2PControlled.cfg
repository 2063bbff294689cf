SPECIFICATION Spec
CONSTANTS
  p1 = p1
  p2 = p2
  r1 = r1
  r2 = r2
  n1 = n1
  n2 = n2
  Port = {p1, p2}
  Remote = {r1}
  NetOf <- TwoNets
  Pref <- Prefs
  Controlled = TRUE
  MayReset = TRUE
  Overlap = TRUE
  MaxSorts = 1
  None = None
INVARIANTS
  TypeOK
  NothingDangles
  PortsGoAway
  DirtyMeansPending
PROPERTIES
  AllocatesOnLoss
