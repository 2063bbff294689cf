SPECIFICATION Spec
CONSTANTS
  p1 = p1
  p2 = p2
  r1 = r1
  r2 = r2
  n1 = n1
  n2 = n2
  Port = {p1, p2}
  Remote = {r1}
  NetOf <- OneNet
  Pref <- Prefs
  Controlled = TRUE
  MayReset = FALSE
  Overlap = FALSE
  MaxSorts = 2
  None = None
INVARIANTS
  WritableIsBests
