SPECIFICATION Spec
CONSTANTS
  a = a
  b = b
  audio = audio
  video = video
  Initiator = a
  Responder = b
  Content = {audio}
  MaxCand = 1
  MaxFails = 1
  MaxPosted = 0
  Moved = TRUE
CHECK_DEADLOCK FALSE
INVARIANTS
  TypeOK
  CandidatesReach
  QuietAgrees
  NobodyLeftAlone
PROPERTIES
  EndIsFinal
