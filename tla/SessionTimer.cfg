SPECIFICATION Spec
CONSTANTS
  a = a
  b = b
  audio = audio
  video = video
  Initiator = a
  Responder = b
  Content = {audio, video}
  MaxCand = 1
  MaxFails = 0
  MaxPosted = 0
  Moved = FALSE
CHECK_DEADLOCK FALSE
INVARIANTS
  UnwritableIsWatched
