SPECIFICATION Spec
CONSTANTS
  r1 = r1
  r2 = r2
  s1 = s1
  film = film
  sequel = sequel
  Req = {r1}
  Session = {s1}
  Limit = 1
  TTL = 0
  MaxTime = 0
  MaxResponses = 2
  Part = {film, sequel}
  STRM = {film, sequel}
  HLS = TRUE
CHECK_DEADLOCK FALSE
PROPERTIES PlexIsAskedFirst
