SPECIFICATION Spec
CONSTANTS
  r1 = r1
  r2 = r2
  tv = tv
  phone = phone
  web = web
  Req = {r1, r2}
  Session = {tv, phone, web}
  Limit = 2
  TTL = 1
  MaxTime = 3
  MaxResponses = 4
SYMMETRY Symmetry
CHECK_DEADLOCK FALSE
INVARIANTS Bounded LatestUnlessCrowded Retained
