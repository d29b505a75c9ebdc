\* The liveness run, and that of lost fallbacks: sources read through the Part route
\* and direct ones, one of which is rewritten by its validation, and processes that
\* may not spawn.
CONSTANTS
  part = part  raw = raw  final = final
  Sid = {s1}
  Req = {r1, r2}
  Source = {part, raw, final}
  Proxied = {part}
  Validated <- DirectValidated
  ForceArgs = {TRUE, FALSE}
  CopyFirst = TRUE
  Faults = {"spawn", "respawn"}
  MaxSessions = 1
SPECIFICATION FairSpec
PROPERTIES LostStays RequestsReturn IdleSessionsEnd StoppedSessionsEnd
CHECK_DEADLOCK FALSE
