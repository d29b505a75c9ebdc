\* Two requests on one id, one replacement, a first process that may not spawn.
CONSTANTS
  part = part  raw = raw  final = final
  Sid = {s1}
  Req = {r1, r2}
  Source = {part}
  Proxied = {part}
  Validated <- NoValidated
  ForceArgs = {TRUE, FALSE}
  CopyFirst = TRUE
  Faults = {"spawn"}
  MaxSessions = 2
SPECIFICATION Spec
INVARIANT RegisterComesBack
