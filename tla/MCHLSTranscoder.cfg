\* Two requests on one id and one replacement, with processes that can be spawned:
\* those that cannot are in the liveness run.
CONSTANTS
  part = part  raw = raw  final = final
  Sid = {s1}
  Req = {r1, r2}
  Source = {part}
  Proxied = {part}
  Validated <- NoValidated
  ForceArgs = {TRUE, FALSE}
  CopyFirst = TRUE
  Faults = {}
  MaxSessions = 2
SPECIFICATION Spec
SYMMETRY Symmetry
INVARIANTS OneProcess StopIsFinal ReplacedIsStopped OutputIsOwn ActiveIsAttended
PROPERTIES DoneIsFinal ImplementsService
