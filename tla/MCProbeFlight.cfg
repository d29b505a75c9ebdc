SPECIFICATION FairSpec
CONSTANTS
  decision = decision
  metadata = metadata
  start = start
  movie = movie
  show = show
  Req = {decision, metadata, start}
  Source = {movie, show}
  Detached = {start}
  MaxProbes = 2
CHECK_DEADLOCK FALSE
INVARIANTS OneProbePerSource FailuresAreCurrent
PROPERTIES CallsReturn
