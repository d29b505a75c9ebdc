SPECIFICATION Spec
CONSTANTS
  r1 = r1
  r2 = r2
  Req = {r1, r2}
  VideoName <- VideoNames
  AudioName <- AudioNames
  Normal <- NormalNames
  NotPortable = {"eac3"}
  H264 = "h264"
  AAC = "aac"
  HEVC = "hevc"
  NoCodec = ""
  HLS = TRUE
  Profiles <- MCProfiles
  Sources <- MCSources
  Documents <- MCDocuments
  Playable = TRUE
  MaxSessions = 2
SYMMETRY Symmetry
INVARIANTS ToldIsKept
PROPERTIES ForcedIntentIsHonoured CopiesSuitTheMaker RecordSuits DecisionIsOfWhatPlays ContentTypeMatches
