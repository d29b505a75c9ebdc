SPECIFICATION FairSpec
CONSTANTS
  source = source  mirror = mirror  ftp = ftp
  origin = origin  edge = edge
  URL = {source, mirror, ftp}
  Host = {origin, edge}
  HostOf <- Hosts
  Permitted = {source, mirror}
  AllowPrivate = FALSE
  MaxRedirects = 3
  StrictMap = FALSE
INVARIANTS StaysPermitted ConnectsPublicly RequestsAreFew ResolvedHasAnswered
PROPERTIES CallsAreAnswered
