SPECIFICATION WalkSpec
CONSTANTS
  p1 = p1
  p2 = p2
  first = first
  second = second
  mkv = mkv
  iso = iso
  Part = {p1, p2}
  Item = {first, second}
  URL = {mkv, iso}
  Playable = {mkv}
  Documents <- MCDocuments
  NoPart = NoPart
  NoURL = NoURL
  MaxNew = 1
INVARIANTS ColdProbesAreEarned SelectionIsProbed PartsAreOfTheirSource ItemsAreOfTheirParts
