SPECIFICATION Spec
CONSTANTS
  r1 = r1
  r2 = r2
  movie = movie
  show = show
  one = one
  Req = {r1, r2}
  Path = {movie, show}
  Part = {one}
  Documents <- OnePart
  Place <- TwoPlaces
  Largest = 2
  Limit = 2
  LookupTTL = 1
  MappingTTL = 2
  MaxTime = 3
SYMMETRY Symmetry
INVARIANTS LookupsAreFew AnswersAreRecent FetchedIsFresh
