SPECIFICATION Spec
CONSTANTS
  r1 = r1
  r2 = r2
  movie = movie
  Req = {r1, r2}
  Part = {movie}
  MaxVersion = 6
  Content <- FileStates
SYMMETRY Symmetry
INVARIANTS ResolutionIsFresh MappingIsFresh
