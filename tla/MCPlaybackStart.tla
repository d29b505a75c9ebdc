-------------------------- MODULE MCPlaybackStart --------------------------
EXTENDS PlaybackStart, TLC

CONSTANTS r1, r2, s1, film, sequel

RequestSymmetry == Permutations({r1, r2})
Symmetry == RequestSymmetry \cup Permutations({film, sequel})
=============================================================================
