------------------------- MODULE MCMetadataLookups -------------------------
EXTENDS MetadataLookups, TLC

CONSTANTS r1, r2, movie, show, one

(* One Part, in two Media or in the second of two, of which the first has no Part. *)
OnePart == {<<<<>>, <<one>>>>, <<<<one>>, <<one>>>>}
TwoPlaces == {<<1, 1>>, <<2, 1>>}

Symmetry == Permutations({r1, r2}) \cup Permutations({movie, show})
=============================================================================
