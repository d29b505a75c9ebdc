--------------------------- MODULE MCPartMappings ---------------------------
EXTENDS PartMappings, TLC

CONSTANTS r1, r2, movie

(* A URL, a file past the size limit, another URL, a removal, a URL again, an
   edit that leaves the file without one. *)
FileStates == <<"url", "large", "url", "absent", "url", "unusable">>

Symmetry == Permutations({r1, r2})
=============================================================================
