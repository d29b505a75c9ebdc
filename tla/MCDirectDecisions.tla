------------------------- MODULE MCDirectDecisions -------------------------
EXTENDS DirectDecisions, TLC

CONSTANTS r1, r2, tv, phone, web

Symmetry == Permutations({r1, r2}) \cup Permutations({tv, phone, web})
=============================================================================
