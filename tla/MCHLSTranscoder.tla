-------------------------- MODULE MCHLSTranscoder --------------------------
(* One session id, sources for TLC: "part" is read through the Part route,    *)
(* "raw" is a direct URL that redirects to "final".                           *)
EXTENDS HLSTranscoder, TLC
CONSTANTS part, raw, final

DirectValidated == [u \in {raw, final} |-> final]
NoValidated == [u \in {} |-> u]
Symmetry == Permutations(Req)
=============================================================================
