------------------------- MODULE MCMetadataRewrite -------------------------
EXTENDS MetadataRewrite, TLC

CONSTANTS p1, p2, first, second, mkv, iso

L(part, item, strm, path, selected) ==
  [part |-> part, item |-> item, strm |-> strm, path |-> path, selected |-> selected]

(* Two items of which the second is chosen, one item of two Parts of which the first is
   flagged, and two items of one Part, of which none is chosen; some are .strm in path. *)
MCDocuments ==
  {[listed |-> <<L(p1, first, TRUE, FALSE, TRUE), L(p2, second, TRUE, TRUE, FALSE)>>, chosen |-> {second}],
   [listed |-> <<L(p1, first, TRUE, TRUE, FALSE), L(p1, second, TRUE, FALSE, FALSE)>>, chosen |-> {}]}
    \cup {[listed |-> <<L(p1, first, TRUE, FALSE, TRUE), L(p2, first, strm, FALSE, FALSE)>>, chosen |-> {}] :
            strm \in BOOLEAN}
=============================================================================
