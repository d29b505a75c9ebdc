--------------------------- MODULE MCMediaTarget ---------------------------
(* Three URLs on two hosts: the source, where a redirect may lead, and one    *)
(* whose scheme the policy does not allow.                                    *)
EXTENDS MediaTarget

CONSTANTS source, mirror, ftp, origin, edge

Hosts == [u \in {source, mirror, ftp} |-> IF u = mirror THEN edge ELSE origin]
=============================================================================
