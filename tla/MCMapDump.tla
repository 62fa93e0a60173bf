----------------------------- MODULE MCMapDump ------------------------------
(* Two buckets, the second with two keys; a room of one or two is too      *)
(* little for some maps.                                                   *)
EXTENDS MapDump

CONSTANTS k1, k2, k3

MCKeys == {k1, k2, k3}
MCBucketOf == [k \in MCKeys |-> IF k = k1 THEN 1 ELSE 2]
MCFirstLinks == [k \in MCKeys |-> IF k = k1 THEN 0 ELSE IF k = k2 THEN -1 ELSE -2]
=============================================================================
