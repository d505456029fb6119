--------------------------- MODULE MCCacheSupport ---------------------------
(* CacheSupport for TLC: a model that rejects cachePoints, one that shares *)
(* its key (the same foundation id behind another prefix), one that does   *)
(* not.                                                                    *)
EXTENDS CacheSupport, TLC

CONSTANTS r1, r2, r3, rejecting, sibling, supporting, k1, k2

MCRequests == {r1, r2, r3}
MCModels == {rejecting, sibling, supporting}
MCKeys == {k1, k2}
MCKeyOf == [m \in MCModels |-> IF m = supporting THEN k2 ELSE k1]
MCRejecting == {rejecting}
=============================================================================
