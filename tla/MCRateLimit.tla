---------------------------- MODULE MCRateLimit -----------------------------
(* Instances of RateLimit for TLC: an address with a strict limit and a    *)
(* user with a wider one.                                                  *)
EXTENDS RateLimit

Limits == [k \in Keys |-> IF k = "rl:auth:ip" THEN 1 ELSE 2]

Windows == [k \in Keys |-> IF k = "rl:auth:ip" THEN 2 ELSE 3]
=============================================================================
