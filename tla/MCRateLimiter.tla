---------------------------- MODULE MCRateLimiter ----------------------------
(* Instances of RateLimiter for TLC. *)
EXTENDS RateLimiter, TLC

CONSTANTS k1, k2, p1, p2

MCKeys == {k1, k2}
MCCallers == {p1, p2}

LimiterSymmetry == Permutations(MCKeys) \cup Permutations(MCCallers)

=============================================================================
