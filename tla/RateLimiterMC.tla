--------------------------- MODULE RateLimiterMC ----------------------------
(***************************************************************************)
(* Instances of RateLimiter for TLC.                                       *)
(***************************************************************************)
EXTENDS RateLimiter, TLC

CONSTANTS k1, k2, p1, p2, p3

OneKey == {k1}
TwoKeys == {k1, k2}
TwoRequests == {p1, p2}
ThreeRequests == {p1, p2, p3}
RequestsAlike == Permutations(TwoRequests) \cup Permutations(TwoKeys)
ThreeAlike == Permutations(ThreeRequests)
=============================================================================
