---------------------------- MODULE MCRateLimiter ----------------------------
(* The requests of a user are alike.                                         *)
EXTENDS RateLimiter, TLC

CONSTANTS r1, r2, r3

AnyRequest == Permutations(Requests)
=============================================================================
