--------------------------- MODULE MCRateLimiter ---------------------------
(* A bucket of two tokens of five parts that gains three parts a second:   *)
(* it is full after three and a third and its key expires after six.  A    *)
(* script runs up to two seconds after its time was read.                  *)
EXTENDS RateLimiter, TLC

CONSTANTS c1, c2
ClientSymmetry == Permutations(Clients)
=============================================================================
