--------------------------- MODULE MCRateLimiter ---------------------------
EXTENDS RateLimiter, TLC

ResponderSymmetry == Permutations(Responders)
=============================================================================
