-------------------------- MODULE MCResponseCache --------------------------
EXTENDS ResponseCache, TLC

ReadSymmetry == Permutations(Reads)
=============================================================================
