------------------------ MODULE MCCredentialRefresh ------------------------
(* Small instances of CredentialRefresh and its refinement for TLC.        *)
EXTENDS CredentialRefreshRefinement, TLC

\* The requests are interchangeable.
RequestSymmetry == Permutations(Requests)
=============================================================================
