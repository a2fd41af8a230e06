--------------------------- MODULE MCAuthManager ----------------------------
EXTENDS AuthManager, TLC

CONSTANTS t1, t2, t3, m1, m2

\* Two goroutines of one manager, and one of another.
TwoAndOne == t1 :> m1 @@ t2 :> m1 @@ t3 :> m2

\* Two goroutines of the only manager.
Two == t1 :> m1 @@ t2 :> m1

SharedManager == Permutations({t1, t2})
=============================================================================
