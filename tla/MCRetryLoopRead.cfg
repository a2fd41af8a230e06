\* What a refreshed 401 earns a hand-written read.
CONSTANTS
  Kinds <- EveryKind
  MaxSends = 4
SPECIFICATION Spec
INVARIANT RefreshEarnsRead
