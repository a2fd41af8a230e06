\* A burst of two, a token every tick and a half, and pauses that overlap.
CONSTANTS
  Waiters = {w1}
  Responders = {r1, r2}
  Burst = 2
  Cost = 3
  Rate = 2
  Second = 2
  RetryAfters = {0, 1}
  DefaultPause = 2
  MaxTime = 4
SPECIFICATION Spec
SYMMETRY ResponderSymmetry
INVARIANTS
  TypeOK
  RateIsKept
  WakesInTime
PROPERTY RetryAfterIsKept
