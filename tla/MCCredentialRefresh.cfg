\* Three requests of BearerAuth over a provider that also renews on its own.
CONSTANTS
  Requests = {q1, q2, q3}
  NoRun = NoRun
  Named = TRUE
  Pinned = FALSE
  MaxToken = 3
SPECIFICATION Spec
SYMMETRY RequestSymmetry
INVARIANTS
  IInv
  TurnIsExclusive
  OneRefreshPerGeneration
  OneRenewalPerCredential
  CountsFollowCredentials
  RefusalIsOwn
PROPERTIES
  ResendCarriesNewerToken
  KeepsPromise
