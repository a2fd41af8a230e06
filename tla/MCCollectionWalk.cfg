\* Every walk, with caps below, at and above what an increment may hold.
SPECIFICATION FairSpec
CONSTANTS
  Kinds <- EveryKind
  Caps = {1, 2, 3, 5}
  Limits = {0, 2, 3}
  PageSize = 2
  Horizon = 3
  LogLimit = 5
  FaultLimit = 1
INVARIANTS
  TypeOK
  LimitIsKept
  IncrementIsWhole
PROPERTIES
  StopsForAReason
  CatchesUp
