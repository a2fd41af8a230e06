\* Three operations over two slots, under each option on its own and two stacked.
CONSTANTS
  Operations = {o1, o2, o3}
  FailureThreshold = 2
  SuccessThreshold = 2
  OpenTimeout = 2
  WindowSize = 3
  FailureRate = 50
  MaxConcurrent = 2
  OptionLists <- OptionsGiven
  MaxLost = 1
SPECIFICATION FairSpec
INVARIANTS
  TypeOK
  HalfOpenIsQuiet
  SlotsAreHeld
PROPERTIES
  OpensOnUnhealthyHistory
  OpenEndsInProbe
  ClosesWhenProven
