\* Two requests, a strategy that may hang and one that always returns.
CONSTANTS
  Requests = {q1, q2}
  NoRun = NoRun
  Named = TRUE
  Pinned = FALSE
  MaxToken = 3
SPECIFICATION FairSpec
PROPERTIES
  EveryRequestEnds
  EveryRejectionIsAnswered
