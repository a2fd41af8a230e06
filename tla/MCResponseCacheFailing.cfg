\* One read after another, when a write may fail.
CONSTANTS
  Reads = {r1}
  Nothing = Nothing
  MaxVersion = 2
  MaxName = 1
  WritesFail = TRUE
SPECIFICATION Spec
INVARIANT AnswerIsConfirmed
