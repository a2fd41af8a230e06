\* Two overlapping reads of a resource that changes and changes back.
CONSTANTS
  Reads = {r1, r2}
  Nothing = Nothing
  MaxVersion = 2
  MaxName = 1
  WritesFail = FALSE
SPECIFICATION Spec
SYMMETRY ReadSymmetry
INVARIANTS
  TypeOK
  EntryIsOneVersion
  AnswerIsConfirmed
