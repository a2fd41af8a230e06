\* Two reads at once, each by the root client or one scoped to either account.
CONSTANTS
  Reads = {r1, r2}
  Accounts = {mine, work}
  Everyone = everyone
SYMMETRY Alike
SPECIFICATION Spec
INVARIANTS
  TypeOK
  AnswersAreScoped
  RootIsUndisturbed
