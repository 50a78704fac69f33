SPECIFICATION MutationSpec
CONSTANTS
  Messages = {m1}
  Window = 2
  Tolerance = 1
  Skew = 0
  PageLimit = 2
  MaxTime = 4
  MaxMutations = 2
  MaxSends = 2
  MaxLost = 1
INVARIANTS
  MutationTypeOK
  SameMutationSameText
  PassedMutationsAreShown
PROPERTIES
  RecallIsFinal
CHECK_DEADLOCK FALSE
