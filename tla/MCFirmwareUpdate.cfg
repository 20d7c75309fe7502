SPECIFICATION Spec
CONSTANTS
  Rollback = TRUE
  MaxSeq = 8
INVARIANTS
  SelectedIsWhole
  SuccessBootsNew
  FailedChangesNothing
