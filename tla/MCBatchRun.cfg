CONSTANTS
  Names <- MCNames
  Projects <- MCProjects
  Parallel = 2
  MaxRetries = 1
SPECIFICATION Spec
INVARIANTS
  AttemptsAreAccountedFor
  BatchesLeaveNothingOut
