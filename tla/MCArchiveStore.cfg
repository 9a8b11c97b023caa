CONSTANTS
  q1 = q1
  q2 = q2
  q3 = q3
  Live = {"now"}
  Past = {"old"}
  Word = {}
  Request <- MCRequest
  Attempts = 2
SPECIFICATION Spec
SYMMETRY Symmetric
INVARIANTS
  NothingIsLost
PROPERTIES
  SavedStays
CHECK_DEADLOCK FALSE
