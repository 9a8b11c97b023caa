CONSTANTS
  hostRef = hostRef
  keyRef = keyRef
  Canonical <- MCCanonical
  Globs <- MCGlobs
  Reference <- MCReference
  Nodes = {"pay", "post", "get"}
  Abstract = {"_base"}
  GRPC = {"grpc"}
  Templates <- MCTemplates
  Compound <- MCCompound
  Lists <- MCLists
  Names <- MCNames
  Orders <- MCOrders
  Runs <- MCRuns
SPECIFICATION Spec
INVARIANTS
  AbsentInputsAreCaught
