CONSTANTS
  N = 3
  Plans <- MCPlans
SPECIFICATION FairSpec
INVARIANTS
  OutcomeIsHonest
  CleanupGateIsTruth
  NoLeak
PROPERTIES
  CleanupIsNeeded
  KeepsTheLedger
  RunEnds
