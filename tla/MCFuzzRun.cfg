CONSTANTS
  Plans <- MCPlans
  MaxSetupFailures = 3
SPECIFICATION Spec
INVARIANTS
  SetupsAreUntouched
  ReportIsTrue
