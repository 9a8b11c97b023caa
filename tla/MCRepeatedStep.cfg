CONSTANTS
  c1 = c1
  c2 = c2
  NoCursor = NoCursor
  Cursor <- MCCursor
  Blocks <- MCBlocks
  Steps <- MCSteps
  Cases <- MCCases
  Cap = 2
  Asks = {0, 1, 2, 3}
  Slowest = 1
SPECIFICATION StepSpec
INVARIANTS
  OnceUnlessTold
  WaitsAreKept
  PassesOnWhatItWaitedFor
  EveryPageOnce
PROPERTIES
  RepeatEnds
