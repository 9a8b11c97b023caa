SPECIFICATION PacedSpec
CONSTANTS
  r1 = r1
  r2 = r2
  r3 = r3
  a = a
  b = b
  Request <- MCRequest
  Run <- MCRun
  RunOf <- MCRunOf
  Lifetime = {0, 3}
  Buffer = 2
  Interval = 2
  Horizon = 3
INVARIANTS
  SlotsSpaced
  NoIdleGap
  TokensServeTheirLife
PROPERTIES
  EveryCallEnds
CHECK_DEADLOCK FALSE
