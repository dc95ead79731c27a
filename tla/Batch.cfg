CONSTANTS
  Jobs = {j1, j2, j3}
  Refused = {j3}
  Ports = {1, 2, 3}
  Parallel = 1
  Mishaps = 1
SPECIFICATION FairSpec
INVARIANTS TypeOK SplitsAreHarmless
PROPERTY BatchEnds
