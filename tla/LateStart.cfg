CONSTANTS
  Jobs = {j1, j2}
  Refused = {}
  Ports = {1, 2}
  Parallel = 1
  Mishaps = 0
SPECIFICATION Spec
INVARIANT TriedBeforeBlamed
