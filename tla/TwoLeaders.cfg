CONSTANTS
  Instances = {i1, i2}
  Nodes = {n1}
  Mishaps = 1
  Slow = FALSE
SPECIFICATION Spec
INVARIANT NeverTwoLeaders
