CONSTANTS
  Instances = {i1, i2}
  Nodes = {n1}
  Mishaps = 0
  Slow = FALSE
SPECIFICATION Spec
PROPERTY StatesAreKept
