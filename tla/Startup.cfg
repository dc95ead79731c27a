CONSTANTS
  Instances = {i1, i2}
  Nodes = {n1}
  Mishaps = 3
  Slow = FALSE
SPECIFICATION FairSpec
INVARIANTS TypeOK SnapshotIsLegacy OneLeader
PROPERTIES OverIsOver ServiceComesUp
