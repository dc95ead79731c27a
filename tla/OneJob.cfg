CONSTANTS
  Nodes = {n1, n2}
  NoNode = NoNode
  RetireAfter = 1
  Probes <- TwoProbes
  Crashes = FALSE
  LockedWrites = FALSE
SPECIFICATION Spec
SYMMETRY Alike
ACTION_CONSTRAINT RevivesWait
INVARIANT OneJobPerNode
