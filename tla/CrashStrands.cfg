CONSTANTS
  Nodes = {n1}
  NoNode = NoNode
  RetireAfter = 1
  Probes <- AllProbes
  Crashes = TRUE
  LockedWrites = FALSE
SPECIFICATION FairSpec
PROPERTY TestsEnd
