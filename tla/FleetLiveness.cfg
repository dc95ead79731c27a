CONSTANTS
  Nodes = {n1}
  NoNode = NoNode
  RetireAfter = 2
  Probes <- AllProbes
  Crashes = FALSE
  LockedWrites = FALSE
SPECIFICATION FairSpec
PROPERTIES TestsEnd LifecycleMovesLegally
