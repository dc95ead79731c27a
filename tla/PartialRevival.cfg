CONSTANTS
  Nodes = {n1}
  NoNode = NoNode
  RetireAfter = 1
  Probes <- AllProbes
  Crashes = FALSE
  LockedWrites = FALSE
SPECIFICATION Spec
PROPERTY RevivedByCompleteRefresh
