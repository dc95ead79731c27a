CONSTANTS
  Nodes = {n1}
  NoNode = NoNode
  RetireAfter = 2
  Probes <- AllProbes
  Crashes = TRUE
  LockedWrites = TRUE
SPECIFICATION Spec
INVARIANTS TypeOK FeedListsMembers
PROPERTIES FeedKeepsItsPromise ManualNeverRetires
