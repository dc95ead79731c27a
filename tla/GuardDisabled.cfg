CONSTANTS
  p1 = p1  p2 = p2  p3 = p3
  Proxies = {p1, p2, p3}
  Origin <- MCOrigin
  Kinds <- MCKinds
  Enabled = FALSE
  FailureThreshold = 1
  RecoveryThreshold = 1
  MassPercent = 40
  Least <- MCLeast
  Most <- MCMost
  MaxRestarts = 0
SPECIFICATION FairSpec
PROPERTY IncidentEnds
