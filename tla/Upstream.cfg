CONSTANTS
  p1 = p1  p2 = p2
  Sources = {s1, s2}
  Tagged = {s1}
  Proxies = {p1, p2}
  Bodies <- MCBodies
  Failing = TRUE
  RetireAfter = 1
SPECIFICATION FairSpec
INVARIANT TypeOK
PROPERTIES ValidatorsKeepStep AbsencesAreExact RefreshOfTheFleet FleetFollowsSources
