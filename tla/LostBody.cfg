CONSTANTS
  p1 = p1  p2 = p2
  Sources = {s1}
  Tagged = {s1}
  Proxies = {p1, p2}
  Bodies <- MCBodies
  Failing = TRUE
  RetireAfter = 1
SPECIFICATION Spec
PROPERTY CachedSourceIsKept
