CONSTANTS
  Nodes = {n1, n2}
  NoNode = none
  MainPorts = {2, 3}
  VipPort = 1
  Cap = 1
  Callers = {request1, request2}
  Stops = 0
  Linger = 0
  Losses = 0
SPECIFICATION Spec
INVARIANT CapHolds
