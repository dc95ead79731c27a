CONSTANTS
  Nodes = {n1, n2}
  NoNode = none
  MainPorts = {2, 3}
  VipPort = 1
  Cap = 2
  Callers = {scheduler}
  Stops = 0
  Linger = 0
  Losses = 1
SPECIFICATION FairSpec
PROPERTY VipReturns
