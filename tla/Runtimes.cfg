CONSTANTS
  Nodes = {n1, n2, n3}
  NoNode = none
  MainPorts = {2, 3, 4}
  VipPort = 1
  Cap = 2
  Callers = {scheduler}
  Stops = 1
  Linger = 1
  Losses = 1
SPECIFICATION FairSpec
INVARIANTS TypeOK ProcessesAreAccounted CapHolds
PROPERTY ProxiesReturn
