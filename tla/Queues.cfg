CONSTANTS
  Capacities <- SmallCapacities
  MaxDue = 2
SPECIFICATION QFairSpec
INVARIANTS QTypeOK CapacityIsShared
PROPERTY QueueIsServed
