CONSTANTS
  Capacities <- DefaultCapacity
  MaxDue = 2
SPECIFICATION QFairSpec
PROPERTY NoQueueStarves
