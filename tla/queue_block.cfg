SPECIFICATION FairSpec
CONSTANTS
  Producers = {p1, p2, p3}
  Policy = "BLOCK"
  Limit = 2
  DefaultTtl = 0
  Ttls = {0}
  MaxAttempts = 5
  MaxTime = 0
INVARIANTS CapacityBound  NoLostWakeup
PROPERTIES EveryEnqueueReturns
