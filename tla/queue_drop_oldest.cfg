SPECIFICATION Spec
CONSTANTS
  Producers = {p1, p2}
  Policy = "DROP_OLDEST"
  Limit = 2
  DefaultTtl = 0
  Ttls = {0, 1, 2}
  MaxAttempts = 4
  MaxTime = 2
SYMMETRY ProducerSymmetry
INVARIANTS Conservation
PROPERTIES NoExpiredDelivery ChannelSpec
