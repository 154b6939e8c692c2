SPECIFICATION Spec
CONSTANTS
  Producers = {p1, p2}
  Policy = "DROP_NEWEST"
  Limit = 2
  DefaultTtl = 1
  Ttls = {0, 2}
  MaxAttempts = 4
  MaxTime = 2
SYMMETRY ProducerSymmetry
INVARIANTS AttemptsAccounted
