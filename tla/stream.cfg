SPECIFICATION FairSpec
CONSTANTS
  Deliverers = {d1, d2}
  Limit = 2
  Policies = {"DROP_OLDEST", "DROP_NEWEST", "BLOCK"}
  Setups <- Situations
INVARIANTS SingleWrite WireOrder Conserved
PROPERTIES NoStall StreamEnds
CHECK_DEADLOCK FALSE
