SPECIFICATION FairSpec
CONSTANTS
  ArgVectors <- CommandLines
  Numerals <- Numbers
INVARIANTS ConfigAsAsked StrayBounded NothingLeft
PROPERTIES DaemonEnds
CHECK_DEADLOCK FALSE
