SPECIFICATION FairSpec
CONSTANTS
  Daemons <- Hosts
  Upper <- Cases
  Numerals <- Numbers
  MaxInstances = 2
  Budgets <- Allowed
INVARIANTS ConnectAsAsked PublishHonest OneLineAfterQuit
 
CHECK_DEADLOCK FALSE
