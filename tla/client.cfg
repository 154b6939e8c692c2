SPECIFICATION FairSpec
CONSTANTS
  Subs = {s1, s2, s3}
  Topics = {t1}
  Peers = {}
  Endpoints = {}
  Hashes = {}
  Sequences = {0, 1, 2, 3, 4, 5}
  None = None
  Configs <- Setups
  PerTopic = 1
  MaxMessages = 1
  MaxFaults = 2
INVARIANTS   ClosePausesAll
PROPERTIES PublishExact CloseEndsGenerator ReconnectSettles
CHECK_DEADLOCK FALSE
